---------------------------- MODULE MCJobService ----------------------------
(* Small instances of JobService for TLC. *)
EXTENDS JobProperties, TLC

(* Jobs, workers and clients are interchangeable in the safety runs. *)
Symmetry == Permutations(Job) \cup Permutations(Worker) \cup Permutations(Client)
=============================================================================
