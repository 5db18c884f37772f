-------------------------- MODULE UploadProperties --------------------------
(***************************************************************************)
(* What an upload to Buzzheavier promises to the job that started it.      *)
(***************************************************************************)
EXTENDS BuzzUpload

(* The types of the variables; neither the bytes confirmed nor the         *)
(* progress reported ever exceed those of the stream.                      *)
TypeOK ==
    /\ pc \in {"create", "read", "cut", "poll", "slot", "confirm", "drain",
               "last_poll", "complete", "unwind", "end"}
    /\ outcome \in {"open", "uploaded", "failed", "cancelled"}
    /\ read \in 0..Total /\ buffer \in Seq(Nat)
    /\ content \in [Parts -> Seq(Nat)] /\ stored \in [Parts -> Seq(Nat)]
    /\ cut \in 0..Cardinality(Parts)
    /\ task \in [Parts -> {"none", "running", "done", "failed", "cancelling", "cancelled"}]
    /\ attempt \in [Parts -> 0..Retries] /\ sent \in [Parts -> Nat]
    /\ inflight \subseteq Parts /\ completed \subseteq Parts
    /\ partProgress \in [Parts -> Nat]
    /\ confirmed \in 0..Total /\ reported \in 0..Total
    /\ cancelRequested \in BOOLEAN /\ published \in BOOLEAN
    /\ faults \in 0..MaxFaults

(* The positions of part k, when the file is cut at the multiples of       *)
(* part_size.                                                              *)
Slice(k) ==
    LET first == (k - 1) * PartSize
    IN  [i \in 1..(IF first + PartSize <= Total THEN PartSize ELSE Total - first)
            |-> first + i - 1]

(***************************************************************************)
(* Buzzheavier is told that an upload is complete only when it has every   *)
(* byte of the stream, each in the part it belongs to, whatever requests   *)
(* failed, were repeated or lost their answer (buzzheavier.py 101-141).    *)
(***************************************************************************)
PublishedWhole == published => \A k \in Parts : stored[k] = Slice(k)

(***************************************************************************)
(* The upload never has more requests in flight than part_concurrency, so  *)
(* with the part in hand and the buffer of _parts it keeps a bounded part  *)
(* of the file in memory (buzzheavier.py 105-127, 203-213).                *)
(***************************************************************************)
MemoryBound ==
    /\ Cardinality({k \in Parts : task[k] \in {"running", "cancelling"}}) <= Concurrency
    /\ Len(buffer) < PartSize + MaxChunk

(***************************************************************************)
(* When upload returns or raises, none of its requests goes on: the        *)
(* session belongs to nobody any more (buzzheavier.py 133-137).            *)
(***************************************************************************)
NothingLeftSending ==
    pc = "end" => \A k \in Parts : task[k] \notin {"running", "cancelling"}

(***************************************************************************)
(* The progress of a job never goes back, although parts report out of     *)
(* order, are sent again, and move from part_progress to confirmed         *)
(* (buzzheavier.py 83-99; test_buzzheavier.py 113 asserts it of one run).  *)
(***************************************************************************)
ProgressMonotone == [][reported' >= reported]_vars

(***************************************************************************)
(* Requests have timeouts and their attempts are counted; the stream       *)
(* yields or fails (Ends of StreamProperties).                             *)
(***************************************************************************)
FairSpec == /\ Spec
            /\ WF_vars(UploadStep)
            /\ \A k \in Parts : WF_vars(PartStep(k))

(* An upload ends: it does not wait for a task that it no longer has, nor  *)
(* for a slot that never comes free (buzzheavier.py 105-111, 129-137).     *)
UploadEnds == <>(pc = "end")
=============================================================================
