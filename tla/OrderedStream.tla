--------------------------- MODULE OrderedStream ---------------------------
(***************************************************************************)
(* What the transfer needs of a download: the consumer sees the bytes of   *)
(* one source file, each once, from the first to the last.  It learns that *)
(* the file is complete only after the last byte; a download that fails or *)
(* is abandoned may stop after any byte.                                   *)
(***************************************************************************)
EXTENDS Integers, Sequences

CONSTANT Size       \* bytes of the source file

VARIABLES content,  \* the positions passed on so far, in order
          result    \* "open", then how the stream ended

Init == /\ content = << >>
        /\ result = "open"

(* The consumer is handed the next n bytes. *)
Emit(n) == /\ result = "open"
           /\ content' = content \o [k \in 1..n |-> Len(content) + k - 1]
           /\ UNCHANGED result

Complete == /\ result = "open"
            /\ Len(content) = Size
            /\ result' = "complete"
            /\ UNCHANGED content

Break == /\ result = "open"
         /\ result' \in {"failed", "closed"}
         /\ UNCHANGED content

Next == \/ \E n \in 1..(Size - Len(content)) : Emit(n)
        \/ Complete
        \/ Break

Spec == Init /\ [][Next]_<<content, result>>
=============================================================================
