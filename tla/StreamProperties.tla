-------------------------- MODULE StreamProperties --------------------------
(***************************************************************************)
(* What a download of one file promises, whichever of the two generators   *)
(* runs it.                                                                *)
(***************************************************************************)
EXTENDS RangeStream

(* The types of the variables of both generators; the segments submitted   *)
(* and yielded stay within the file, the attempts within retries + 1.      *)
TypeOK ==
    /\ threaded \in BOOLEAN
    /\ pc \in {"routes", "waiting", "yielding", "unwinding", "closing", "end"}
    /\ outcome \in {"open", "complete", "failed", "closed"}
    /\ fetch \in [Segments -> {"none", "queued", "running", "done", "failed",
                               "cancelling", "cancelled"}]
    /\ attempt \in [Segments -> 0..Retries]
    /\ got \in [Segments -> [first : Nat, bytes : Nat]]
    /\ next_submit \in 0..SegmentCount
    /\ next_yield \in Segments
    /\ offset \in Nat
    /\ delivered \in Seq(Nat)
    /\ glitches \in 0..MaxGlitches

(***************************************************************************)
(* At most Width requests to the CDN are open at a time, and the download  *)
(* is never further ahead of the segment it yields than that: the submits  *)
(* before the loop and in it (streams.py 403-430, 543-569) keep a window.  *)
(***************************************************************************)
Window ==
    /\ Cardinality(Unfinished) <= Width
    /\ \A i \in Segments : fetch[i] # "none" => i <= next_yield + Width

(***************************************************************************)
(* When the generator has ended, whether it finished, failed or was given  *)
(* up, no range is still downloaded for it, and its HTTP client can be     *)
(* closed (streams.py 433-437, 542, 572-574).                              *)
(***************************************************************************)
NothingLeftRunning == pc = "end" => Unfinished = {}

(***************************************************************************)
(* A route that does not serve the file costs attempts, never the file:    *)
(* with enough retries to reach another route (streams.py 313, 453) the    *)
(* download cannot fail unless a working route fails too.                  *)
(***************************************************************************)
Failover ==
    (Broken # 0..(Routes - 1) /\ Retries + 1 >= Routes /\ outcome = "failed")
        => glitches > 0

(* The consumer's view of a download: how it ended shows only at the end.  *)
Ordered == INSTANCE OrderedStream
             WITH content <- delivered,
                  result <- IF pc = "end" THEN outcome ELSE "open"

(***************************************************************************)
(* The consumer gets the file's bytes in order, each once, and the end of  *)
(* the file only after all of them, however the downloads interleave       *)
(* (streams.py 416-432, 556-571).                                          *)
(***************************************************************************)
InOrder == Ordered!Spec

(***************************************************************************)
(* Every step of a download ends: requests have timeouts and attempts are  *)
(* counted.  The consumer asks for the next chunk or gives up.             *)
(***************************************************************************)
Fairness == /\ \A i \in Segments : WF_vars(FetchStep(i))
            /\ WF_vars(GeneratorStep)

FairSpec == Spec /\ Fairness

(* Every download ends, also one that is given up while ranges are open:   *)
(* neither the wait for a segment nor the one in the finally clause        *)
(* (streams.py 433-437) can last for ever.                                 *)
Ends == <>(pc = "end")
=============================================================================
