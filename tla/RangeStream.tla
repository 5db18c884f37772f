---------------------------- MODULE RangeStream ----------------------------
(***************************************************************************)
(* One source file read from the Baidu CDN as parallel ranges and yielded  *)
(* in order: services/streams.py.                                          *)
(*                                                                         *)
(* The code has the algorithm twice.  stream_baidu_file runs the ranges as *)
(* tasks of the event loop and is used for a job of one file;              *)
(* _sync_file_chunks runs them on a thread pool, inside the ZIP generator  *)
(* that a worker thread advances.  threaded says which of the two a        *)
(* behaviour is: they differ in who can be cancelled, and when.            *)
(*                                                                         *)
(* A byte is its position in the file.  A route is one of source.urls; a   *)
(* chain of redirects is part of the attempt that follows it.  The two     *)
(* early exits, for a file without bytes and one without URLs, are outside *)
(* the constants' assumption: nothing is fetched there.                    *)
(***************************************************************************)
EXTENDS Integers, Sequences, FiniteSets

CONSTANTS Size,          \* source.size_bytes
          RangeSize,     \* the segment_size argument
          ChunkSize,     \* the chunk_size argument
          Concurrency,   \* the concurrency argument
          Retries,       \* the retries argument
          Routes,        \* len(source.urls) after the routes were selected
          Broken,        \* the routes that serve no range of this file
          MaxGlitches    \* bound: attempts that fail on a route that works

ASSUME StreamAssumption ==
    /\ Size \in Nat \ {0} /\ Routes \in Nat \ {0}
    /\ RangeSize \in Nat \ {0} /\ ChunkSize \in Nat \ {0}
    /\ Concurrency \in Nat /\ Retries \in Nat /\ MaxGlitches \in Nat
    /\ Broken \subseteq 0..(Routes - 1)

(* segment_size = max(segment_size, chunk_size) *)
SegmentSize == IF RangeSize >= ChunkSize THEN RangeSize ELSE ChunkSize

SegmentCount == (Size + SegmentSize - 1) \div SegmentSize

Segments == 0..(SegmentCount - 1)

(* concurrency = max(1, min(concurrency, count)) *)
Width == IF Concurrency > SegmentCount THEN SegmentCount
         ELSE IF Concurrency = 0 THEN 1 ELSE Concurrency

SegmentStart(i) == i * SegmentSize

SegmentEnd(i) == IF SegmentStart(i) + SegmentSize <= Size
                 THEN SegmentStart(i) + SegmentSize - 1
                 ELSE Size - 1

ExpectedSize(i) == SegmentEnd(i) - SegmentStart(i) + 1

(* What a route may send back: the range its headers announce (the whole   *)
(* file for a 200) and the number of bytes of it that follow.              *)
Responses ==
    LET Sent == 0..(SegmentSize + 1)
    IN  [status : {200}, first : {0}, last : {Size - 1}, bytes : Sent]
        \cup [status : {206}, first : 0..(Size - 1), last : 0..(Size - 1), bytes : Sent]

(* The body is taken without looking at the announced range. *)
mutant_Accepted(i, r) == r.bytes = ExpectedSize(i)

(* _validate_range_response and the two length checks after it.  A request *)
(* for the whole file carries no Range header and is answered by a 200.    *)
Accepted(i, r) ==
    /\ r.first = SegmentStart(i)
    /\ r.last = SegmentEnd(i)
    /\ r.bytes = ExpectedSize(i)

(* Every attempt asks the first route again. *)
mutant_Route(k) == 0

(* urls[attempt % len(urls)] *)
Route(k) == k % Routes

VARIABLES threaded,     \* TRUE: _sync_file_chunks, FALSE: stream_baidu_file
          pc,           \* where the generator stands
          outcome,      \* how it will end, or ended
          fetch,        \* the task or future of each segment
          attempt,      \* the loop variable of each download
          got,          \* what each finished download holds
          next_submit,  \* next segment to start
          next_yield,   \* segment waited for, or being yielded
          offset,       \* bytes already yielded of it
          delivered,    \* the positions the consumer received
          glitches      \* failures of working routes so far

vars == <<threaded, pc, outcome, fetch, attempt, got, next_submit, next_yield, offset,
          delivered, glitches>>

generator == <<next_submit, next_yield, offset, delivered>>
downloads == <<attempt, got, glitches>>

Nothing == [first |-> 0, bytes |-> 0]

Init == /\ threaded \in BOOLEAN
        /\ pc = "routes"
        /\ outcome = "open"
        /\ fetch = [i \in Segments |-> "none"]
        /\ attempt = [i \in Segments |-> 0]
        /\ got = [i \in Segments |-> Nothing]
        /\ next_submit = 0 /\ next_yield = 0 /\ offset = 0
        /\ delivered = << >>
        /\ glitches = 0

---------------------------------------------------------------------------
(* The downloads.                                                          *)

Unfinished == {i \in Segments : fetch[i] \in {"queued", "running", "cancelling"}}

(* The loop or a pool thread takes the download up. *)
StartFetch(i) ==
    /\ fetch[i] = "queued"
    /\ fetch' = [fetch EXCEPT ![i] = "running"]
    /\ UNCHANGED <<pc, outcome, generator, downloads>>

FetchSucceeds(i) ==
    /\ fetch[i] = "running"
    /\ Route(attempt[i]) \notin Broken
    /\ \E r \in Responses :
          /\ Accepted(i, r)
          /\ got' = [got EXCEPT ![i] = [first |-> r.first, bytes |-> r.bytes]]
    /\ fetch' = [fetch EXCEPT ![i] = "done"]
    /\ UNCHANGED <<pc, outcome, attempt, glitches, generator>>

(* One attempt too many. *)
mutant_MayRetry(i) == attempt[i] <= Retries

(* attempt < retries, the attempts being range(retries + 1) *)
MayRetry(i) == attempt[i] < Retries

(* The attempt raised: a transport error, an error status, or a response   *)
(* that is not accepted.  The pause before the next attempt is not         *)
(* distinguished from the attempt it precedes.                             *)
AttemptFails(i) ==
    /\ fetch[i] = "running"
    /\ \/ Route(attempt[i]) \in Broken /\ UNCHANGED glitches
       \/ /\ Route(attempt[i]) \notin Broken
          /\ glitches < MaxGlitches
          /\ glitches' = glitches + 1
    /\ \/ /\ MayRetry(i)
          /\ attempt' = [attempt EXCEPT ![i] = @ + 1]
          /\ UNCHANGED fetch
       \/ /\ ~MayRetry(i)
          /\ fetch' = [fetch EXCEPT ![i] = "failed"]
          /\ UNCHANGED attempt
    /\ UNCHANGED <<pc, outcome, got, generator>>

(* CancelledError reaches the task: neither except clause catches it. *)
FetchCancelled(i) ==
    /\ fetch[i] = "cancelling"
    /\ fetch' = [fetch EXCEPT ![i] = "cancelled"]
    /\ UNCHANGED <<pc, outcome, generator, downloads>>

---------------------------------------------------------------------------
(* The generator.                                                          *)

(* What cancelling segment i makes of it.  A pool thread that runs cannot  *)
(* be cancelled, a task that runs is told at its next resumption.          *)
Cancel(i) ==
    CASE fetch[i] = "queued" -> "cancelled"
      [] fetch[i] = "running" /\ ~threaded -> "cancelling"
      [] OTHER -> fetch[i]

(* The routes are ordered and the first Width downloads submitted. *)
Open ==
    /\ pc = "routes"
    /\ fetch' = [i \in Segments |-> IF i < Width THEN "queued" ELSE "none"]
    /\ next_submit' = Width
    /\ pc' = "waiting"
    /\ UNCHANGED <<outcome, next_yield, offset, delivered, downloads>>

(* The segment is taken without waiting for it. *)
mutant_Arrived == fetch[next_yield] # "failed"

Arrived == fetch[next_yield] = "done"

(* The last segment is forgotten. *)
mutant_MoreToSubmit == next_submit < SegmentCount - 1

MoreToSubmit == next_submit < SegmentCount

(* The segment waited for is there: the next one is submitted before the   *)
(* first chunk of this one is yielded.                                     *)
Take ==
    /\ pc = "waiting"
    /\ Arrived
    /\ \/ /\ MoreToSubmit
          /\ fetch' = [fetch EXCEPT ![next_submit] = "queued"]
          /\ next_submit' = next_submit + 1
       \/ /\ ~MoreToSubmit
          /\ UNCHANGED <<fetch, next_submit>>
    /\ offset' = 0
    /\ pc' = "yielding"
    /\ UNCHANGED <<outcome, next_yield, delivered, downloads>>

(* The tasks dictionary: the awaited or yielded segment was popped. *)
Tasks == (next_yield + 1)..(next_submit - 1)

(* The finally clause cancels what is left. *)
Close(how) ==
    /\ fetch' = [i \in Segments |-> IF i \in Tasks THEN Cancel(i) ELSE fetch[i]]
    /\ outcome' = how
    /\ pc' = "closing"
    /\ UNCHANGED <<generator, downloads>>

(* The segment waited for failed for good: its error is raised. *)
TakeRaises ==
    /\ pc = "waiting"
    /\ fetch[next_yield] = "failed"
    /\ Close("failed")

(* data[offset : offset + chunk_size] *)
ChunkBytes ==
    LET left == got[next_yield].bytes - offset
    IN  IF left < ChunkSize THEN left ELSE ChunkSize

(* The consumer asks for the next chunk of the segment. *)
Yield ==
    /\ pc = "yielding"
    /\ offset < got[next_yield].bytes
    /\ delivered' = delivered \o [k \in 1..ChunkBytes |->
                                     got[next_yield].first + offset + k - 1]
    /\ offset' = offset + ChunkBytes
    /\ UNCHANGED <<pc, outcome, fetch, next_submit, next_yield, downloads>>

(* It asks again after the last chunk. *)
Advance ==
    /\ pc = "yielding"
    /\ offset >= got[next_yield].bytes
    /\ next_yield + 1 < SegmentCount
    /\ next_yield' = next_yield + 1
    /\ pc' = "waiting"
    /\ UNCHANGED <<outcome, fetch, next_submit, offset, delivered, downloads>>

Finish ==
    /\ pc = "yielding"
    /\ offset >= got[next_yield].bytes
    /\ next_yield + 1 >= SegmentCount
    /\ Close("complete")

(* The consumer gives up: the generator is closed at its yield, or the     *)
(* task that runs it is cancelled while the routes are probed.  A worker   *)
(* thread goes on to its next yield first.                                 *)
Abandon ==
    \/ pc = "yielding" /\ Close("closed")
    \/ /\ pc = "routes" /\ ~threaded
       /\ pc' = "end" /\ outcome' = "closed"
       /\ UNCHANGED <<fetch, generator, downloads>>

(* The task that runs it is cancelled at the await of a segment: the       *)
(* cancellation goes to the awaited task first ...                         *)
Interrupt ==
    /\ pc = "waiting" /\ ~threaded
    /\ fetch' = [fetch EXCEPT ![next_yield] = Cancel(next_yield)]
    /\ pc' = "unwinding"
    /\ UNCHANGED <<outcome, generator, downloads>>

(* ... and to the generator when that has ended. *)
Unwind ==
    /\ pc = "unwinding"
    /\ next_yield \notin Unfinished
    /\ Close("closed")

(* The exit does not wait. *)
mutant_Closed ==
    /\ pc = "closing"
    /\ pc' = "end"
    /\ UNCHANGED <<outcome, fetch, generator, downloads>>

(* gather, or the exit of the executor, waited for the rest. *)
Closed ==
    /\ pc = "closing"
    /\ Unfinished = {}
    /\ pc' = "end"
    /\ UNCHANGED <<outcome, fetch, generator, downloads>>

FetchStep(i) ==
    /\ UNCHANGED threaded
    /\ \/ StartFetch(i) \/ FetchSucceeds(i)
       \/ AttemptFails(i) \/ FetchCancelled(i)

GeneratorStep ==
    /\ UNCHANGED threaded
    /\ \/ Open \/ Take \/ TakeRaises \/ Yield \/ Advance \/ Finish
       \/ Unwind \/ Closed

ConsumerStep == UNCHANGED threaded /\ (Abandon \/ Interrupt)

Next == \/ \E i \in Segments : FetchStep(i)
        \/ GeneratorStep
        \/ ConsumerStep

Spec == Init /\ [][Next]_vars
=============================================================================
