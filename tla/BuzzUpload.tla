----------------------------- MODULE BuzzUpload -----------------------------
(***************************************************************************)
(* The multipart upload of one job to Buzzheavier:                         *)
(* BuzzMultipartClient.upload of services/buzzheavier.py.                  *)
(*                                                                         *)
(* The source is the ordered stream of OrderedStream: what it hands over   *)
(* are the next positions of the file, and it may fail.  The upload cuts   *)
(* it into parts, keeps a few PATCH requests in flight, each a task with   *)
(* its own retries, and completes the upload when every part is confirmed. *)
(*                                                                         *)
(* progress_lock is not a variable: the code under it reads and writes     *)
(* part_progress and confirmed in one piece, so report_part and            *)
(* confirm_part are steps.  The pause between two reports is a choice.     *)
(***************************************************************************)
EXTENDS Naturals, Sequences, FiniteSets, Functions

CONSTANTS Total,        \* bytes of the source stream
          MaxChunk,     \* bound: bytes the stream yields, or a request sends, at once
          PartSize,     \* self.part_size
          Concurrency,  \* self.concurrency
          Retries,      \* self.retries
          MaxFaults     \* bound: failed requests

ASSUME UploadAssumption ==
    /\ Total \in Nat /\ Retries \in Nat /\ MaxFaults \in Nat
    /\ MaxChunk \in Nat \ {0} /\ PartSize \in Nat \ {0} /\ Concurrency \in Nat \ {0}

(* Part numbers begin with 1. *)
Parts == 1..((Total + PartSize - 1) \div PartSize)

VARIABLES pc,             \* the await of upload that is about to finish
          outcome,        \* how it will end, or ended
          read,           \* bytes the stream has yielded
          buffer,         \* the bytearray of _parts
          content,        \* the positions in each part that was cut
          cut,            \* number of parts cut: part_number - 1, or that part's number
          task,           \* the task of each part
          attempt, sent,  \* its attempt, and the bytes of this attempt sent so far
          inflight,       \* the tasks upload waits for
          completed,      \* those that ended and have still to be confirmed
          partProgress, confirmed,
          reported,       \* transferred_bytes of the job
          cancelRequested,
          stored,         \* the parts Buzzheavier has
          published,      \* Buzzheavier was told that the upload is complete
          faults

source == <<read, buffer, content, cut>>
requests == <<task, attempt, sent, stored, faults>>
progress == <<partProgress, confirmed, reported>>
vars == <<pc, outcome, source, requests, inflight, completed, progress,
          cancelRequested, published>>

Init == /\ pc = "create" /\ outcome = "open"
        /\ read = 0 /\ buffer = << >> /\ cut = 0
        /\ content = [k \in Parts |-> << >>]
        /\ task = [k \in Parts |-> "none"]
        /\ attempt = [k \in Parts |-> 0] /\ sent = [k \in Parts |-> 0]
        /\ inflight = {} /\ completed = {}
        /\ partProgress = [k \in Parts |-> 0] /\ confirmed = 0 /\ reported = 0
        /\ cancelRequested = FALSE
        /\ stored = [k \in Parts |-> << >>] /\ published = FALSE
        /\ faults = 0

Goto(label) == pc' = label /\ UNCHANGED outcome

(* The exception leaves the try block: its finally clause cancels what is  *)
(* in flight.                                                              *)
Unwind(how) ==
    /\ pc' = "unwind" /\ outcome' = how
    /\ task' = [k \in Parts |-> IF k \in inflight /\ task[k] = "running"
                                THEN "cancelling" ELSE task[k]]
    /\ UNCHANGED <<attempt, sent, stored, faults>>

End(how) == pc' = "end" /\ outcome' = how

Fault == faults < MaxFaults /\ faults' = faults + 1

---------------------------------------------------------------------------
(* _upload_part and _stream_part: one PATCH request and its retries.       *)

(* A late report of an earlier attempt does not take progress back. *)
mutant_Furthest(k) == sent'[k]
Furthest(k) == IF sent'[k] > partProgress[k] THEN sent'[k] ELSE partProgress[k]

(* Some bytes were sent; report_part counts them and may report the sum. *)
SendBytes(k) ==
    /\ task[k] = "running" /\ sent[k] < Len(content[k])
    /\ \E n \in 1..MaxChunk :
          /\ sent[k] + n <= Len(content[k])
          /\ sent' = [sent EXCEPT ![k] = @ + n]
    /\ partProgress' = [partProgress EXCEPT ![k] = Furthest(k)]
    /\ reported' \in {reported, confirmed + SumFunction(partProgress')}
    /\ UNCHANGED <<pc, outcome, source, task, attempt, stored, faults, inflight,
                   completed, confirmed, cancelRequested, published>>

Store(k) == stored' = [stored EXCEPT ![k] = content[k]]

PartSucceeds(k) ==
    /\ task[k] = "running" /\ sent[k] = Len(content[k])
    /\ Store(k)
    /\ task' = [task EXCEPT ![k] = "done"]
    /\ UNCHANGED <<pc, outcome, source, attempt, sent, faults, inflight, completed,
                   progress, cancelRequested, published>>

(* The request fails, or only its answer is lost. *)
PartFails(k) ==
    /\ task[k] = "running" /\ Fault
    /\ \/ UNCHANGED stored
       \/ sent[k] = Len(content[k]) /\ Store(k)
    /\ \/ /\ attempt[k] < Retries
          /\ attempt' = [attempt EXCEPT ![k] = @ + 1]
          /\ sent' = [sent EXCEPT ![k] = 0]
          /\ UNCHANGED task
       \/ /\ attempt[k] >= Retries
          /\ task' = [task EXCEPT ![k] = "failed"]
          /\ UNCHANGED <<attempt, sent>>
    /\ UNCHANGED <<pc, outcome, source, inflight, completed, progress,
                   cancelRequested, published>>

(* A cancelled request may have been received. *)
PartCancelled(k) ==
    /\ task[k] = "cancelling"
    /\ task' = [task EXCEPT ![k] = "cancelled"]
    /\ \/ UNCHANGED stored
       \/ sent[k] = Len(content[k]) /\ Store(k)
    /\ UNCHANGED <<pc, outcome, source, attempt, sent, faults, inflight, completed,
                   progress, cancelRequested, published>>

PartStep(k) == SendBytes(k) \/ PartSucceeds(k) \/ PartFails(k) \/ PartCancelled(k)

---------------------------------------------------------------------------
(* upload and _parts.                                                      *)

Create ==
    /\ pc = "create"
    /\ \/ Goto("read") /\ UNCHANGED faults
       \/ End("failed") /\ Fault
    /\ UNCHANGED <<source, task, attempt, sent, stored, inflight, completed,
                   progress, cancelRequested, published>>

(* The next chunk of the stream. *)
ReadChunk ==
    /\ pc = "read"
    /\ \E n \in 1..MaxChunk :
          /\ read + n <= Total
          /\ read' = read + n
          /\ buffer' = buffer \o [i \in 1..n |-> read + i - 1]
    /\ Goto("cut")
    /\ UNCHANGED <<content, cut, requests, inflight, completed, progress,
                   cancelRequested, published>>

SourceFails ==
    /\ pc = "read" /\ read < Total
    /\ Unwind("failed")
    /\ UNCHANGED <<source, inflight, completed, progress, cancelRequested, published>>

(* The first n bytes of the buffer become the next part. *)
CutPart(n) ==
    /\ cut' = cut + 1
    /\ content' = [content EXCEPT ![cut + 1] = SubSeq(buffer, 1, n)]
    /\ buffer' = SubSeq(buffer, n + 1, Len(buffer))
    /\ UNCHANGED read

(* _parts yields a full part, or asks the stream again; the end of the     *)
(* stream makes a last part of what is left.                               *)
NextPart ==
    /\ \/ /\ pc = "cut" /\ Len(buffer) >= PartSize
          /\ CutPart(PartSize) /\ Goto("poll")
       \/ /\ pc = "cut" /\ Len(buffer) < PartSize
          /\ Goto("read") /\ UNCHANGED source
       \/ /\ pc = "read" /\ read = Total /\ buffer # << >>
          /\ CutPart(Len(buffer)) /\ Goto("poll")
       \/ /\ pc = "read" /\ read = Total /\ buffer = << >>
          /\ Goto("drain") /\ UNCHANGED source
    /\ UNCHANGED <<requests, inflight, completed, progress, cancelRequested, published>>

(* is_cancelled, once for each part. *)
Poll ==
    /\ pc = "poll"
    /\ \/ cancelRequested /\ Unwind("cancelled")
       \/ ~cancelRequested /\ Goto("slot") /\ UNCHANGED requests
    /\ UNCHANGED <<source, inflight, completed, progress, cancelRequested, published>>

mutant_SlotFree == Cardinality(inflight) <= Concurrency
SlotFree == Cardinality(inflight) < Concurrency

mutant_Ended == {k \in inflight : task[k] = "done"}
Ended == {k \in inflight : task[k] \in {"done", "failed"}}

(* A task for the part; with the stream at its end, "cut" finds that out. *)
Submit ==
    /\ pc = "slot" /\ SlotFree
    /\ task' = [task EXCEPT ![cut] = "running"]
    /\ inflight' = inflight \cup {cut}
    /\ Goto("cut")
    /\ UNCHANGED <<source, attempt, sent, stored, faults, completed, progress,
                   cancelRequested, published>>

(* asyncio.wait(inflight, FIRST_COMPLETED). *)
WaitForOne ==
    /\ pc = "slot" /\ ~SlotFree /\ Ended # {}
    /\ completed' = Ended /\ inflight' = inflight \ Ended
    /\ Goto("confirm")
    /\ UNCHANGED <<source, requests, progress, cancelRequested, published>>

(* gather over inflight: all results, or the first exception. *)
mutant_AllDone == inflight = {} \/ Ended # {}
AllDone == \A k \in inflight : task[k] = "done"

Drain ==
    /\ pc = "drain"
    /\ \/ AllDone /\ completed' = inflight /\ Goto("confirm") /\ UNCHANGED requests
       \/ /\ \E k \in inflight : task[k] = "failed"
          /\ Unwind("failed") /\ UNCHANGED completed
    /\ UNCHANGED <<source, inflight, progress, cancelRequested, published>>

mutant_Popped(k) == partProgress
Popped(k) == [partProgress EXCEPT ![k] = 0]

(* task.result(), then confirm_part, for each task that has ended. *)
Confirm ==
    /\ pc = "confirm"
    /\ \E k \in completed :
          \/ /\ task[k] = "failed" /\ Unwind("failed")
             /\ UNCHANGED <<completed, progress>>
          \/ /\ task[k] # "failed"
             /\ completed' = completed \ {k}
             /\ partProgress' = Popped(k)
             /\ confirmed' = confirmed + Len(content[k])
             /\ reported' = confirmed' + SumFunction(partProgress')
             /\ UNCHANGED <<pc, outcome, requests>>
    /\ UNCHANGED <<source, inflight, cancelRequested, published>>

(* A part is cut and not yet submitted. *)
InHand == cut > 0 /\ task[cut] = "none"

(* All are confirmed: back to the part in hand, or out of the try block.   *)
Confirmed ==
    /\ pc = "confirm" /\ completed = {}
    /\ \/ InHand /\ Goto("slot") /\ UNCHANGED inflight
       \/ ~InHand /\ inflight' = {} /\ Goto("last_poll")
    /\ UNCHANGED <<source, requests, completed, progress, cancelRequested, published>>

LastPoll ==
    /\ pc = "last_poll"
    /\ \/ cancelRequested /\ End("cancelled")
       \/ ~cancelRequested /\ Goto("complete")
    /\ UNCHANGED <<source, requests, inflight, completed, progress, cancelRequested, published>>

(* complete_upload; its answer may be lost. *)
Complete ==
    /\ pc = "complete"
    /\ \/ published' = TRUE /\ End("uploaded") /\ UNCHANGED faults
       \/ published' \in BOOLEAN /\ End("failed") /\ Fault
    /\ UNCHANGED <<source, task, attempt, sent, stored, inflight, completed,
                   progress, cancelRequested>>

(* The finally clause waits for the tasks it cancelled. *)
mutant_Quiet == TRUE
Quiet == \A k \in inflight : task[k] \notin {"running", "cancelling"}

Unwound ==
    /\ pc = "unwind" /\ Quiet
    /\ pc' = "end" /\ inflight' = {}
    /\ UNCHANGED <<outcome, source, requests, completed, progress,
                   cancelRequested, published>>

UploadStep == \/ Create \/ ReadChunk \/ SourceFails \/ NextPart \/ Poll \/ Submit
              \/ WaitForOne \/ Drain \/ Confirm \/ Confirmed \/ LastPoll
              \/ Complete \/ Unwound

---------------------------------------------------------------------------
(* JobService.cancel commits its request, then cancels the task.           *)

RequestCancel ==
    /\ ~cancelRequested /\ cancelRequested' = TRUE
    /\ UNCHANGED <<pc, outcome, source, requests, inflight, completed, progress, published>>

(* The task is cancelled at its await.  A gather hands the cancellation to *)
(* the tasks it waits for, a lost POST may have been received.             *)
CancelTask ==
    /\ pc \in {"create", "read", "poll", "slot", "drain", "confirm", "last_poll", "complete"}
    /\ IF pc \in {"create", "last_poll", "complete"}
       THEN End("cancelled") /\ UNCHANGED requests
       ELSE Unwind("cancelled")
    /\ published' \in IF pc = "complete" THEN BOOLEAN ELSE {published}
    /\ UNCHANGED <<source, inflight, completed, progress, cancelRequested>>

Next == \/ \E k \in Parts : PartStep(k)
        \/ UploadStep
        \/ RequestCancel
        \/ CancelTask

Spec == Init /\ [][Next]_vars
=============================================================================
