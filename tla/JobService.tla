----------------------------- MODULE JobService -----------------------------
(***************************************************************************)
(* The job service of baidu-buzz-proxy: services/jobs.py.  HTTP handlers   *)
(* (Client), the worker loops with the action task each of them awaits     *)
(* (Worker) and the hourly expiration loop (Reaper) share one SQLite row   *)
(* per job, an in-memory queue, the registry active_jobs, a mutation lock  *)
(* and the temporary folder of the job at Baidu.                           *)
(*                                                                         *)
(* A label pc[a] names the await the coroutine a is about to finish.  A    *)
(* step performs the effect of that await and everything up to the next    *)
(* one.  A SELECT and a later COMMIT are different awaits, so the code's   *)
(* read-then-write sequences are two steps.  Awaits that only read are     *)
(* merged with their successor.  The effect of an await and the return     *)
(* from it are one step: a call whose answer a cancellation loses is the   *)
(* interleaving in which the call ends first, except where the code goes   *)
(* on after the cancellation (the removal), which has both outcomes, and   *)
(* for the mkdir of an import, which Baidu may execute later (`late`).     *)
(*                                                                         *)
(* Left out: status messages, item lists, quotas in bytes, result URLs.    *)
(***************************************************************************)
EXTENDS Naturals, Sequences, FiniteSets

CONSTANTS
    Job,         \* the jobs that may be created, one public_id each
    Worker,      \* one per settings.max_active_jobs
    Client,      \* concurrent HTTP requests
    Reaper,      \* the expiration task
    NoJob, NoOne,
    MaxPending,  \* settings.max_pending_jobs
    Allowed      \* the events of the environment that a run lets happen

Event == {"crash", "stop", "double_submit", "late_expiry",
          "call_fault", "metadata_fault", "remove_fault", "purge_fault"}

Coroutine == Worker \cup {Reaper}
Actor == Coroutine \cup Client

ASSUME JobAssumption == IsFiniteSet(Job) /\ NoJob \notin Job
ASSUME ActorAssumption ==
    /\ Worker \cap Client = {} /\ Reaper \notin Worker \cup Client
    /\ NoOne \notin Actor
ASSUME BoundAssumption == MaxPending \in Nat \ {0} /\ Allowed \subseteq Event

VARIABLES
    row,          \* the jobs table
    folder,       \* /ProxyJobs/<public_id> at Baidu
    late,         \* a mkdir of it that was given up: "pending", "executed", or "no"
    mode,         \* the process: serving, in JobService.stop, or not running
    queue,        \* JobService.queue
    activeJobs,   \* JobService.active_jobs: the worker whose task is registered
    lock,         \* the holder of _baidu_mutation_lock
    orphanLock,   \* the Redis key of a holder that died with its process
    pc, job,      \* the await each coroutine is at, and the job it serves
    after,        \* where _cleanup_remote returns to
    thrown,       \* a CancelledError is on its way into the coroutine
    raised,       \* what baidu.remove raised
    sawAwaiting,  \* cancel's needs_queued_cleanup, of each client
    expiredIds, deletable   \* the expiration loop's public_ids, deletable_ids

baidu == <<row, folder>>
process == <<mode, orphanLock, late>>
calls == <<queue, sawAwaiting>>
sweep == <<expiredIds, deletable>>
vars == <<row, folder, late, mode, queue, activeJobs, lock, orphanLock, pc, job,
          after, thrown, raised, sawAwaiting, expiredIds, deletable>>

-----------------------------------------------------------------------------
(* Job states and labels *)

TERMINAL_JOB_STATES == {"completed", "failed", "cancelled"}
ActiveStates ==
    {"queued_import", "importing", "queued_transfer", "transferring", "cleaning"}
JobState == ActiveStates \cup {"awaiting_selection"} \cup TERMINAL_JOB_STATES
NoRow == {"absent", "deleted"}

Row == [state : JobState \cup NoRow, cancelRequested : BOOLEAN,
        cleanupCompleted : BOOLEAN, tempFsId : BOOLEAN,
        expiry : {"page", "failed", "past"}]
BlankRow(s) == [state |-> s, cancelRequested |-> FALSE,
                cleanupCompleted |-> FALSE, tempFsId |-> FALSE, expiry |-> "page"]

InLock == {"i_check", "i_drop", "i_mkdir", "i_share", "c_remove", "c_purge"}
Cleanup == {"c_get", "c_meta", "c_lock", "c_remove", "c_purge", "c_mark"}
Import == {"i_get", "i_state", "i_lock", "i_check", "i_drop", "i_quit",
           "i_mkdir", "i_share", "i_check2", "i_scan", "i_store"}
Transfer == {"t_get", "t_state", "t_locate", "t_upload", "x_cancel",
             "t_cleaning", "t_store"}
Handler == {"h_fail", "h_cancel"}
WorkerLabel == {"off", "w_get", "end"} \cup Import \cup Transfer \cup Handler \cup Cleanup
ReaperLabel == {"off", "r_sleep", "r_next"} \cup Cleanup
ClientLabel == {"idle", "insert", "put_import", "sel_commit", "put_transfer",
                "cancel_commit", "deliver"}
Action == {"import", "transfer", "cleanup"}

Exists(j) == row[j].state \notin NoRow
Goto(a, label) == pc' = [pc EXCEPT ![a] = label]

(* UPDATE ... WHERE public_id = j has no effect on a deleted row. *)
Update(j, r) == row' = IF Exists(j) THEN [row EXCEPT ![j] = r] ELSE row
SetState(j, s) == Update(j, [row[j] EXCEPT !.state = s])

(* The action task of worker a has not ended; otherwise the worker itself  *)
(* runs: its loop, or the handlers around `await action_task`.             *)
InTask(a) == after[a] \in {"end", "t_store"}

mutant_Deregistered(a) == [j \in Job |-> IF j = job[a] THEN NoOne ELSE activeJobs[j]]
(* The finally clause of _worker: drop the entry if it is still its own. *)
Deregistered(a) ==
    [j \in Job |-> IF j = job[a] /\ activeJobs[j] = a THEN NoOne ELSE activeJobs[j]]

-----------------------------------------------------------------------------
(* The mutation lock and exceptions *)

Freed(a) == IF lock = a THEN NoOne ELSE lock

mutant_LockFree == ~orphanLock
LockFree == lock = NoOne /\ ~orphanLock

(* An Exception ends the action: the worker goes to _fail_job. *)
Raise(w) ==
    /\ Goto(w, "h_fail") /\ lock' = Freed(w)
    /\ after' = [after EXCEPT ![w] = "w_get"]

(* A CancelledError ends the action task, or the coroutine itself. *)
Propagate(a) ==
    LET handled == InTask(a) /\ mode = "up"
    IN  /\ Goto(a, IF handled THEN "h_cancel" ELSE "off")
        /\ lock' = Freed(a)
        /\ after' = IF InTask(a) THEN [after EXCEPT ![a] = "w_get"] ELSE after
        /\ activeJobs' = IF handled THEN activeJobs ELSE Deregistered(a)

Proceed(w, label) == Goto(w, label) /\ UNCHANGED <<lock, after>>

(* Nobody waits any more for the mkdir of coroutine a. *)
GivesUp(a) == late' = [j \in Job |-> IF pc[a] = "i_mkdir" /\ j = job[a] THEN "pending" ELSE late[j]]

-----------------------------------------------------------------------------
(* _import_job *)

ImportGet(w) ==
    /\ pc[w] = "i_get" /\ UNCHANGED baidu
    /\ IF Exists(job[w])
       THEN Proceed(w, IF row[job[w]].cancelRequested THEN "i_quit" ELSE "i_state")
       ELSE Raise(w)

SetImporting(w) ==
    /\ pc[w] = "i_state" /\ SetState(job[w], "importing")
    /\ Proceed(w, "i_lock") /\ UNCHANGED folder

AcquireForImport(w) ==
    /\ pc[w] = "i_lock" /\ LockFree
    /\ lock' = w /\ Goto(w, "i_check") /\ UNCHANGED <<after, row, folder>>

(* _is_cancelled: before the import, and again after the lock is released. *)
CheckCancelled(w) ==
    /\ pc[w] \in {"i_check", "i_check2"} /\ UNCHANGED baidu
    /\ CASE ~Exists(job[w]) -> Raise(w)
         [] Exists(job[w]) /\ row[job[w]].cancelRequested ->
                Proceed(w, IF pc[w] = "i_check" THEN "i_drop" ELSE "x_cancel")
         [] Exists(job[w]) /\ ~row[job[w]].cancelRequested ->
                Proceed(w, IF pc[w] = "i_check" THEN "i_mkdir" ELSE "i_scan")

QuitCancelled(w) ==
    /\ pc[w] \in {"i_quit", "i_drop"} /\ SetState(job[w], "cancelled")
    /\ lock' = Freed(w) /\ Goto(w, "end") /\ UNCHANGED <<after, folder>>

Mkdir(w) ==
    /\ pc[w] = "i_mkdir" /\ folder' = [folder EXCEPT ![job[w]] = "live"]
    /\ Proceed(w, "i_share") /\ UNCHANGED row

ImportShare(w) ==
    /\ pc[w] = "i_share" /\ lock' = Freed(w)
    /\ Goto(w, "i_check2") /\ UNCHANGED <<after, row, folder>>

(* list_tree and the second quota check need the folder. *)
ScanTree(w) ==
    /\ pc[w] = "i_scan" /\ UNCHANGED baidu
    /\ IF folder[job[w]] = "live" THEN Proceed(w, "i_store") ELSE Raise(w)

StoreItems(w) ==
    /\ pc[w] = "i_store" /\ UNCHANGED folder
    /\ Update(job[w], [row[job[w]] EXCEPT !.tempFsId = TRUE, !.state = "awaiting_selection"])
    /\ IF Exists(job[w]) THEN Proceed(w, "end") ELSE Raise(w)

-----------------------------------------------------------------------------
(* _transfer_job *)

TransferGet(w) ==
    /\ pc[w] = "t_get" /\ UNCHANGED baidu
    /\ IF Exists(job[w])
       THEN Proceed(w, IF row[job[w]].cancelRequested THEN "x_cancel" ELSE "t_state")
       ELSE Raise(w)

SetTransferring(w) ==
    /\ pc[w] = "t_state" /\ SetState(job[w], "transferring")
    /\ Proceed(w, "t_locate") /\ UNCHANGED folder

Locate(w) ==
    /\ pc[w] = "t_locate" /\ UNCHANGED baidu
    /\ IF folder[job[w]] = "live" THEN Proceed(w, "t_upload") ELSE Raise(w)

(* The upload polls is_cancelled between parts, so it may miss a late one; *)
(* a row or a source that has gone may or may not be noticed.              *)
Upload(w) ==
    /\ pc[w] = "t_upload" /\ UNCHANGED baidu
    /\ \/ Proceed(w, "t_cleaning")
       \/ row[job[w]].cancelRequested /\ Proceed(w, "x_cancel")
       \/ (~Exists(job[w]) \/ folder[job[w]] # "live") /\ Raise(w)

(* _set_cancelled, then _cleanup_remote, inside the action. *)
CancelInside(w) ==
    /\ pc[w] = "x_cancel" /\ SetState(job[w], "cancelled")
    /\ Proceed(w, "c_get") /\ UNCHANGED folder

mutant_CleaningState == "transferring"
mutant_CleaningName == "cleanup"
CleaningState == "cleaning"

SetCleaning(w) ==
    /\ pc[w] = "t_cleaning" /\ SetState(job[w], CleaningState)
    /\ Goto(w, "c_get") /\ after' = [after EXCEPT ![w] = "t_store"]
    /\ UNCHANGED <<lock, folder>>

StoreResult(w) ==
    /\ pc[w] = "t_store" /\ UNCHANGED folder
    /\ Update(job[w], [row[job[w]] EXCEPT !.state = "completed", !.expiry = "page"])
    /\ IF Exists(job[w]) THEN Proceed(w, "end") ELSE Raise(w)

(* The handlers of _worker: _fail_job or _set_cancelled, then cleanup. *)
Handle(w) ==
    /\ pc[w] \in Handler /\ Proceed(w, "c_get") /\ UNCHANGED folder
    /\ IF pc[w] = "h_fail"
       THEN Update(job[w], [row[job[w]] EXCEPT !.state = "failed", !.expiry = "failed"])
       ELSE SetState(job[w], "cancelled")

ActionStep(w) ==
    /\ ~thrown[w]
    /\ UNCHANGED <<process, calls, sweep, activeJobs, job, thrown, raised>>
    /\ \/ ImportGet(w) \/ SetImporting(w) \/ AcquireForImport(w) \/ CheckCancelled(w)
       \/ QuitCancelled(w) \/ Mkdir(w) \/ ImportShare(w) \/ ScanTree(w) \/ StoreItems(w)
       \/ TransferGet(w) \/ SetTransferring(w) \/ Locate(w) \/ Upload(w)
       \/ CancelInside(w) \/ SetCleaning(w) \/ StoreResult(w) \/ Handle(w)

(* A call to Baidu or Buzzheavier fails, or a quota check refuses, or the  *)
(* lock of Redis cannot be had or, after _set_cancelled, given back.       *)
CallFails(w) ==
    /\ "call_fault" \in Allowed /\ ~thrown[w]
    /\ pc[w] \in {"i_lock", "i_drop", "i_mkdir", "i_share", "i_scan", "t_locate", "t_upload"}
    /\ IF pc[w] = "i_drop" THEN SetState(job[w], "cancelled") ELSE UNCHANGED row
    /\ Raise(w) /\ GivesUp(w)
    /\ UNCHANGED <<folder, mode, orphanLock, calls, sweep, activeJobs, job, thrown, raised>>

-----------------------------------------------------------------------------
(* The worker loop *)

FirstLabel(action) == [import |-> "i_get", transfer |-> "t_get", cleanup |-> "c_get"][action]

TakeAction(w) ==
    /\ pc[w] = "w_get" /\ ~thrown[w] /\ queue # <<>>
    /\ LET action == Head(queue)[1]  j == Head(queue)[2]
       IN  /\ Goto(w, FirstLabel(action))
           /\ job' = [job EXCEPT ![w] = j]
           /\ activeJobs' = [activeJobs EXCEPT ![j] = w]
    /\ queue' = Tail(queue) /\ after' = [after EXCEPT ![w] = "end"]
    /\ UNCHANGED <<baidu, process, sweep, lock, thrown, raised, sawAwaiting>>

ActionEnds(w) ==
    /\ pc[w] = "end" /\ ~thrown[w]
    /\ Goto(w, "w_get") /\ activeJobs' = Deregistered(w)
    /\ job' = [job EXCEPT ![w] = NoJob] /\ after' = [after EXCEPT ![w] = "w_get"]
    /\ UNCHANGED <<baidu, process, calls, sweep, lock, thrown, raised>>

-----------------------------------------------------------------------------
(* _cleanup_remote, called by actions, by the handlers and by the reaper *)

mutant_DeletableAfter(a, ok) == deletable \cup {job[a]}
DeletableAfter(a, ok) == IF ok THEN deletable \cup {job[a]} ELSE deletable

Return(a, ok) ==
    /\ Goto(a, after[a])
    /\ deletable' = IF a = Reaper THEN DeletableAfter(a, ok) ELSE deletable
    /\ IF after[a] = "w_get"
       THEN activeJobs' = Deregistered(a) /\ job' = [job EXCEPT ![a] = NoJob]
       ELSE UNCHANGED <<activeJobs, job>>

Continue(a, label) == Goto(a, label) /\ UNCHANGED <<activeJobs, job, deletable>>

CleanupGet(a) ==
    /\ pc[a] = "c_get" /\ UNCHANGED <<baidu, lock, after, raised>>
    /\ CASE ~Exists(job[a]) -> Return(a, FALSE)
         [] Exists(job[a]) /\ row[job[a]].cleanupCompleted -> Return(a, TRUE)
         [] Exists(job[a]) /\ ~row[job[a]].cleanupCompleted ->
                Continue(a, IF row[job[a]].tempFsId THEN "c_lock" ELSE "c_meta")

(* Any BaiduError of metadata_fs_id is taken for a folder that is not there. *)
LookUpFolder(a) ==
    /\ pc[a] = "c_meta" /\ UNCHANGED <<baidu, lock, after, raised>>
    /\ \/ folder[job[a]] = "live" /\ Continue(a, "c_lock")
       \/ (folder[job[a]] # "live" \/ "metadata_fault" \in Allowed) /\ Continue(a, "c_mark")

(* The lock of Redis may not be had in time, which is returned.            *)
AcquireForCleanup(a) ==
    /\ pc[a] = "c_lock" /\ UNCHANGED <<baidu, after>>
    /\ \/ /\ LockFree /\ lock' = a /\ raised' = [raised EXCEPT ![a] = "none"]
          /\ Continue(a, "c_remove")
       \/ "remove_fault" \in Allowed /\ Return(a, FALSE) /\ UNCHANGED <<lock, raised>>

Recycled(j) == [folder EXCEPT ![j] = IF @ = "live" THEN "recycled" ELSE @]

(* A removal that raises may have been executed. *)
RemoveFolder(a) ==
    /\ pc[a] = "c_remove" /\ Continue(a, "c_purge") /\ UNCHANGED <<row, lock, after>>
    /\ \/ folder[job[a]] = "live" /\ folder' = Recycled(job[a]) /\ UNCHANGED raised
       \/ /\ folder[job[a]] # "live" \/ "remove_fault" \in Allowed
          /\ folder' \in {folder, Recycled(job[a])} /\ raised' = [raised EXCEPT ![a] = "error"]

mutant_RemoveRaised(a) == "none"
RemoveRaised(a) == raised[a]

(* The finally clause: whatever remove did, permanently_delete is called. *)
PurgeSucceeds(a) ==
    /\ pc[a] = "c_purge" /\ UNCHANGED <<row, raised>>
    /\ folder' = [folder EXCEPT ![job[a]] = IF @ = "recycled" THEN "purged" ELSE @]
    /\ CASE RemoveRaised(a) = "none" ->
                Continue(a, "c_mark") /\ lock' = Freed(a) /\ UNCHANGED after
         [] RemoveRaised(a) = "error" ->
                Return(a, FALSE) /\ lock' = Freed(a) /\ UNCHANGED after
         [] RemoveRaised(a) = "cancel" -> Propagate(a) /\ UNCHANGED <<job, deletable>>

(* Its error replaces a CancelledError of remove, and is returned.  The    *)
(* deletion itself may have happened: the answer or the lock was lost.     *)
PurgeFails(a) ==
    /\ pc[a] = "c_purge" /\ "purge_fault" \in Allowed
    /\ folder' \in {folder, [folder EXCEPT ![job[a]] = IF @ = "recycled" THEN "purged" ELSE @]}
    /\ Return(a, FALSE) /\ lock' = Freed(a) /\ UNCHANGED <<row, after, raised>>

MarkCompleted(a) ==
    /\ pc[a] = "c_mark" /\ Update(job[a], [row[job[a]] EXCEPT !.cleanupCompleted = TRUE])
    /\ Return(a, TRUE) /\ UNCHANGED <<folder, lock, after, raised>>

CleanupStep(a) ==
    /\ ~thrown[a] /\ UNCHANGED <<process, calls, thrown, expiredIds>>
    /\ \/ CleanupGet(a) \/ LookUpFolder(a) \/ AcquireForCleanup(a) \/ RemoveFolder(a)
       \/ PurgeSucceeds(a) \/ PurgeFails(a) \/ MarkCompleted(a)

(* A cancellation reaches the coroutine at its await.  The upload's except *)
(* clause swallows it; a removal still goes through its finally clause.    *)
Throw(a) ==
    /\ thrown[a] /\ thrown' = [thrown EXCEPT ![a] = FALSE] /\ GivesUp(a)
    /\ UNCHANGED <<mode, orphanLock, calls, sweep, job, row>>
    /\ CASE pc[a] = "t_upload" ->
                Goto(a, "x_cancel") /\ UNCHANGED <<folder, raised, activeJobs, lock, after>>
         [] pc[a] = "c_remove" ->
                /\ Goto(a, "c_purge") /\ raised' = [raised EXCEPT ![a] = "cancel"]
                /\ folder' \in {folder, Recycled(job[a])}
                /\ UNCHANGED <<activeJobs, lock, after>>
         [] pc[a] \notin {"t_upload", "c_remove"} ->
                Propagate(a) /\ UNCHANGED <<folder, raised>>

-----------------------------------------------------------------------------
(* _expiration_loop *)

mutant_Expired == {j \in Job : row[j].state = "completed" /\ row[j].expiry = "past"}
Expired == {j \in Job : Exists(j) /\ row[j].expiry = "past"}

SelectExpired ==
    /\ pc[Reaper] = "r_sleep" /\ ~thrown[Reaper]
    /\ Expired # {} /\ expiredIds' = Expired /\ deletable' = {} /\ Goto(Reaper, "r_next")
    /\ UNCHANGED <<baidu, process, calls, activeJobs, lock, job, after, thrown, raised>>

CleanNext ==
    /\ pc[Reaper] = "r_next" /\ ~thrown[Reaper]
    /\ \E j \in expiredIds :
          /\ job' = [job EXCEPT ![Reaper] = j]
          /\ expiredIds' = expiredIds \ {j}
    /\ Goto(Reaper, "c_get")
    /\ UNCHANGED <<baidu, process, calls, deletable, activeJobs, lock, after, thrown, raised>>

DeleteRows ==
    /\ pc[Reaper] = "r_next" /\ ~thrown[Reaper] /\ expiredIds = {}
    /\ row' = [j \in Job |-> IF j \in deletable THEN BlankRow("deleted") ELSE row[j]]
    /\ deletable' = {} /\ job' = [job EXCEPT ![Reaper] = NoJob] /\ Goto(Reaper, "r_sleep")
    /\ UNCHANGED <<folder, process, calls, expiredIds, activeJobs, lock, after, thrown, raised>>

-----------------------------------------------------------------------------
(* HTTP requests: create_job, select_items, cancel *)

Pending == {j \in Job : Exists(j) /\ row[j].state \notin TERMINAL_JOB_STATES}

Create(c, j) ==
    /\ mode = "up" /\ pc[c] = "idle" /\ Cardinality(Pending) < MaxPending
    /\ row[j].state = "absent" /\ \A d \in Client : job[d] # j
    /\ Goto(c, "insert") /\ job' = [job EXCEPT ![c] = j]
    /\ UNCHANGED <<row, queue, activeJobs, thrown, sawAwaiting>>

InsertRow(c) ==
    /\ pc[c] = "insert" /\ row' = [row EXCEPT ![job[c]] = BlankRow("queued_import")]
    /\ Goto(c, "put_import") /\ UNCHANGED <<job, queue, activeJobs, thrown, sawAwaiting>>

Put(c, label, action) ==
    /\ pc[c] = label /\ queue' = Append(queue, <<action, job[c]>>)
    /\ Goto(c, "idle") /\ job' = [job EXCEPT ![c] = NoJob]
    /\ UNCHANGED <<row, activeJobs, thrown, sawAwaiting>>

ReadForSelection(c, j) ==
    /\ mode = "up" /\ pc[c] = "idle" /\ row[j].state = "awaiting_selection"
    /\ "double_submit" \in Allowed
         \/ \A d \in Client : ~(job[d] = j /\ pc[d] \in {"sel_commit", "put_transfer"})
    /\ Goto(c, "sel_commit") /\ job' = [job EXCEPT ![c] = j]
    /\ UNCHANGED <<row, queue, activeJobs, thrown, sawAwaiting>>

CommitSelection(c) ==
    /\ pc[c] = "sel_commit" /\ SetState(job[c], "queued_transfer")
    /\ IF Exists(job[c])
       THEN Goto(c, "put_transfer") /\ UNCHANGED job
       ELSE Goto(c, "idle") /\ job' = [job EXCEPT ![c] = NoJob]
    /\ UNCHANGED <<queue, activeJobs, thrown, sawAwaiting>>

ReadForCancel(c, j) ==
    /\ mode = "up" /\ pc[c] = "idle" /\ j \in Pending
    /\ sawAwaiting' = [sawAwaiting EXCEPT ![c] = row[j].state = "awaiting_selection"]
    /\ Goto(c, "cancel_commit") /\ job' = [job EXCEPT ![c] = j]
    /\ UNCHANGED <<row, queue, activeJobs, thrown>>

CommitCancel(c) ==
    /\ pc[c] = "cancel_commit"
    /\ Update(job[c], [row[job[c]] EXCEPT !.cancelRequested = TRUE, !.state = "cancelled"])
    /\ IF Exists(job[c])
       THEN Goto(c, "deliver") /\ UNCHANGED job
       ELSE Goto(c, "idle") /\ job' = [job EXCEPT ![c] = NoJob]
    /\ UNCHANGED <<queue, activeJobs, thrown, sawAwaiting>>

(* active_task.cancel(), or a cleanup action for a job that was waiting. *)
DeliverCancel(c) ==
    LET w == activeJobs[job[c]]
        delivered == w # NoOne /\ InTask(w)
    IN  /\ pc[c] = "deliver" /\ Goto(c, "idle") /\ job' = [job EXCEPT ![c] = NoJob]
        /\ thrown' = IF delivered THEN [thrown EXCEPT ![w] = TRUE] ELSE thrown
        /\ queue' = IF ~delivered /\ sawAwaiting[c]
                    THEN Append(queue, <<"cleanup", job[c]>>) ELSE queue
        /\ sawAwaiting' = [sawAwaiting EXCEPT ![c] = FALSE]
        /\ UNCHANGED <<row, activeJobs>>

RequestArrives(c) ==
    \E j \in Job : Create(c, j) \/ ReadForSelection(c, j) \/ ReadForCancel(c, j)
RequestGoesOn(c) ==
    \/ InsertRow(c) \/ Put(c, "put_import", "import")
    \/ CommitSelection(c) \/ Put(c, "put_transfer", "transfer")
    \/ CommitCancel(c) \/ DeliverCancel(c)
Requests(step) == step /\ UNCHANGED <<folder, process, lock, after, raised, sweep>>

-----------------------------------------------------------------------------
(* The environment: late calls, time, stop, crash and start *)

(* Baidu executes a mkdir that nobody waits for any more. *)
LateMkdir(j) ==
    /\ late[j] = "pending" /\ late' = [late EXCEPT ![j] = "executed"]
    /\ folder' = [folder EXCEPT ![j] = "live"]
    /\ UNCHANGED <<row, mode, orphanLock, calls, sweep, activeJobs, lock, pc, job,
                   after, thrown, raised>>

InUse(j) == \/ \E a \in Actor : job[a] = j
            \/ \E i \in 1..Len(queue) : queue[i][2] = j

(* expires_at is days away: only "late_expiry" lets a job in use expire. *)
TimePasses(j) ==
    /\ Exists(j) /\ row[j].expiry # "past"
    /\ "late_expiry" \in Allowed \/ (~InUse(j) /\ row[j].state \notin ActiveStates)
    /\ row' = [row EXCEPT ![j].expiry = "past"]
    /\ UNCHANGED <<folder, process, calls, sweep, activeJobs, lock, pc, job,
                   after, thrown, raised>>

OrphanLockExpires ==
    /\ orphanLock /\ orphanLock' = FALSE
    /\ UNCHANGED <<baidu, mode, late, calls, sweep, activeJobs, lock, pc, job,
                   after, thrown, raised>>

(* The server drains its requests, then JobService.stop cancels every task. *)
Stop ==
    /\ "stop" \in Allowed /\ mode = "up" /\ \A c \in Client : pc[c] = "idle"
    /\ mode' = "stopping" /\ thrown' = [a \in Coroutine |-> TRUE]
    /\ UNCHANGED <<baidu, orphanLock, late, calls, sweep, activeJobs, lock, pc, job, after, raised>>

NoTask == [a \in Coroutine |-> IF a = Reaper THEN "r_next" ELSE "w_get"]

ProcessEnds ==
    /\ mode' = "down" /\ queue' = <<>>
    /\ activeJobs' = [j \in Job |-> NoOne] /\ lock' = NoOne
    /\ pc' = [a \in Actor |-> IF a \in Client THEN "idle" ELSE "off"]
    /\ job' = [a \in Actor |-> NoJob]
    /\ after' = NoTask
    /\ thrown' = [a \in Coroutine |-> FALSE] /\ raised' = [a \in Coroutine |-> "none"]
    /\ sawAwaiting' = [c \in Client |-> FALSE] /\ expiredIds' = {} /\ deletable' = {}
    /\ UNCHANGED baidu

Stopped ==
    /\ mode = "stopping" /\ \A a \in Coroutine : pc[a] = "off"
    /\ ProcessEnds /\ UNCHANGED <<orphanLock, late>>

Crash ==
    /\ "crash" \in Allowed /\ mode # "down" /\ ProcessEnds
    /\ orphanLock' = (orphanLock \/ lock # NoOne)
    /\ late' = [j \in Job |-> IF \E w \in Worker : job[w] = j /\ pc[w] = "i_mkdir"
                              THEN "pending" ELSE late[j]]

mutant_InterruptedStates == ActiveStates \ {"cleaning"}
InterruptedStates == ActiveStates

(* start: _mark_interrupted_jobs, then a cleanup for each of those jobs. *)
Start ==
    LET interrupted == {j \in Job : row[j].state \in InterruptedStates}
    IN  /\ mode = "down" /\ mode' = "up"
        /\ row' = [j \in Job |-> IF j \in interrupted
                                 THEN [row[j] EXCEPT !.state = "failed"] ELSE row[j]]
        /\ \E order \in [1..Cardinality(interrupted) -> interrupted] :
              /\ \A j \in interrupted : \E i \in DOMAIN order : order[i] = j
              /\ queue' = [i \in DOMAIN order |-> <<"cleanup", order[i]>>]
        /\ pc' = [a \in Actor |-> IF a \in Worker THEN "w_get"
                                  ELSE IF a = Reaper THEN "r_sleep" ELSE "idle"]
        /\ after' = NoTask /\ lock' = NoOne
        /\ UNCHANGED <<folder, orphanLock, late, sawAwaiting, sweep, activeJobs, job, thrown, raised>>

-----------------------------------------------------------------------------
Init ==
    /\ row = [j \in Job |-> BlankRow("absent")] /\ folder = [j \in Job |-> "none"]
    /\ late = [j \in Job |-> "no"]
    /\ mode = "up" /\ queue = <<>> /\ activeJobs = [j \in Job |-> NoOne]
    /\ lock = NoOne /\ orphanLock = FALSE
    /\ pc = [a \in Actor |-> IF a \in Worker THEN "w_get"
                             ELSE IF a = Reaper THEN "r_sleep" ELSE "idle"]
    /\ job = [a \in Actor |-> NoJob]
    /\ after = NoTask
    /\ thrown = [a \in Coroutine |-> FALSE] /\ raised = [a \in Coroutine |-> "none"]
    /\ sawAwaiting = [c \in Client |-> FALSE] /\ expiredIds = {} /\ deletable = {}

WorkerStep(w) == ActionStep(w) \/ CallFails(w) \/ TakeAction(w) \/ ActionEnds(w)
ReaperStep == SelectExpired \/ CleanNext \/ DeleteRows

Next ==
    \/ \E w \in Worker : WorkerStep(w)
    \/ \E a \in Coroutine : CleanupStep(a) \/ Throw(a)
    \/ ReaperStep
    \/ \E c \in Client : Requests(RequestArrives(c)) \/ Requests(RequestGoesOn(c))
    \/ \E j \in Job : TimePasses(j) \/ LateMkdir(j)
    \/ OrphanLockExpires \/ Stop \/ Stopped \/ Crash \/ Start

Spec == Init /\ [][Next]_vars
=============================================================================
