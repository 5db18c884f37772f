--------------------------- MODULE JobProperties ---------------------------
(***************************************************************************)
(* What JobService promises about its jobs, the temporary folders, the     *)
(* mutation lock and its own tasks; and the fairness of its scheduling.    *)
(***************************************************************************)
EXTENDS JobService

DataOK ==
    /\ row \in [Job -> Row]
    /\ folder \in [Job -> {"none", "live", "recycled", "purged"}]
    /\ late \in [Job -> {"no", "pending", "executed"}]
    /\ mode \in {"up", "stopping", "down"} /\ orphanLock \in BOOLEAN
    /\ queue \in Seq(Action \X Job)
    /\ activeJobs \in [Job -> Worker \cup {NoOne}]
    /\ lock \in Coroutine \cup {NoOne}
    /\ thrown \in [Coroutine -> BOOLEAN]
    /\ raised \in [Coroutine -> {"none", "error", "cancel"}]
    /\ sawAwaiting \in [Client -> BOOLEAN]
    /\ expiredIds \subseteq Job /\ deletable \subseteq Job

(* Only a worker between two actions, or one that has ended, has no job,   *)
(* and it has no action task.                                              *)
WorkerOK(w) ==
    /\ pc[w] \in WorkerLabel /\ after[w] \in {"t_store", "end", "w_get"}
    /\ job[w] = NoJob => pc[w] \in {"w_get", "off"}
    /\ pc[w] \in {"w_get", "off"} => after[w] = "w_get"
ReaperOK ==
    /\ pc[Reaper] \in ReaperLabel /\ after[Reaper] = "r_next"
    /\ job[Reaper] = NoJob => pc[Reaper] \in {"r_sleep", "r_next", "off"}
ClientOK(c) == pc[c] \in ClientLabel /\ (job[c] = NoJob => pc[c] = "idle")

ControlOK ==
    /\ pc \in [Actor -> WorkerLabel \cup ReaperLabel \cup ClientLabel]
    /\ job \in [Actor -> Job \cup {NoJob}]
    /\ after \in [Coroutine -> {"t_store", "end", "w_get", "r_next"}]
    /\ \A w \in Worker : WorkerOK(w)
    /\ ReaperOK
    /\ \A c \in Client : ClientOK(c)

(* The types of the rows, the queue and the coroutines of jobs.py, and at  *)
(* which awaits each of them can be.                                       *)
TypeOK == DataOK /\ ControlOK

(* The import and the removal of folders at Baidu exclude one another: a   *)
(* coroutine is inside `async with self._baidu_mutation_lock()` exactly    *)
(* when it holds the lock, whichever exception takes it out, and never     *)
(* while Redis has the key of a process that died inside.                  *)
MutationExclusive == \A a \in Coroutine :
    /\ lock = a <=> pc[a] \in InLock
    /\ pc[a] \in InLock => ~orphanLock

(* The labels of worker w from which its job will leave the active states. *)
Settling(w) == \/ pc[w] \in Import \cup Transfer \cup Handler
               \/ pc[w] \in Cleanup /\ after[w] = "t_store"

(* While the service is up, a job in one of the states that                *)
(* _mark_interrupted_jobs calls active has somebody who will move it on:   *)
(* a queue entry, a request about to put one, or a worker at the job.      *)
NoStrandedJob ==
    mode = "up" =>
        \A j \in Job : row[j].state \in ActiveStates =>
            \/ \E i \in 1..Len(queue) : queue[i] \in {<<"import", j>>, <<"transfer", j>>}
            \/ \E c \in Client : job[c] = j /\ pc[c] \in {"put_import", "put_transfer"}
            \/ \E w \in Worker : job[w] = j /\ Settling(w)

(* cleanup_completed of an imported job tells the truth: its copy is gone  *)
(* from Baidu and from the recycle bin.                                    *)
CleanupTruthful ==
    \A j \in Job : row[j].tempFsId /\ row[j].cleanupCompleted => folder[j] = "purged"

(* A folder at Baidu has a row that still asks for its removal, but for    *)
(* the empty one of a mkdir that was given up and executed late, when the  *)
(* cleanup of the job may be over.  Two events break this and are left     *)
(* out where it is checked: a look-up that fails while the folder is there *)
(* ("metadata_fault", jobs.py 518-521), and a page that expires while its  *)
(* job is being imported ("late_expiry").                                  *)
LiveFolderTracked == \A j \in Job :
    folder[j] = "live" /\ late[j] # "executed" => Exists(j) /\ ~row[j].cleanupCompleted

(* Nobody removes the source of a job that has still to be transferred,    *)
(* unless the job was cancelled or its page has expired.                   *)
SourcePresent ==
    \A j \in Job :
        /\ row[j].state \in {"awaiting_selection", "queued_transfer", "transferring"}
        /\ ~row[j].cancelRequested /\ row[j].expiry # "past"
        => folder[j] = "live"

(* active_jobs leads cancel() to a worker that is at that very job, and a  *)
(* worker that imports or transfers a job can be reached by its first      *)
(* cancel().                                                               *)
Registered == \A w \in Worker, j \in Job :
    /\ activeJobs[j] = w => job[w] = j /\ pc[w] \notin {"w_get", "off"}
    /\ job[w] = j /\ pc[w] \in Import \cup Transfer /\ Exists(j) /\ ~row[j].cancelRequested
       => activeJobs[j] = w

-----------------------------------------------------------------------------
(* Once nobody is at a job whose cancellation was requested, it is         *)
(* cancelled: it is not offered for selection, nor completed.              *)
CancelIsFinal == \A j \in Job :
    row[j].cancelRequested /\ ~InUse(j) => row[j].state = "cancelled"

-----------------------------------------------------------------------------
(* Fairness.  The event loop runs every ready coroutine; awaited calls     *)
(* have timeouts; asyncio.Lock is FIFO, hence the strong fairness of the   *)
(* steps that may wait for it.  A request that has begun is finished.      *)
(* Nothing obliges a new request, a fault, a crash or a stop to happen.    *)
Scheduling ==
    /\ \A w \in Worker : SF_vars(ActionStep(w)) /\ WF_vars(TakeAction(w) \/ ActionEnds(w))
    /\ \A a \in Coroutine : SF_vars(CleanupStep(a)) /\ WF_vars(Throw(a))
    /\ \A c \in Client : WF_vars(Requests(RequestGoesOn(c)))
    /\ WF_vars(ReaperStep) /\ WF_vars(Start) /\ WF_vars(Stopped)
    /\ WF_vars(OrphanLockExpires) /\ \A j \in Job : WF_vars(TimePasses(j))

(* What the removal needs of others, and only FolderLeaves does: when it   *)
(* is tried again and again, neither the lock of Redis nor the removal is  *)
(* refused each time.                                                      *)
NotRefusedForEver == \A j \in Job :
    /\ SF_vars(\E a \in Coroutine : job[a] = j /\ CleanupStep(a) /\ lock' = a /\ lock # a)
    /\ SF_vars(\E a \in Coroutine : job[a] = j /\ CleanupStep(a) /\ folder' # folder)

FairSpec == Spec /\ Scheduling
RetriedSpec == FairSpec /\ NotRefusedForEver

(* A job in an active state leaves it: it completes, fails, is cancelled   *)
(* or comes to wait for its selection, whatever call fails and however     *)
(* often the process crashes.                                              *)
Settles == \A j \in Job :
    row[j].state \in ActiveStates ~> row[j].state \notin ActiveStates

(* The folder of a job leaves Baidu, by its own cleanup or, when that was  *)
(* refused, by the reaper's, unless the process dies again before that.    *)
(* Nothing removes the empty one of a mkdir that was given up and executed *)
(* after the cleanup, and look-ups are taken not to fail.                  *)
FolderLeaves == \A j \in Job :
    folder[j] = "live" ~> folder[j] # "live" \/ late[j] = "executed" \/ mode = "down"

(* The copy of a job leaves Baidu for good: it does not stay in the        *)
(* recycle bin.                                                            *)
FolderPurged == \A j \in Job : folder[j] = "live" ~> folder[j] = "purged"

(* JobService.stop ends.                                                   *)
ShutdownCompletes == mode = "stopping" ~> mode = "down"
=============================================================================
