-------------------------- MODULE JobServiceProofs --------------------------
(***************************************************************************)
(* Theorems of JobService for every number of jobs, workers and requests:  *)
(* the types and the mutation lock; then who is at a job, that is, the     *)
(* registry active_jobs, the cancellations on their way, that no job is    *)
(* left in an active state, and that a job under way has one owner.        *)
(***************************************************************************)
EXTENDS JobProperties, FiniteSetTheorems, SequenceTheorems, TLAPS

(* A step of one coroutine leaves the control of the others alone. *)
OthersKeep(a) ==
    /\ \A b \in Actor \ {a} : pc'[b] = pc[b] /\ job'[b] = job[b]
    /\ \A b \in Coroutine \ {a} : after'[b] = after[b]

LocalOK(a) == /\ a \in Worker => WorkerOK(a)
              /\ a = Reaper => ReaperOK
              /\ a \in Client => ClientOK(a)

(* A step that changes the control of one actor keeps ControlOK if that    *)
(* actor's new label, job and return label fit together.                   *)
LEMMA ControlStep ==
    ASSUME ControlOK, NEW a \in Actor, OthersKeep(a), LocalOK(a)',
           pc' \in [Actor -> WorkerLabel \cup ReaperLabel \cup ClientLabel],
           job' \in [Actor -> Job \cup {NoJob}],
           after' \in [Coroutine -> {"t_store", "end", "w_get", "r_next"}]
    PROVE  ControlOK'
BY ActorAssumption DEF ControlOK, OthersKeep, LocalOK, WorkerOK, ReaperOK, ClientOK, Actor, Coroutine

(* What a step inside an action, or inside the handlers, does to control. *)
Moves(w) ==
    /\ pc' \in [Actor -> WorkerLabel \cup ReaperLabel \cup ClientLabel]
    /\ after' \in [Coroutine -> {"t_store", "end", "w_get", "r_next"}]
    /\ OthersKeep(w) /\ UNCHANGED job
    /\ pc'[w] \in WorkerLabel \ {"w_get", "off"} /\ after'[w] \in {"t_store", "end", "w_get"}

(* A worker that moves on within its action, or within its handlers, keeps *)
(* ControlOK.                                                              *)
LEMMA MovesOK ==
    ASSUME ControlOK, NEW w \in Worker, job[w] # NoJob, Moves(w)
    PROVE  ControlOK'
<1>1. LocalOK(w)'
  BY ActorAssumption DEF LocalOK, WorkerOK, Moves
<1> QED BY <1>1, ControlStep DEF ControlOK, Moves, Actor, Coroutine

(* Going on to the next await of the code is such a move. *)
LEMMA ProceedMoves ==
    ASSUME ControlOK, NEW w \in Worker, UNCHANGED job,
           NEW l \in WorkerLabel \ {"w_get", "off"}, Proceed(w, l)
    PROVE  Moves(w)
BY DEF ControlOK, WorkerOK, Moves, OthersKeep, Proceed, Goto, Actor, Coroutine

(* So is an exception, which takes the worker to _fail_job. *)
LEMMA RaiseMoves ==
    ASSUME ControlOK, NEW w \in Worker, UNCHANGED job, Raise(w)
    PROVE  Moves(w)
BY DEF ControlOK, WorkerOK, Moves, OthersKeep, Raise, Goto, Actor, Coroutine, WorkerLabel, Handler

(* Every step of _import_job, _transfer_job and the handlers of _worker    *)
(* keeps the control of all actors consistent.                             *)
LEMMA ActionControl ==
    ASSUME ControlOK, NEW w \in Worker, ActionStep(w)
    PROVE  ControlOK'
<1>1. UNCHANGED job /\ job[w] # NoJob
  <2>1. pc[w] \notin {"w_get", "off"}
    BY DEF ActionStep, ImportGet, SetImporting, AcquireForImport, CheckCancelled,
           QuitCancelled, Mkdir, ImportShare, ScanTree, StoreItems, TransferGet,
           SetTransferring, Locate, Upload, CancelInside, SetCleaning, StoreResult,
           Handle, Handler
  <2> QED BY <2>1 DEF ControlOK, WorkerOK, ActionStep
<1>2. \/ Raise(w)
      \/ \E l \in WorkerLabel \ {"w_get", "off"} : Proceed(w, l)
      \/ \E l \in WorkerLabel \ {"w_get", "off"} : Goto(w, l) /\ UNCHANGED after
      \/ Goto(w, "c_get") /\ after' = [after EXCEPT ![w] = "t_store"]
  <2> USE DEF WorkerLabel, Import, Transfer, Handler, Cleanup
  <2>1. CASE ImportGet(w) \/ SetImporting(w) \/ AcquireForImport(w) \/ CheckCancelled(w)
    BY <2>1 DEF ImportGet, SetImporting, AcquireForImport, CheckCancelled
  <2>2. CASE QuitCancelled(w) \/ Mkdir(w) \/ ImportShare(w) \/ ScanTree(w) \/ StoreItems(w)
    BY <2>2 DEF QuitCancelled, Mkdir, ImportShare, ScanTree, StoreItems
  <2>3. CASE TransferGet(w) \/ SetTransferring(w) \/ Locate(w) \/ Upload(w)
    BY <2>3 DEF TransferGet, SetTransferring, Locate, Upload
  <2>4. CASE CancelInside(w) \/ SetCleaning(w) \/ StoreResult(w) \/ Handle(w)
    BY <2>4 DEF CancelInside, SetCleaning, StoreResult, Handle
  <2> QED BY <2>1, <2>2, <2>3, <2>4 DEF ActionStep
<1>3. Moves(w)
  <2>1. CASE \E l \in WorkerLabel \ {"w_get", "off"} : Goto(w, l) /\ UNCHANGED after
    BY <1>1, <2>1 DEF ControlOK, WorkerOK, Moves, OthersKeep, Goto, Actor, Coroutine
  <2>2. CASE Goto(w, "c_get") /\ after' = [after EXCEPT ![w] = "t_store"]
    BY <1>1, <2>2 DEF ControlOK, WorkerOK, Moves, OthersKeep, Goto, Actor, Coroutine,
                      WorkerLabel, Cleanup
  <2> QED BY <1>1, <1>2, <2>1, <2>2, ProceedMoves, RaiseMoves
<1> QED BY <1>1, <1>3, MovesOK

-----------------------------------------------------------------------------
(* The actions keep the types of the data. *)

(* UPDATE keeps the jobs table well typed. *)
LEMMA UpdateTyped ==
    ASSUME row \in [Job -> Row], NEW j \in Job, NEW r \in Row, Update(j, r)
    PROVE  row' \in [Job -> Row]
BY DEF Update

(* _set_state keeps the jobs table well typed. *)
LEMMA SetStateTyped ==
    ASSUME row \in [Job -> Row], NEW j \in Job, NEW s \in JobState, SetState(j, s)
    PROVE  row' \in [Job -> Row]
<1>1. [row[j] EXCEPT !.state = s] \in Row
  BY DEF Row
<1> QED BY <1>1, UpdateTyped DEF SetState

(* Every step of an action writes values of the right type. *)
LEMMA ActionData ==
    ASSUME TypeOK, NEW w \in Worker, ActionStep(w)
    PROVE  DataOK'
<1>1. job[w] \in Job
  <2>1. pc[w] \notin {"w_get", "off"}
    BY DEF ActionStep, ImportGet, SetImporting, AcquireForImport, CheckCancelled,
           QuitCancelled, Mkdir, ImportShare, ScanTree, StoreItems, TransferGet,
           SetTransferring, Locate, Upload, CancelInside, SetCleaning, StoreResult,
           Handle, Handler
  <2> QED BY <2>1 DEF TypeOK, ControlOK, WorkerOK, Actor, Coroutine
<1>2. row' \in [Job -> Row]
  <2>1. row \in [Job -> Row] /\ row[job[w]] \in Row
    BY <1>1 DEF TypeOK, DataOK
  <2>2. ASSUME NEW s \in JobState, SetState(job[w], s) PROVE row' \in [Job -> Row]
    BY <1>1, <2>1, <2>2, SetStateTyped
  <2>3. ASSUME NEW r \in Row, Update(job[w], r) PROVE row' \in [Job -> Row]
    BY <1>1, <2>1, <2>3, UpdateTyped
  <2>4. /\ [row[job[w]] EXCEPT !.tempFsId = TRUE, !.state = "awaiting_selection"] \in Row
        /\ [row[job[w]] EXCEPT !.state = "completed", !.expiry = "page"] \in Row
        /\ [row[job[w]] EXCEPT !.state = "failed", !.expiry = "failed"] \in Row
    BY <2>1 DEF Row, JobState, TERMINAL_JOB_STATES
  <2>5. {"importing", "cleaning", "transferring", "cancelled"} \subseteq JobState
    BY DEF JobState, ActiveStates, TERMINAL_JOB_STATES
  <2>6. CASE StoreItems(w) \/ StoreResult(w) \/ Handle(w)
    BY <2>2, <2>3, <2>4, <2>5, <2>6 DEF StoreItems, StoreResult, Handle
  <2>7. CASE SetImporting(w) \/ SetTransferring(w) \/ CancelInside(w) \/ SetCleaning(w)
             \/ QuitCancelled(w)
    BY <2>2, <2>5, <2>7 DEF SetImporting, SetTransferring, CancelInside, SetCleaning,
                            QuitCancelled, CleaningState
  <2>8. CASE UNCHANGED row
    BY <2>1, <2>8
  <2> QED BY <2>6, <2>7, <2>8 DEF ActionStep, ImportGet, AcquireForImport, CheckCancelled, Mkdir,
             ImportShare, ScanTree, TransferGet, Locate, Upload, baidu
<1>3. folder' \in [Job -> {"none", "live", "recycled", "purged"}]
  <2>1. folder' = folder \/ folder' = [folder EXCEPT ![job[w]] = "live"]
    BY DEF ActionStep, ImportGet, SetImporting, AcquireForImport, CheckCancelled,
           QuitCancelled, Mkdir, ImportShare, ScanTree, StoreItems, TransferGet,
           SetTransferring, Locate, Upload, CancelInside, SetCleaning, StoreResult,
           Handle, baidu
  <2> QED BY <1>1, <2>1 DEF TypeOK, DataOK
<1>4. lock' \in {lock, w, NoOne}
  BY DEF ActionStep, ImportGet, SetImporting, AcquireForImport, CheckCancelled,
         QuitCancelled, Mkdir, ImportShare, ScanTree, StoreItems, TransferGet,
         SetTransferring, Locate, Upload, CancelInside, SetCleaning, StoreResult,
         Handle, Proceed, Raise, Freed
<1> QED BY <1>2, <1>3, <1>4 DEF TypeOK, DataOK, ActionStep, process, calls, sweep, Coroutine

-----------------------------------------------------------------------------
(* So do the other steps of the workers and the reaper. *)

(* Dropping an entry of active_jobs keeps its type. *)
LEMMA DeregisteredTyped ==
    ASSUME activeJobs \in [Job -> Worker \cup {NoOne}], NEW a
    PROVE  Deregistered(a) \in [Job -> Worker \cup {NoOne}]
BY DEF Deregistered

(* A failed call to Baidu or Buzzheavier keeps TypeOK. *)
LEMMA CallFailsTyped ==
    ASSUME TypeOK, NEW w \in Worker, CallFails(w)
    PROVE  TypeOK'
<1>1. job[w] # NoJob
  BY DEF TypeOK, ControlOK, WorkerOK, CallFails
<1>2. ControlOK'
  BY <1>1, RaiseMoves, MovesOK DEF TypeOK, CallFails
<1>3. job[w] \in Job /\ row' \in [Job -> Row]
  <2>1. job[w] \in Job
    BY <1>1 DEF TypeOK, ControlOK, Actor, Coroutine
  <2>2. "cancelled" \in JobState
    BY DEF JobState, TERMINAL_JOB_STATES
  <2> QED BY <2>1, <2>2, SetStateTyped DEF CallFails, TypeOK, DataOK
<1>4. late' \in [Job -> {"no", "pending", "executed"}]
  BY DEF CallFails, GivesUp, TypeOK, DataOK
<1>5. DataOK'
  BY <1>3, <1>4 DEF TypeOK, DataOK, CallFails, Raise, Freed, calls, sweep, Coroutine
<1> QED BY <1>2, <1>5 DEF TypeOK

(* The worker loop keeps TypeOK when it takes an action and when one ends. *)
LEMMA LoopTyped ==
    ASSUME TypeOK, NEW w \in Worker, TakeAction(w) \/ ActionEnds(w)
    PROVE  TypeOK'
<1>1. CASE TakeAction(w)
  <2>1. /\ Head(queue) \in Action \X Job /\ Tail(queue) \in Seq(Action \X Job)
        /\ Head(queue)[1] \in Action /\ Head(queue)[2] \in Job
    BY <1>1 DEF TakeAction, TypeOK, DataOK
  <2>2. FirstLabel(Head(queue)[1]) \in {"i_get", "t_get", "c_get"}
    BY <2>1 DEF FirstLabel, Action
  <2>3. DataOK'
    BY <1>1, <2>1 DEF TakeAction, TypeOK, DataOK, baidu, process, sweep
  <2>4. LocalOK(w)'
    BY <1>1, <2>1, <2>2, ActorAssumption, JobAssumption
       DEF TakeAction, TypeOK, ControlOK, LocalOK, WorkerOK, Goto, Actor, Coroutine,
           WorkerLabel, Import, Transfer, Cleanup
  <2>5. OthersKeep(w)
    BY <1>1 DEF TakeAction, OthersKeep, TypeOK, ControlOK, Goto
  <2>6. /\ pc' \in [Actor -> WorkerLabel \cup ReaperLabel \cup ClientLabel]
        /\ job' \in [Actor -> Job \cup {NoJob}]
        /\ after' \in [Coroutine -> {"t_store", "end", "w_get", "r_next"}]
    BY <1>1, <2>1, <2>2 DEF TakeAction, TypeOK, ControlOK, Goto, WorkerLabel, Import,
                            Transfer, Cleanup
  <2> QED BY <2>3, <2>4, <2>5, <2>6, ControlStep DEF TypeOK, Actor, Coroutine
<1>2. CASE ActionEnds(w)
  <2>1. DataOK'
    BY <1>2, DeregisteredTyped
       DEF ActionEnds, TypeOK, DataOK, baidu, process, sweep, calls
  <2>2. LocalOK(w)' /\ OthersKeep(w)
    BY <1>2, ActorAssumption DEF ActionEnds, TypeOK, ControlOK, LocalOK, WorkerOK, OthersKeep,
           Goto, Actor, Coroutine, WorkerLabel
  <2>3. /\ pc' \in [Actor -> WorkerLabel \cup ReaperLabel \cup ClientLabel]
        /\ job' \in [Actor -> Job \cup {NoJob}]
        /\ after' \in [Coroutine -> {"t_store", "end", "w_get", "r_next"}]
    BY <1>2 DEF ActionEnds, TypeOK, ControlOK, Goto, WorkerLabel
  <2> QED BY <2>1, <2>2, <2>3, ControlStep DEF TypeOK, Actor, Coroutine
<1> QED BY <1>1, <1>2

(* Where _cleanup_remote can leave its caller, for a worker or the reaper. *)
LEMMA ReturnControl ==
    ASSUME ControlOK, NEW a \in Coroutine, NEW ok \in BOOLEAN, pc[a] \in Cleanup,
           Return(a, ok), UNCHANGED after
    PROVE  ControlOK'
<1>1. LocalOK(a)' /\ OthersKeep(a)
  BY ActorAssumption DEF ControlOK, LocalOK, WorkerOK, ReaperOK, OthersKeep, Return, Goto,
     Actor, Coroutine, WorkerLabel, ReaperLabel, Cleanup, Transfer
<1>2. /\ pc' \in [Actor -> WorkerLabel \cup ReaperLabel \cup ClientLabel]
      /\ job' \in [Actor -> Job \cup {NoJob}]
  BY DEF ControlOK, Return, Goto, Actor, Coroutine, WorkerLabel, ReaperLabel, Transfer
<1> QED BY <1>1, <1>2, ControlStep DEF ControlOK, Actor

(* A step inside _cleanup_remote keeps the control of all actors. *)
LEMMA ContinueControl ==
    ASSUME ControlOK, NEW a \in Coroutine, pc[a] \in Cleanup,
           NEW l \in Cleanup, Continue(a, l), UNCHANGED after
    PROVE  ControlOK'
<1>1. LocalOK(a)' /\ OthersKeep(a)
  BY ActorAssumption DEF ControlOK, LocalOK, WorkerOK, ReaperOK, OthersKeep, Continue, Goto,
     Actor, Coroutine, WorkerLabel, ReaperLabel, Cleanup
<1>2. pc' \in [Actor -> WorkerLabel \cup ReaperLabel \cup ClientLabel]
  BY DEF ControlOK, Continue, Goto, WorkerLabel
<1> QED BY <1>1, <1>2, ControlStep DEF ControlOK, Continue, Actor

(* A CancelledError that leaves the action task, or the coroutine, does. *)
LEMMA PropagateControl ==
    ASSUME ControlOK, NEW a \in Coroutine, Propagate(a), UNCHANGED job
    PROVE  ControlOK'
<1>1. LocalOK(a)' /\ OthersKeep(a)
  BY ActorAssumption DEF ControlOK, LocalOK, WorkerOK, ReaperOK, OthersKeep, Propagate, Goto,
     InTask, Actor, Coroutine, WorkerLabel, ReaperLabel, Handler
<1>2. /\ pc' \in [Actor -> WorkerLabel \cup ReaperLabel \cup ClientLabel]
      /\ after' \in [Coroutine -> {"t_store", "end", "w_get", "r_next"}]
  BY DEF ControlOK, Propagate, Goto, WorkerLabel, Handler
<1> QED BY <1>1, <1>2, ControlStep DEF ControlOK, Actor

(* The data that leaving or continuing _cleanup_remote may change. *)
LeavingKeepsTypes == /\ activeJobs' \in [Job -> Worker \cup {NoOne}]
                     /\ deletable' \subseteq Job

(* The registry keeps its type when a coroutine leaves _cleanup_remote. *)
LEMMA LeavingTyped ==
    ASSUME TypeOK, NEW a \in Coroutine, pc[a] \in Cleanup,
           \/ \E ok \in BOOLEAN : Return(a, ok)
           \/ \E l \in Cleanup : Continue(a, l)
           \/ Propagate(a) /\ UNCHANGED <<job, deletable>>
    PROVE  LeavingKeepsTypes
<1>1. job[a] \in Job
  BY DEF TypeOK, ControlOK, WorkerOK, ReaperOK, Actor, Coroutine, Cleanup
<1> QED BY <1>1, DeregisteredTyped DEF TypeOK, DataOK, Return, Continue, Propagate,
           DeletableAfter, LeavingKeepsTypes

(* Every step of _cleanup_remote keeps TypeOK. *)
LEMMA CleanupTyped ==
    ASSUME TypeOK, NEW a \in Coroutine, CleanupStep(a)
    PROVE  TypeOK'
<1>1. pc[a] \in Cleanup
  BY DEF CleanupStep, CleanupGet, LookUpFolder, AcquireForCleanup, RemoveFolder,
         PurgeSucceeds, PurgeFails, MarkCompleted, Cleanup
<1>2. job[a] \in Job
  BY <1>1 DEF TypeOK, ControlOK, WorkerOK, ReaperOK, Actor, Coroutine, Cleanup
<1>3. \/ UNCHANGED after /\ \E ok \in BOOLEAN : Return(a, ok)
      \/ UNCHANGED after /\ \E l \in Cleanup : Continue(a, l)
      \/ Propagate(a) /\ UNCHANGED <<job, deletable>>
  <2> USE DEF Cleanup
  <2>1. CASE CleanupGet(a)
    BY <2>1 DEF CleanupGet
  <2>2. CASE LookUpFolder(a) \/ AcquireForCleanup(a) \/ RemoveFolder(a)
    BY <2>2 DEF LookUpFolder, AcquireForCleanup, RemoveFolder
  <2>3. CASE PurgeSucceeds(a)
    BY <2>3, <1>1 DEF PurgeSucceeds, RemoveRaised, TypeOK, DataOK
  <2>4. CASE PurgeFails(a) \/ MarkCompleted(a)
    BY <2>4 DEF PurgeFails, MarkCompleted
  <2> QED BY <2>1, <2>2, <2>3, <2>4 DEF CleanupStep
<1>4. ControlOK'
  BY <1>1, <1>3, ReturnControl, ContinueControl, PropagateControl DEF TypeOK
<1>5. LeavingKeepsTypes
  BY <1>1, <1>3, LeavingTyped
<1>6. folder' \in [Job -> {"none", "live", "recycled", "purged"}]
  BY <1>2 DEF CleanupStep, CleanupGet, LookUpFolder, AcquireForCleanup, RemoveFolder, Recycled,
     PurgeSucceeds, PurgeFails, MarkCompleted, baidu, TypeOK, DataOK
<1>7. row' \in [Job -> Row]
  <2>1. CASE MarkCompleted(a)
    <3>1. [row[job[a]] EXCEPT !.cleanupCompleted = TRUE] \in Row
      <4>1. row[job[a]] \in Row
        BY <1>2 DEF TypeOK, DataOK
      <4> QED BY <4>1 DEF Row
    <3>2. row \in [Job -> Row] /\ Update(job[a], [row[job[a]] EXCEPT !.cleanupCompleted = TRUE])
      BY <2>1 DEF MarkCompleted, TypeOK, DataOK
    <3> QED BY <1>2, <3>1, <3>2, UpdateTyped
  <2>2. CASE UNCHANGED row
    BY <2>2 DEF TypeOK, DataOK
  <2> QED BY <2>1, <2>2 DEF CleanupStep, CleanupGet, LookUpFolder, AcquireForCleanup, RemoveFolder,
             PurgeSucceeds, PurgeFails, baidu
<1>8. lock' \in {lock, a, NoOne}
  BY DEF CleanupStep, CleanupGet, LookUpFolder, AcquireForCleanup, RemoveFolder,
     PurgeSucceeds, PurgeFails, MarkCompleted, Propagate, Freed, RemoveRaised,
     TypeOK, DataOK, baidu
<1>9. raised' \in [Coroutine -> {"none", "error", "cancel"}]
  BY DEF CleanupStep, CleanupGet, LookUpFolder, AcquireForCleanup, RemoveFolder,
     PurgeSucceeds, PurgeFails, MarkCompleted, TypeOK, DataOK
<1> QED BY <1>4, <1>5, <1>6, <1>7, <1>8, <1>9
        DEF TypeOK, DataOK, LeavingKeepsTypes, CleanupStep, process, calls

(* A cancellation that reaches its coroutine keeps TypeOK. *)
LEMMA ThrowTyped ==
    ASSUME TypeOK, NEW a \in Coroutine, Throw(a)
    PROVE  TypeOK'
<1>1. /\ thrown' \in [Coroutine -> BOOLEAN]
      /\ UNCHANGED <<mode, orphanLock, calls, sweep, job, row>>
      /\ late' \in [Job -> {"no", "pending", "executed"}]
  BY DEF Throw, GivesUp, TypeOK, DataOK
<1>2. CASE pc[a] = "t_upload"
  <2>1. a \in Worker /\ Moves(a) /\ job[a] # NoJob
    BY <1>2 DEF Throw, TypeOK, ControlOK, WorkerOK, ReaperOK, ReaperLabel, Cleanup, Moves,
       OthersKeep, Goto, Coroutine, Actor, WorkerLabel, Transfer
  <2> QED BY <1>1, <1>2, <2>1, MovesOK DEF Throw, TypeOK, DataOK, calls, sweep
<1>3. CASE pc[a] = "c_remove"
  <2>1. Goto(a, "c_purge") /\ UNCHANGED <<activeJobs, lock, after>> /\ UNCHANGED <<job, deletable>>
    BY <1>1, <1>3 DEF Throw, sweep
  <2>2. ControlOK'
    BY <1>3, <2>1, ContinueControl DEF TypeOK, Continue, Cleanup
  <2>3. job[a] \in Job
    BY <1>3 DEF TypeOK, ControlOK, WorkerOK, ReaperOK, Actor, Coroutine
  <2>4. /\ folder' \in [Job -> {"none", "live", "recycled", "purged"}]
        /\ raised' \in [Coroutine -> {"none", "error", "cancel"}]
    BY <1>3, <2>3 DEF Throw, Recycled, TypeOK, DataOK
  <2> QED BY <1>1, <2>1, <2>2, <2>4 DEF TypeOK, DataOK, calls, sweep
<1>4. CASE pc[a] \notin {"t_upload", "c_remove"}
  <2>1. Propagate(a) /\ UNCHANGED <<folder, raised>>
    BY <1>4 DEF Throw
  <2>2. ControlOK'
    BY <1>1, <2>1, PropagateControl DEF TypeOK
  <2>3. activeJobs' \in [Job -> Worker \cup {NoOne}] /\ lock' \in {lock, NoOne}
    BY <2>1, DeregisteredTyped DEF Propagate, Freed, TypeOK, DataOK
  <2> QED BY <1>1, <2>1, <2>2, <2>3 DEF TypeOK, DataOK, calls, sweep
<1> QED BY <1>2, <1>3, <1>4

(* The expiration loop keeps TypeOK. *)
LEMMA ReaperTyped ==
    ASSUME TypeOK, ReaperStep
    PROVE  TypeOK'
<1>1. LocalOK(Reaper)' /\ OthersKeep(Reaper)
  BY ActorAssumption, JobAssumption DEF ReaperStep, SelectExpired, CleanNext, DeleteRows, TypeOK,
     DataOK, ControlOK, LocalOK, ReaperOK, OthersKeep, Goto, Actor, Coroutine, ReaperLabel, Cleanup
<1>2. /\ pc' \in [Actor -> WorkerLabel \cup ReaperLabel \cup ClientLabel]
      /\ job' \in [Actor -> Job \cup {NoJob}] /\ UNCHANGED after
  BY DEF ReaperStep, SelectExpired, CleanNext, DeleteRows, TypeOK, DataOK, ControlOK, Goto,
     ReaperLabel, Cleanup
<1>3. ControlOK'
  BY <1>1, <1>2, ControlStep DEF TypeOK, ControlOK, Actor, Coroutine
<1>4. BlankRow("deleted") \in Row
  BY DEF BlankRow, Row, NoRow
<1>5. DataOK'
  BY <1>4 DEF ReaperStep, SelectExpired, CleanNext, DeleteRows, Expired, TypeOK, DataOK, baidu,
     process, calls
<1> QED BY <1>3, <1>5 DEF TypeOK

-----------------------------------------------------------------------------
(* Requests and the environment *)

(* Every step of create_job, select_items and cancel keeps TypeOK. *)
LEMMA RequestTyped ==
    ASSUME TypeOK, NEW c \in Client, Requests(RequestArrives(c)) \/ Requests(RequestGoesOn(c))
    PROVE  TypeOK'
<1> DEFINE Idle == pc' = [pc EXCEPT ![c] = "idle"] /\ job' = [job EXCEPT ![c] = NoJob]
           Stays == \E l \in ClientLabel : pc' = [pc EXCEPT ![c] = l]
           Busy == Stays /\ job[c] # NoJob /\ UNCHANGED job
           Picks == Stays /\ \E j \in Job : job' = [job EXCEPT ![c] = j]
<1> USE DEF ClientLabel
<1>1. ASSUME Requests(RequestArrives(c)) PROVE Picks /\ DataOK'
  <2>1. PICK j \in Job : Create(c, j) \/ ReadForSelection(c, j) \/ ReadForCancel(c, j)
    BY <1>1 DEF Requests, RequestArrives
  <2>2. Picks
    BY <2>1 DEF Create, ReadForSelection, ReadForCancel, Goto
  <2>3. DataOK'
    BY <1>1, <2>1 DEF Requests, Create, ReadForSelection, ReadForCancel, TypeOK, DataOK,
       process, sweep
  <2> QED BY <2>2, <2>3
<1>2. ASSUME Requests(RequestGoesOn(c)) PROVE (Idle \/ Busy) /\ DataOK'
  <2>1. job[c] \in Job
    BY <1>2 DEF Requests, RequestGoesOn, InsertRow, Put, CommitSelection, CommitCancel,
       DeliverCancel, TypeOK, ControlOK, ClientOK, Actor
  <2>2. Idle \/ Busy
    BY <1>2, <2>1, JobAssumption DEF Requests, RequestGoesOn, InsertRow, Put, CommitSelection,
       CommitCancel, DeliverCancel, Goto
  <2>3. row' \in [Job -> Row]
    <3>1. /\ BlankRow("queued_import") \in Row
          /\ [row[job[c]] EXCEPT !.cancelRequested = TRUE, !.state = "cancelled"] \in Row
      BY <2>1 DEF BlankRow, Row, JobState, ActiveStates, TERMINAL_JOB_STATES, TypeOK, DataOK
    <3>2. "queued_transfer" \in JobState
      BY DEF JobState, ActiveStates
    <3>3. CASE CommitSelection(c)
      BY <2>1, <3>2, <3>3, SetStateTyped DEF CommitSelection, TypeOK, DataOK
    <3>4. CASE CommitCancel(c)
      BY <2>1, <3>1, <3>4, UpdateTyped DEF CommitCancel, TypeOK, DataOK
    <3> QED BY <1>2, <2>1, <3>1, <3>3, <3>4 DEF Requests, RequestGoesOn, InsertRow, Put,
               DeliverCancel, TypeOK, DataOK
  <2>4. queue' \in Seq(Action \X Job)
    <3>1. queue' = queue \/ \E action \in Action : queue' = Append(queue, <<action, job[c]>>)
      BY <1>2 DEF Requests, RequestGoesOn, InsertRow, Put, CommitSelection, CommitCancel,
         DeliverCancel, Action
    <3>2. queue \in Seq(Action \X Job)
      BY DEF TypeOK, DataOK
    <3>3. \A x \in Action \X Job : Append(queue, x) \in Seq(Action \X Job)
      BY <3>2
    <3>4. \A action \in Action : <<action, job[c]>> \in Action \X Job
      BY <2>1
    <3> QED BY <3>1, <3>2, <3>3, <3>4
  <2>5. thrown' \in [Coroutine -> BOOLEAN] /\ sawAwaiting' \in [Client -> BOOLEAN]
    BY <1>2, <2>1 DEF Requests, RequestGoesOn, InsertRow, Put, CommitSelection, CommitCancel,
       DeliverCancel, TypeOK, DataOK, Coroutine
  <2>6. UNCHANGED <<folder, late, mode, orphanLock, activeJobs, lock, raised, expiredIds, deletable>>
    BY <1>2 DEF Requests, RequestGoesOn, InsertRow, Put, CommitSelection, CommitCancel,
       DeliverCancel, process, sweep
  <2> QED BY <2>2, <2>3, <2>4, <2>5, <2>6 DEF TypeOK, DataOK
<1>3. (Idle \/ Busy \/ Picks) /\ DataOK' /\ UNCHANGED after
  BY <1>1, <1>2 DEF Requests, process
<1>4. LocalOK(c)' /\ OthersKeep(c)
  BY <1>3, ActorAssumption, JobAssumption DEF TypeOK, ControlOK, LocalOK, ClientOK, OthersKeep,
     Actor, Coroutine
<1>5. /\ pc' \in [Actor -> WorkerLabel \cup ReaperLabel \cup ClientLabel]
      /\ job' \in [Actor -> Job \cup {NoJob}]
  BY <1>3 DEF TypeOK, ControlOK
<1> QED BY <1>3, <1>4, <1>5, ControlStep DEF TypeOK, ControlOK, Actor

(* The end of the process, by stop or by a crash, keeps TypeOK. *)
LEMMA EndTyped ==
    ASSUME TypeOK, Stopped \/ Crash
    PROVE  TypeOK'
<1>1. ProcessEnds /\ orphanLock' \in BOOLEAN /\ late' \in [Job -> {"no", "pending", "executed"}]
  BY DEF Stopped, Crash, TypeOK, DataOK
<1>2. DataOK'
  BY <1>1 DEF ProcessEnds, TypeOK, DataOK, baidu, Coroutine
<1>3. ControlOK'
  BY <1>1, ActorAssumption DEF ProcessEnds, NoTask, ControlOK, WorkerOK, ReaperOK, ClientOK, Actor,
     Coroutine, WorkerLabel, ReaperLabel, ClientLabel
<1> QED BY <1>2, <1>3 DEF TypeOK

(* start keeps TypeOK. *)
LEMMA StartTyped ==
    ASSUME TypeOK, Start
    PROVE  TypeOK'
<1> DEFINE interrupted == {j \in Job : row[j].state \in InterruptedStates}
<1>1. row' \in [Job -> Row]
  <2>1. \A j \in Job : [row[j] EXCEPT !.state = "failed"] \in Row
    <3>1. \A j \in Job : row[j] \in Row
      BY DEF TypeOK, DataOK
    <3> QED BY <3>1 DEF Row, JobState, TERMINAL_JOB_STATES
  <2> QED BY <2>1 DEF Start, TypeOK, DataOK
<1>2. queue' \in Seq(Action \X Job)
  <2>1. Cardinality(interrupted) \in Nat
    <3>1. IsFiniteSet(interrupted)
      BY JobAssumption, FS_Subset
    <3> QED BY <3>1, FS_CardinalityType
  <2>2. PICK order \in [1..Cardinality(interrupted) -> interrupted] :
           queue' = [i \in DOMAIN order |-> <<"cleanup", order[i]>>]
    BY DEF Start
  <2>3. queue' \in [1..Cardinality(interrupted) -> Action \X Job]
    BY <2>2 DEF Action
  <2>4. \A S, n : n \in Nat => \A f \in [1..n -> S] : f \in Seq(S)
    OBVIOUS
  <2> QED BY <2>1, <2>3, <2>4
<1>3. DataOK'
  BY <1>1, <1>2 DEF Start, TypeOK, DataOK, sweep
<1>4. ControlOK'
  BY ActorAssumption DEF Start, NoTask, TypeOK, ControlOK, WorkerOK, ReaperOK, ClientOK, Actor,
     Coroutine, WorkerLabel, ReaperLabel, ClientLabel
<1> QED BY <1>3, <1>4 DEF TypeOK

(* So do time, the expiry of the Redis key, and a stop that begins. *)
LEMMA EnvironmentTyped ==
    ASSUME TypeOK,
           (\E j \in Job : TimePasses(j) \/ LateMkdir(j)) \/ OrphanLockExpires \/ Stop
    PROVE  TypeOK'
<1>1. UNCHANGED <<pc, job, after>>
  BY DEF TimePasses, LateMkdir, OrphanLockExpires, Stop
<1>2. ControlOK'
  BY <1>1 DEF TypeOK, ControlOK, WorkerOK, ReaperOK, ClientOK
<1>3. row' \in [Job -> Row]
  <2>1. \A j \in Job : [row[j] EXCEPT !.expiry = "past"] \in Row
    BY DEF TypeOK, DataOK, Row
  <2> QED BY <2>1 DEF TimePasses, LateMkdir, OrphanLockExpires, Stop, baidu, TypeOK, DataOK
<1>4. DataOK'
  BY <1>3 DEF TimePasses, LateMkdir, OrphanLockExpires, Stop, TypeOK, DataOK, baidu, process,
     calls, sweep
<1> QED BY <1>2, <1>4 DEF TypeOK

-----------------------------------------------------------------------------
(* The service starts empty. *)
LEMMA TypeAtStart ==
    ASSUME Init
    PROVE  TypeOK
<1>1. BlankRow("absent") \in Row
  BY DEF BlankRow, Row, NoRow
<1>2. DataOK
  <2>1. queue \in Seq(Action \X Job)
    BY DEF Init
  <2> QED BY <1>1, <2>1 DEF Init, DataOK
<1>3. ControlOK
  BY ActorAssumption DEF Init, NoTask, ControlOK, WorkerOK, ReaperOK, ClientOK, Actor,
     Coroutine, WorkerLabel, ReaperLabel, ClientLabel
<1> QED BY <1>2, <1>3 DEF TypeOK

(* Whatever fails, is cancelled or crashes, every coroutine of jobs.py is  *)
(* at an await of its own and the rows hold states of JobState: TypeOK is  *)
(* an invariant for any number of jobs, workers and requests.              *)
THEOREM TypeCorrect == Spec => []TypeOK
<1>1. Init => TypeOK
  BY TypeAtStart
<1>2. TypeOK /\ [Next]_vars => TypeOK'
  <2> SUFFICES ASSUME TypeOK, [Next]_vars PROVE TypeOK'
    OBVIOUS
  <2>1. ASSUME NEW w \in Worker, WorkerStep(w) PROVE TypeOK'
    <3>1. CASE ActionStep(w)
      BY <3>1, ActionControl, ActionData DEF TypeOK
    <3> QED BY <2>1, <3>1, CallFailsTyped, LoopTyped DEF WorkerStep
  <2>2. ASSUME NEW a \in Coroutine, CleanupStep(a) \/ Throw(a) PROVE TypeOK'
    BY <2>2, CleanupTyped, ThrowTyped
  <2>3. ASSUME NEW c \in Client, Requests(RequestArrives(c)) \/ Requests(RequestGoesOn(c))
        PROVE  TypeOK'
    BY <2>3, RequestTyped
  <2>4. CASE ReaperStep
    BY <2>4, ReaperTyped
  <2>5. CASE (\E j \in Job : TimePasses(j) \/ LateMkdir(j)) \/ OrphanLockExpires \/ Stop
    BY <2>5, EnvironmentTyped
  <2>6. CASE Stopped \/ Crash \/ Start
    BY <2>6, EndTyped, StartTyped
  <2>7. CASE UNCHANGED vars
    BY <2>7 DEF vars, TypeOK, DataOK, ControlOK, WorkerOK, ReaperOK, ClientOK
  <2> QED BY <2>1, <2>2, <2>3, <2>4, <2>5, <2>6, <2>7 DEF Next
<1> QED BY <1>1, <1>2, PTL DEF Spec

-----------------------------------------------------------------------------
(* The lock.  A step of one coroutine keeps MutationExclusive when it      *)
(* leaves its own lock and label in agreement and nobody else's lock is    *)
(* touched: it is only taken from LockFree and only freed by its holder.   *)
LEMMA LockStep ==
    ASSUME TypeOK, MutationExclusive, NEW a \in Coroutine,
           \A b \in Coroutine \ {a} : pc'[b] = pc[b],
           lock' \in {lock, a, NoOne}, lock' = lock \/ lock \in {a, NoOne},
           lock' = a <=> pc'[a] \in InLock,
           UNCHANGED orphanLock, lock' = lock \/ lock' = NoOne \/ ~orphanLock
    PROVE  MutationExclusive'
BY ActorAssumption DEF MutationExclusive, TypeOK, DataOK, Actor, Coroutine

(* Actions enter and leave the locked labels with the lock. *)
LEMMA ActionExclusive ==
    ASSUME TypeOK, MutationExclusive, NEW w \in Worker, ActionStep(w) \/ CallFails(w)
    PROVE  MutationExclusive'
<1> USE DEF InLock, Goto, TypeOK, DataOK, ControlOK, Actor, Coroutine
<1>1. \A b \in Coroutine \ {w} : pc'[b] = pc[b]
  BY DEF ActionStep, CallFails, ImportGet, SetImporting, AcquireForImport, CheckCancelled,
         QuitCancelled, Mkdir, ImportShare, ScanTree, StoreItems, TransferGet,
         SetTransferring, Locate, Upload, CancelInside, SetCleaning, StoreResult,
         Handle, Proceed, Raise
<1>2. lock = w <=> pc[w] \in InLock
  BY DEF MutationExclusive
<1>3. /\ lock' \in {lock, w, NoOne} /\ (lock' = lock \/ lock \in {w, NoOne})
      /\ lock' = w <=> pc'[w] \in InLock
  <2> USE <1>2, ActorAssumption DEF Proceed, Raise, Freed
  <2>1. CASE ImportGet(w) \/ SetImporting(w)
    BY <2>1 DEF ImportGet, SetImporting
  <2>2. CASE CheckCancelled(w)
    <3>2. CASE pc[w] = "i_check"
      <4>1. Raise(w) \/ Proceed(w, "i_drop") \/ Proceed(w, "i_mkdir")
        BY <2>2, <3>2 DEF CheckCancelled
      <4> QED BY <3>2, <4>1
    <3>3. CASE pc[w] = "i_check2"
      <4>1. Raise(w) \/ Proceed(w, "x_cancel") \/ Proceed(w, "i_scan")
        BY <2>2, <3>3 DEF CheckCancelled
      <4> QED BY <3>3, <4>1
    <3> QED BY <2>2, <3>2, <3>3 DEF CheckCancelled
  <2>3. CASE AcquireForImport(w)
    BY <2>3 DEF AcquireForImport, LockFree
  <2>4. CASE QuitCancelled(w) \/ Mkdir(w) \/ ImportShare(w) \/ ScanTree(w) \/ StoreItems(w)
    BY <2>4 DEF QuitCancelled, Mkdir, ImportShare, ScanTree, StoreItems
  <2>5. CASE TransferGet(w) \/ SetTransferring(w) \/ Locate(w) \/ Upload(w)
    BY <2>5 DEF TransferGet, SetTransferring, Locate, Upload
  <2>6. CASE CancelInside(w) \/ SetCleaning(w) \/ StoreResult(w) \/ Handle(w)
    BY <2>6 DEF CancelInside, SetCleaning, StoreResult, Handle, Handler
  <2>7. CASE CallFails(w)
    BY <2>7 DEF CallFails
  <2> QED BY <2>1, <2>2, <2>3, <2>4, <2>5, <2>6, <2>7 DEF ActionStep
<1>4. UNCHANGED orphanLock
  BY DEF ActionStep, CallFails, process
<1>5. lock' = lock \/ lock' = NoOne \/ ~orphanLock
  BY DEF ActionStep, CallFails, ImportGet, SetImporting, AcquireForImport, LockFree, CheckCancelled,
         QuitCancelled, Mkdir, ImportShare, ScanTree, StoreItems, TransferGet,
         SetTransferring, Locate, Upload, CancelInside, SetCleaning, StoreResult,
         Handle, Proceed, Raise, Freed
<1> QED BY <1>1, <1>3, <1>4, <1>5, LockStep

(* Actions begin and end without it. *)
LEMMA LoopExclusive ==
    ASSUME TypeOK, MutationExclusive, NEW w \in Worker, TakeAction(w) \/ ActionEnds(w)
    PROVE  MutationExclusive'
<1>1. pc[w] \notin InLock /\ pc'[w] \notin InLock /\ UNCHANGED lock
  <2>1. CASE TakeAction(w)
    <3>1. Head(queue)[1] \in Action
      BY <2>1 DEF TakeAction, TypeOK, DataOK
    <3> QED BY <2>1, <3>1 DEF TakeAction, FirstLabel, Action, InLock, Goto, TypeOK, ControlOK,
               Actor, Coroutine
  <2>2. CASE ActionEnds(w)
    BY <2>2 DEF ActionEnds, InLock, Goto, TypeOK, ControlOK, Actor, Coroutine
  <2> QED BY <2>1, <2>2
<1>2. \A b \in Coroutine \ {w} : pc'[b] = pc[b]
  BY DEF TakeAction, ActionEnds, Goto, TypeOK, ControlOK, Actor, Coroutine
<1>3. UNCHANGED orphanLock
  BY DEF TakeAction, ActionEnds, process
<1> QED BY <1>1, <1>2, <1>3, LockStep DEF MutationExclusive, Coroutine

(* _cleanup_remote holds it exactly while it removes and purges. *)
LEMMA CleanupExclusive ==
    ASSUME TypeOK, MutationExclusive, NEW a \in Coroutine, CleanupStep(a) \/ Throw(a)
    PROVE  MutationExclusive'
<1> USE DEF InLock, Goto, TypeOK, ControlOK, Actor, Coroutine
<1>1. \A b \in Coroutine \ {a} : pc'[b] = pc[b]
  BY DEF CleanupStep, CleanupGet, LookUpFolder, AcquireForCleanup, RemoveFolder, PurgeSucceeds,
     PurgeFails, MarkCompleted, Throw, Propagate, Return, Continue, RemoveRaised, DataOK
<1>2. (lock = a <=> pc[a] \in InLock) /\ after[a] \notin InLock
  BY DEF MutationExclusive
<1>3. /\ lock' \in {lock, a, NoOne} /\ (lock' = lock \/ lock \in {a, NoOne})
      /\ lock' = a <=> pc'[a] \in InLock
  <2> USE <1>2, ActorAssumption DEF Return, Continue, Propagate, Freed
  <2>1. CASE CleanupGet(a)
    BY <2>1 DEF CleanupGet
  <2>2. CASE LookUpFolder(a)
    BY <2>2 DEF LookUpFolder
  <2>3. CASE AcquireForCleanup(a)
    BY <2>3 DEF AcquireForCleanup, LockFree
  <2>4. CASE RemoveFolder(a)
    BY <2>4 DEF RemoveFolder
  <2>5. CASE PurgeSucceeds(a)
    <3>1. \/ Continue(a, "c_mark") /\ lock' = Freed(a)
          \/ Return(a, FALSE) /\ lock' = Freed(a)
          \/ Propagate(a)
      BY <2>5 DEF PurgeSucceeds, RemoveRaised, DataOK
    <3> QED BY <2>5, <3>1 DEF PurgeSucceeds
  <2>6. CASE PurgeFails(a) \/ MarkCompleted(a)
    BY <2>6 DEF PurgeFails, MarkCompleted
  <2>7. CASE Throw(a)
    BY <2>7 DEF Throw
  <2> QED BY <2>1, <2>2, <2>3, <2>4, <2>5, <2>6, <2>7 DEF CleanupStep
<1>4. UNCHANGED orphanLock
  BY DEF CleanupStep, Throw, process
<1>5. lock' = lock \/ lock' = NoOne \/ ~orphanLock
  BY DEF CleanupStep, CleanupGet, LookUpFolder, AcquireForCleanup, LockFree, RemoveFolder,
     PurgeSucceeds, PurgeFails, MarkCompleted, Throw, Propagate, Freed, RemoveRaised, DataOK
<1> QED BY <1>1, <1>3, <1>4, <1>5, LockStep

(* No two coroutines import or remove folders at Baidu at the same time,   *)
(* nor while Redis has the key of a process that died, and every way out   *)
(* of the critical section, by return, Exception or CancelledError, gives  *)
(* the lock back.                                                          *)
THEOREM MutationIsExclusive == Spec => []MutationExclusive
<1>1. Init => MutationExclusive
  BY ActorAssumption DEF Init, MutationExclusive, InLock, Coroutine, Actor
<1>2. TypeOK /\ MutationExclusive /\ [Next]_vars => MutationExclusive'
  <2> SUFFICES ASSUME TypeOK, MutationExclusive, [Next]_vars PROVE MutationExclusive'
    OBVIOUS
  <2>1. ASSUME NEW w \in Worker, WorkerStep(w) PROVE MutationExclusive'
    BY <2>1, ActionExclusive, LoopExclusive DEF WorkerStep
  <2>2. ASSUME NEW a \in Coroutine, CleanupStep(a) \/ Throw(a) PROVE MutationExclusive'
    BY <2>2, CleanupExclusive
  <2>3. ASSUME NEW c \in Client, Requests(RequestArrives(c)) \/ Requests(RequestGoesOn(c))
        PROVE  MutationExclusive'
    <3>1. UNCHANGED <<lock, orphanLock>> /\ \A a \in Coroutine : pc'[a] = pc[a]
      BY <2>3, ActorAssumption DEF Requests, process, RequestArrives, RequestGoesOn, Create,
         ReadForSelection, ReadForCancel, InsertRow, Put, CommitSelection, CommitCancel,
         DeliverCancel, Goto, TypeOK, ControlOK, Actor, Coroutine
    <3> QED BY <3>1 DEF MutationExclusive
  <2>4. CASE ReaperStep
    <3>1. UNCHANGED <<lock, orphanLock>> /\ pc[Reaper] \notin InLock /\ pc'[Reaper] \notin InLock
          /\ \A a \in Coroutine \ {Reaper} : pc'[a] = pc[a]
      BY <2>4 DEF ReaperStep, process, SelectExpired, CleanNext, DeleteRows, InLock, Goto, TypeOK,
         ControlOK, Actor, Coroutine
    <3> QED BY <3>1 DEF MutationExclusive
  <2>5. CASE UNCHANGED <<lock, pc>> /\ orphanLock' \in {orphanLock, FALSE}
    BY <2>5 DEF MutationExclusive
  <2>6. CASE Stopped \/ Crash \/ Start
    BY <2>6, ActorAssumption DEF Stopped, Crash, Start, ProcessEnds, MutationExclusive, InLock,
       Actor, Coroutine
  <2> QED BY <2>1, <2>2, <2>3, <2>4, <2>5, <2>6
          DEF Next, TimePasses, LateMkdir, OrphanLockExpires, Stop, vars, process
<1> QED BY <1>1, <1>2, TypeCorrect, PTL DEF Spec

-----------------------------------------------------------------------------
(* Who is at a job *)

USE ActorAssumption, JobAssumption

(* A job that nobody has asked to cancel. *)
Live(j) == Exists(j) /\ ~row[j].cancelRequested

(* An entry of active_jobs leads to a worker at that very job.             *)
ActiveIsBusy == \A w \in Worker, j \in Job :
    activeJobs[j] = w => job[w] = j /\ pc[w] \notin {"w_get", "off"}

(* Nobody knows a job before its row exists, but the request that is about *)
(* to insert it.                                                           *)
Untouched == \A j \in Job : row[j].state = "absent" =>
    /\ folder[j] = "none" /\ late[j] = "no" /\ activeJobs[j] = NoOne
    /\ \A a \in Coroutine : job[a] # j
    /\ \A c \in Client : job[c] = j => pc[c] = "insert"
    /\ \A i \in 1..Len(queue) : queue[i][2] # j
    /\ j \notin expiredIds \cup deletable

Inserting == \A c \in Client : pc[c] = "insert" =>
    /\ row[job[c]].state = "absent"
    /\ \A d \in Client : job[d] = job[c] => d = c

(* While the service is up, a CancelledError is on its way only into an    *)
(* action whose job is to be cancelled.                                    *)
CancelHeld ==
    /\ \A c \in Client : pc[c] = "deliver" => ~Live(job[c])
    /\ mode = "up" => ~thrown[Reaper]
    /\ \A w \in Worker :
        /\ mode = "up" /\ thrown[w] => InTask(w) /\ ~Live(job[w])
        /\ mode = "up" /\ pc[w] \in {"c_remove", "c_purge"} /\ raised[w] = "cancel" => ~Live(job[w])
        /\ pc[w] = "h_cancel" => ~Live(job[w])

(* A process that is not running knows no job. *)
Down == mode = "down" =>
    /\ queue = <<>> /\ expiredIds = {} /\ deletable = {}
    /\ \A a \in Actor : job[a] = NoJob /\ pc[a] \in {"off", "idle"}
    /\ \A a \in Coroutine : ~thrown[a]
    /\ \A c \in Client : ~sawAwaiting[c]

Base == TypeOK /\ ActiveIsBusy /\ Untouched /\ Inserting /\ CancelHeld /\ Down

-----------------------------------------------------------------------------
(* What the steps of a coroutine do to the other parts of the state. *)

(* A row keeps everything but its state and expiry, and no row comes or    *)
(* goes.                                                                   *)
Rewritten(j) ==
    /\ \A k \in Job \ {j} : row'[k] = row[k]
    /\ row'[j].cancelRequested = row[j].cancelRequested
    /\ row'[j].cleanupCompleted = row[j].cleanupCompleted
    /\ row'[j] = row[j] \/ (Exists(j) /\ row'[j].state \in JobState)

(* A step of an action or of the handlers. *)
ActionEffect(w) ==
    /\ job[w] \in Job /\ pc[w] \in Import \cup Transfer \cup Handler
    /\ OthersKeep(w) /\ UNCHANGED job
    /\ pc'[w] \in WorkerLabel \ {"w_get", "off", "h_cancel", "c_remove", "c_purge"}
    /\ UNCHANGED <<mode, queue, activeJobs, thrown, raised, sawAwaiting, expiredIds, deletable>>
    /\ ~thrown[w] /\ Rewritten(job[w])
    /\ \A k \in Job \ {job[w]} : folder'[k] = folder[k] /\ late'[k] = late[k]

LEMMA ActionEffects ==
    ASSUME TypeOK, NEW w \in Worker, ActionStep(w) \/ CallFails(w)
    PROVE  ActionEffect(w)
<1>1. pc[w] \in Import \cup Transfer \cup Handler
  BY DEF ActionStep, CallFails, ImportGet, SetImporting, AcquireForImport, CheckCancelled,
         QuitCancelled, Mkdir, ImportShare, ScanTree, StoreItems, TransferGet,
         SetTransferring, Locate, Upload, CancelInside, SetCleaning, StoreResult,
         Handle, Handler, Import, Transfer
<1>2. job[w] \in Job
  BY <1>1 DEF TypeOK, ControlOK, WorkerOK, Actor, Coroutine, Import, Transfer, Handler
<1>3. UNCHANGED <<mode, queue, activeJobs, job, thrown, raised, sawAwaiting, expiredIds, deletable>>
      /\ ~thrown[w]
  BY DEF ActionStep, CallFails, process, calls, sweep
<1>4. OthersKeep(w) /\ pc'[w] \in WorkerLabel \ {"w_get", "off", "h_cancel", "c_remove", "c_purge"}
  <2> USE <1>2, <1>3 DEF OthersKeep, Goto, Raise, Proceed, TypeOK, ControlOK, Actor, Coroutine,
           WorkerLabel, Import, Transfer, Handler, Cleanup
  <2>1. CASE ImportGet(w) \/ SetImporting(w) \/ AcquireForImport(w)
    BY <2>1 DEF ImportGet, SetImporting, AcquireForImport
  <2>6. CASE CheckCancelled(w)
    <3>1. \/ Raise(w)
          \/ \E l \in {"i_drop", "x_cancel", "i_mkdir", "i_scan"} : Proceed(w, l)
      BY <2>6 DEF CheckCancelled
    <3> QED BY <3>1
  <2>2. CASE QuitCancelled(w) \/ Mkdir(w) \/ ImportShare(w) \/ ScanTree(w) \/ StoreItems(w)
    BY <2>2 DEF QuitCancelled, Mkdir, ImportShare, ScanTree, StoreItems
  <2>3. CASE TransferGet(w) \/ SetTransferring(w) \/ Locate(w) \/ Upload(w)
    BY <2>3 DEF TransferGet, SetTransferring, Locate, Upload
  <2>4. CASE CancelInside(w) \/ SetCleaning(w) \/ StoreResult(w) \/ Handle(w)
    BY <2>4 DEF CancelInside, SetCleaning, StoreResult, Handle
  <2>5. CASE CallFails(w)
    BY <2>5 DEF CallFails
  <2> QED BY <2>1, <2>2, <2>3, <2>4, <2>5, <2>6 DEF ActionStep
<1>5. Rewritten(job[w])
  <2>1. row \in [Job -> Row] /\ row[job[w]] \in Row
    BY <1>2 DEF TypeOK, DataOK
  <2>2. ASSUME NEW r \in Row, r.state \in JobState, r.cancelRequested = row[job[w]].cancelRequested,
               r.cleanupCompleted = row[job[w]].cleanupCompleted, Update(job[w], r)
        PROVE  Rewritten(job[w])
    BY <1>2, <2>1, <2>2 DEF Update, Rewritten
  <2>3. ASSUME NEW s \in JobState, SetState(job[w], s) PROVE Rewritten(job[w])
    BY <2>1, <2>2, <2>3 DEF SetState, Row
  <2>4. {"importing", "cleaning", "transferring", "cancelled", "failed", "completed",
         "awaiting_selection"} \subseteq JobState
    BY DEF JobState, ActiveStates, TERMINAL_JOB_STATES
  <2>5. CASE StoreItems(w) \/ StoreResult(w) \/ Handle(w)
    BY <2>1, <2>2, <2>3, <2>4, <2>5 DEF StoreItems, StoreResult, Handle, Row
  <2>6. CASE SetImporting(w) \/ SetTransferring(w) \/ CancelInside(w) \/ SetCleaning(w)
             \/ QuitCancelled(w) \/ CallFails(w)
    <3>1. CASE UNCHANGED row
      BY <3>1 DEF Rewritten
    <3> QED BY <2>3, <2>4, <2>6, <3>1 DEF SetImporting, SetTransferring, CancelInside, SetCleaning,
                            QuitCancelled, CleaningState, CallFails
  <2>7. CASE UNCHANGED row
    BY <2>7 DEF Rewritten
  <2> QED BY <2>5, <2>6, <2>7 DEF ActionStep, ImportGet, AcquireForImport,
             CheckCancelled, Mkdir, ImportShare, ScanTree, TransferGet, Locate, Upload, baidu
<1>6. \A k \in Job \ {job[w]} : folder'[k] = folder[k]
  BY <1>2 DEF ActionStep, CallFails, ImportGet, SetImporting, AcquireForImport, CheckCancelled,
         QuitCancelled, Mkdir, ImportShare, ScanTree, StoreItems, TransferGet,
         SetTransferring, Locate, Upload, CancelInside, SetCleaning, StoreResult,
         Handle, baidu, TypeOK, DataOK
<1>7. \A k \in Job \ {job[w]} : late'[k] = late[k]
  BY DEF ActionStep, CallFails, GivesUp, process, TypeOK, DataOK
<1> QED BY <1>1, <1>2, <1>3, <1>4, <1>5, <1>6, <1>7 DEF ActionEffect

(* Outside the loop of a worker, or the idle state of a request, there is  *)
(* a job.                                                                  *)
LEMMA AtJob ==
    ASSUME TypeOK
    PROVE  /\ \A w \in Worker : pc[w] \notin {"w_get", "off"} \/ InTask(w) => job[w] \in Job
           /\ \A c \in Client : pc[c] # "idle" => job[c] \in Job
BY DEF TypeOK, ControlOK, WorkerOK, ClientOK, InTask, Actor, Coroutine

(* The step keeps what holds of Base whatever the action is. *)
LEMMA ActionBase ==
    ASSUME Base, TypeOK', NEW w \in Worker, ActionStep(w) \/ CallFails(w)
    PROVE  Base'
<1>1. ActionEffect(w)
  BY ActionEffects DEF Base
<1>2. ActiveIsBusy'
  BY <1>1 DEF Base, ActiveIsBusy, ActionEffect, OthersKeep, Actor, Coroutine
<1>3. Untouched' /\ Inserting'
  <2>1. row[job[w]].state # "absent" /\ row'[job[w]].state # "absent"
    BY <1>1 DEF Base, Untouched, ActionEffect, Rewritten, Exists, JobState, ActiveStates,
       TERMINAL_JOB_STATES, Coroutine
  <2>2. \A c \in Client : pc'[c] = pc[c] /\ job'[c] = job[c]
    BY <1>1 DEF ActionEffect, OthersKeep, Actor
  <2>3. Untouched'
    BY <1>1, <2>1, <2>2 DEF Base, Untouched, ActionEffect, Rewritten
  <2>4. Inserting'
    <3>1. \A c \in Client : pc[c] = "insert" => job[c] \in Job
      BY DEF Base, TypeOK, ControlOK, ClientOK, Actor
    <3> QED BY <1>1, <2>1, <2>2, <3>1 DEF Base, Inserting, ActionEffect, Rewritten
  <2> QED BY <2>3, <2>4
<1>4. CancelHeld'
  <2>1. \A j \in Job : Live(j)' => Live(j)
    BY <1>1 DEF ActionEffect, Rewritten, Live, Exists
  <2>2. \A c \in Client : pc'[c] = pc[c] /\ job'[c] = job[c]
    BY <1>1 DEF ActionEffect, OthersKeep, Actor
  <2>3. ASSUME NEW v \in Worker \ {w}
        PROVE  /\ pc'[v] = pc[v] /\ job'[v] = job[v] /\ after'[v] = after[v]
               /\ thrown'[v] = thrown[v] /\ raised'[v] = raised[v]
    BY <1>1 DEF ActionEffect, OthersKeep, Actor, Coroutine
  <2> QED BY <1>1, <2>1, <2>2, <2>3, AtJob DEF Base, CancelHeld, ActionEffect, InTask, Coroutine
<1>5. Down'
  BY <1>1 DEF Base, Down, ActionEffect, Actor, Coroutine, Import, Transfer, Handler
<1> QED BY <1>2, <1>3, <1>4, <1>5 DEF Base

(* A coroutine in _cleanup_remote goes on, returns to its caller, or is    *)
(* left by a CancelledError.                                               *)
Stays(a) == pc'[a] \in Cleanup /\ UNCHANGED <<job, after, activeJobs>>
Returns(a) ==
    /\ pc'[a] = after[a] /\ UNCHANGED after
    /\ after[a] # "w_get" => UNCHANGED <<job, activeJobs>>
    /\ after[a] = "w_get" => job'[a] = NoJob /\ activeJobs' = Deregistered(a)
Leaves(a) ==
    /\ UNCHANGED job
    /\ \/ mode = "up" /\ InTask(a) /\ pc'[a] = "h_cancel" /\ after'[a] = "w_get" /\ UNCHANGED activeJobs
       \/ ~(mode = "up" /\ InTask(a)) /\ pc'[a] = "off" /\ activeJobs' = Deregistered(a)
          /\ after'[a] = IF InTask(a) THEN "w_get" ELSE after[a]

CleanupEffect(a) ==
    /\ job[a] \in Job /\ pc[a] \in Cleanup /\ ~thrown[a]
    /\ OthersKeep(a) /\ UNCHANGED <<late, mode, queue, thrown, sawAwaiting, expiredIds>>
    /\ Stays(a) \/ Returns(a) \/ (Leaves(a) /\ pc[a] = "c_purge" /\ raised[a] = "cancel")
    /\ pc'[a] \in {"c_remove", "c_purge"} /\ raised'[a] = "cancel"
          => pc[a] = "c_remove" /\ raised[a] = "cancel"
    /\ \A b \in Coroutine \ {a} : raised'[b] = raised[b]
    /\ \/ UNCHANGED row
       \/ /\ pc[a] = "c_mark" /\ Exists(job[a])
          /\ row' = [row EXCEPT ![job[a]].cleanupCompleted = TRUE]
    /\ \/ UNCHANGED deletable
       \/ a = Reaper /\ deletable' = deletable \cup {job[a]}
    /\ \A k \in Job \ {job[a]} : folder'[k] = folder[k]

LEMMA CleanupEffects ==
    ASSUME TypeOK, NEW a \in Coroutine, CleanupStep(a)
    PROVE  CleanupEffect(a)
<1>1. pc[a] \in Cleanup
  BY DEF CleanupStep, CleanupGet, LookUpFolder, AcquireForCleanup, RemoveFolder,
         PurgeSucceeds, PurgeFails, MarkCompleted, Cleanup
<1>2. job[a] \in Job
  BY <1>1 DEF TypeOK, ControlOK, WorkerOK, ReaperOK, Actor, Coroutine, Cleanup
<1>3. ~thrown[a] /\ UNCHANGED <<late, mode, queue, thrown, sawAwaiting, expiredIds>>
  BY DEF CleanupStep, process, calls
<1>4. ASSUME NEW l \in Cleanup, Continue(a, l), UNCHANGED after
      PROVE  OthersKeep(a) /\ pc'[a] = l /\ Stays(a) /\ UNCHANGED deletable
  BY <1>4 DEF Continue, OthersKeep, Goto, Stays, TypeOK, ControlOK, Actor
<1>5. ASSUME NEW ok \in BOOLEAN, Return(a, ok), UNCHANGED after
      PROVE  OthersKeep(a) /\ Returns(a) /\ pc'[a] \notin {"c_remove", "c_purge"}
             /\ (deletable' = deletable \/ (a = Reaper /\ deletable' = deletable \cup {job[a]}))
  BY <1>5 DEF Return, OthersKeep, Goto, Returns, DeletableAfter, TypeOK, ControlOK, Actor
<1>6. ASSUME Propagate(a), UNCHANGED <<job, deletable>>
      PROVE  OthersKeep(a) /\ Leaves(a) /\ pc'[a] \notin {"c_remove", "c_purge"}
  BY <1>6 DEF Propagate, OthersKeep, Goto, Leaves, InTask, TypeOK, ControlOK, Actor, Coroutine
<1>7. \A k \in Job \ {job[a]} : folder'[k] = folder[k]
  BY <1>2 DEF CleanupStep, CleanupGet, LookUpFolder, AcquireForCleanup, RemoveFolder, Recycled,
     PurgeSucceeds, PurgeFails, MarkCompleted, baidu, TypeOK, DataOK
<1>8. \/ UNCHANGED row
      \/ /\ pc[a] = "c_mark" /\ Exists(job[a])
         /\ row' = [row EXCEPT ![job[a]].cleanupCompleted = TRUE]
  <2>1. CASE MarkCompleted(a)
    BY <1>2, <2>1 DEF MarkCompleted, Update, TypeOK, DataOK
  <2> QED BY <2>1 DEF CleanupStep, CleanupGet, LookUpFolder, AcquireForCleanup, RemoveFolder,
             PurgeSucceeds, PurgeFails, baidu
<1>9. /\ OthersKeep(a)
      /\ Stays(a) \/ Returns(a) \/ (Leaves(a) /\ pc[a] = "c_purge" /\ raised[a] = "cancel")
      /\ \/ UNCHANGED deletable
         \/ a = Reaper /\ deletable' = deletable \cup {job[a]}
      /\ pc'[a] \in {"c_remove", "c_purge"} => pc[a] \in {"c_lock", "c_remove"}
  <2> USE DEF Cleanup
  <2>1. CASE CleanupGet(a)
    BY <2>1, <1>4, <1>5 DEF CleanupGet, TypeOK, ControlOK, Actor
  <2>2. CASE LookUpFolder(a) \/ AcquireForCleanup(a) \/ RemoveFolder(a)
    BY <2>2, <1>4, <1>5 DEF LookUpFolder, AcquireForCleanup, RemoveFolder
  <2>3. CASE PurgeSucceeds(a)
    BY <2>3, <1>4, <1>5, <1>6 DEF PurgeSucceeds, RemoveRaised, TypeOK, DataOK
  <2>4. CASE PurgeFails(a) \/ MarkCompleted(a)
    BY <2>4, <1>5 DEF PurgeFails, MarkCompleted
  <2> QED BY <2>1, <2>2, <2>3, <2>4 DEF CleanupStep
<1>10. \A b \in Coroutine \ {a} : raised'[b] = raised[b]
  BY DEF CleanupStep, CleanupGet, LookUpFolder, AcquireForCleanup, RemoveFolder,
     PurgeSucceeds, PurgeFails, MarkCompleted, TypeOK, DataOK
<1>11. /\ pc[a] = "c_remove" => raised'[a] \in {raised[a], "error"}
       /\ pc[a] = "c_lock" => raised'[a] = "none" \/ pc'[a] \notin {"c_remove", "c_purge"}
  BY <1>5 DEF CleanupStep, CleanupGet, LookUpFolder, AcquireForCleanup, RemoveFolder,
     PurgeSucceeds, PurgeFails, MarkCompleted, TypeOK, DataOK
<1> QED BY <1>1, <1>2, <1>3, <1>7, <1>8, <1>9, <1>10, <1>11 DEF CleanupEffect

(* A cancellation that arrives. *)
ThrowEffect(a) ==
    /\ job[a] \in Job \/ pc[a] \in {"w_get", "off", "r_sleep", "r_next"}
    /\ thrown[a] /\ thrown' = [thrown EXCEPT ![a] = FALSE]
    /\ OthersKeep(a) /\ UNCHANGED <<row, job, mode, queue, sawAwaiting, expiredIds, deletable>>
    /\ \/ pc[a] = "t_upload" /\ pc'[a] = "x_cancel" /\ UNCHANGED <<folder, raised, after, activeJobs>>
       \/ /\ pc[a] = "c_remove" /\ pc'[a] = "c_purge" /\ UNCHANGED <<after, activeJobs>>
          /\ raised' = [raised EXCEPT ![a] = "cancel"]
          /\ folder' \in {folder, Recycled(job[a])}
       \/ pc[a] \notin {"t_upload", "c_remove"} /\ Leaves(a) /\ UNCHANGED <<folder, raised>>
    /\ GivesUp(a)

LEMMA ThrowEffects ==
    ASSUME TypeOK, NEW a \in Coroutine, Throw(a)
    PROVE  ThrowEffect(a)
<1>1. job[a] \in Job \/ pc[a] \in {"w_get", "off", "r_sleep", "r_next"}
  BY DEF TypeOK, ControlOK, WorkerOK, ReaperOK, Actor, Coroutine
<1>2. /\ thrown[a] /\ thrown' = [thrown EXCEPT ![a] = FALSE]
      /\ UNCHANGED <<row, job, mode, queue, sawAwaiting, expiredIds, deletable>> /\ GivesUp(a)
  BY DEF Throw, calls, sweep
<1>3. ASSUME Propagate(a), UNCHANGED <<folder, raised>> PROVE OthersKeep(a) /\ Leaves(a)
  BY <1>2, <1>3 DEF Propagate, OthersKeep, Goto, Leaves, InTask, TypeOK, ControlOK, Actor, Coroutine
<1>4. ASSUME NEW l, Goto(a, l), UNCHANGED after PROVE OthersKeep(a) /\ pc'[a] = l
  BY <1>2, <1>4 DEF OthersKeep, Goto, TypeOK, ControlOK, Actor, Coroutine
<1>5. CASE pc[a] = "t_upload"
  BY <1>1, <1>2, <1>4, <1>5 DEF Throw, ThrowEffect
<1>6. CASE pc[a] = "c_remove"
  BY <1>1, <1>2, <1>4, <1>6 DEF Throw, ThrowEffect
<1>7. CASE pc[a] \notin {"t_upload", "c_remove"}
  BY <1>1, <1>2, <1>3, <1>7 DEF Throw, ThrowEffect
<1> QED BY <1>5, <1>6, <1>7

-----------------------------------------------------------------------------
(* Base is an invariant. *)

(* Dropping an entry drops only those of the coroutine's own job. *)
LEMMA DeregisteredFacts ==
    ASSUME TypeOK, NEW a \in Coroutine, activeJobs' = Deregistered(a)
    PROVE  /\ \A j \in Job : activeJobs'[j] \in {activeJobs[j], NoOne}
           /\ \A j \in Job : activeJobs'[j] # activeJobs[j] => j = job[a] /\ activeJobs[j] = a
           /\ job[a] \in Job => activeJobs'[job[a]] # a
<1>1. a # NoOne
  BY DEF Actor
<1>2. \A j \in Job : activeJobs'[j] = IF j = job[a] /\ activeJobs[j] = a THEN NoOne ELSE activeJobs[j]
  BY DEF Deregistered
<1> QED BY <1>1, <1>2

LEMMA CleanupBase ==
    ASSUME Base, TypeOK', NEW a \in Coroutine, CleanupStep(a)
    PROVE  Base'
<1>1. CleanupEffect(a)
  BY CleanupEffects DEF Base
<1>2. \A c \in Client : pc'[c] = pc[c] /\ job'[c] = job[c]
  BY <1>1 DEF CleanupEffect, OthersKeep, Actor, Coroutine
<1>3. ASSUME NEW v \in Coroutine \ {a}
      PROVE  /\ pc'[v] = pc[v] /\ job'[v] = job[v] /\ after'[v] = after[v]
             /\ thrown'[v] = thrown[v] /\ raised'[v] = raised[v]
  BY <1>1 DEF CleanupEffect, OthersKeep, Actor, Coroutine
<1>4. /\ \A j \in Job : row'[j].state = row[j].state /\ row'[j].cancelRequested = row[j].cancelRequested
      /\ \A j \in Job : Live(j)' <=> Live(j)
  <2>1. \A j \in Job : row'[j].state = row[j].state /\ row'[j].cancelRequested = row[j].cancelRequested
    <3> SUFFICES ASSUME NEW j \in Job
                 PROVE  row'[j].state = row[j].state /\ row'[j].cancelRequested = row[j].cancelRequested
      OBVIOUS
    <3>1. row \in [Job -> Row] /\ row[j] \in Row
      BY DEF Base, TypeOK, DataOK
    <3>2. row'[j] \in {row[j], [row[j] EXCEPT !.cleanupCompleted = TRUE]}
      BY <1>1, <3>1 DEF CleanupEffect
    <3> QED BY <3>1, <3>2 DEF Row
  <2> QED BY <2>1 DEF Live, Exists
<1>5. ActiveIsBusy'
  <2> SUFFICES ASSUME NEW w \in Worker, NEW j \in Job, activeJobs'[j] = w
               PROVE  job'[w] = j /\ pc'[w] \notin {"w_get", "off"}
    BY DEF ActiveIsBusy
  <2>1. activeJobs[j] = w /\ job[w] = j /\ pc[w] \notin {"w_get", "off"}
    <3>1. w # NoOne
      BY DEF Actor, Coroutine
    <3>2. activeJobs' = activeJobs \/ activeJobs' = Deregistered(a)
      BY <1>1 DEF CleanupEffect, Stays, Returns, Leaves
    <3>3. activeJobs[j] = w
      BY <3>1, <3>2, DeregisteredFacts DEF Base
    <3> QED BY <3>3 DEF Base, ActiveIsBusy
  <2>2. CASE w # a
    BY <1>3, <2>1, <2>2 DEF Coroutine
  <2>3. CASE w = a /\ Stays(a)
    BY <2>1, <2>3 DEF Stays, Cleanup
  <2>4. CASE w = a /\ Returns(a)
    <3>1. after[a] # "w_get"
      BY <1>1, <2>1, <2>4, DeregisteredFacts DEF Returns, CleanupEffect, Base
    <3>2. after[a] \in {"t_store", "end"}
      BY <2>4, <3>1 DEF Base, TypeOK, ControlOK, WorkerOK
    <3> QED BY <2>1, <2>4, <3>1, <3>2 DEF Returns
  <2>5. CASE w = a /\ Leaves(a)
    BY <1>1, <2>1, <2>5, DeregisteredFacts DEF Leaves, CleanupEffect, Base
  <2> QED BY <1>1, <2>2, <2>3, <2>4, <2>5 DEF CleanupEffect
<1>6. Untouched'
  <2> SUFFICES ASSUME NEW j \in Job, row'[j].state = "absent"
               PROVE  /\ folder'[j] = "none" /\ late'[j] = "no" /\ activeJobs'[j] = NoOne
                      /\ \A b \in Coroutine : job'[b] # j
                      /\ \A c \in Client : job'[c] = j => pc'[c] = "insert"
                      /\ \A i \in 1..Len(queue') : queue'[i][2] # j
                      /\ j \notin expiredIds' \cup deletable'
    BY DEF Untouched
  <2>1. row[j].state = "absent"
    BY <1>4
  <2>2. job[a] # j /\ job'[a] # j
    BY <1>1, <2>1 DEF Base, Untouched, CleanupEffect, Stays, Returns, Leaves
  <2>3. activeJobs'[j] = NoOne
    BY <1>1, <2>1, DeregisteredFacts DEF Base, Untouched, CleanupEffect, Stays, Returns, Leaves
  <2> QED BY <1>1, <1>2, <1>3, <2>1, <2>2, <2>3 DEF Base, Untouched, CleanupEffect
<1>7. Inserting'
  BY <1>2, <1>4, AtJob DEF Base, Inserting
<1>8. CancelHeld'
  <2>1. a = Reaper => ~(Leaves(a) /\ pc'[a] = "h_cancel")
    BY DEF Leaves, InTask, Base, TypeOK, ControlOK, ReaperOK
  <2>2. \A w \in Worker : w # a =>
           /\ (mode = "up" /\ thrown'[w] => (InTask(w) /\ ~Live(job[w]))')
           /\ (mode = "up" /\ pc'[w] \in {"c_remove", "c_purge"} /\ raised'[w] = "cancel" => ~Live(job[w])')
           /\ (pc'[w] = "h_cancel" => ~Live(job[w])')
    BY <1>3, <1>4, AtJob DEF Base, CancelHeld, InTask, Coroutine
  <2>3. a \in Worker => (pc'[a] = "h_cancel" => ~Live(job[a])')
    <3>1. after[a] # "h_cancel"
      BY DEF Base, TypeOK, ControlOK
    <3> QED BY <1>1, <1>4, <3>1 DEF Base, CancelHeld, CleanupEffect, Stays, Returns, Leaves, Cleanup
  <2>4. a \in Worker /\ mode = "up" /\ pc'[a] \in {"c_remove", "c_purge"} /\ raised'[a] = "cancel"
           => ~Live(job[a])'
    <3>1. pc'[a] \in {"c_remove", "c_purge"} => UNCHANGED job
      BY <1>1 DEF Base, TypeOK, ControlOK, CleanupEffect, Stays, Returns, Leaves
    <3> QED BY <1>1, <1>4, <3>1 DEF Base, CancelHeld, CleanupEffect
  <2> QED BY <1>1, <1>2, <1>4, <2>2, <2>3, <2>4, AtJob DEF Base, CancelHeld, CleanupEffect
<1>9. Down'
  BY <1>1 DEF Base, Down, CleanupEffect, Actor, Cleanup
<1> QED BY <1>5, <1>6, <1>7, <1>8, <1>9 DEF Base

LEMMA ThrowBase ==
    ASSUME Base, TypeOK', NEW a \in Coroutine, Throw(a)
    PROVE  Base'
<1>1. ThrowEffect(a)
  BY ThrowEffects DEF Base
<1>2. \A c \in Client : pc'[c] = pc[c] /\ job'[c] = job[c]
  BY <1>1 DEF ThrowEffect, OthersKeep, Actor, Coroutine
<1>3. ASSUME NEW v \in Coroutine \ {a}
      PROVE  /\ pc'[v] = pc[v] /\ job'[v] = job[v] /\ after'[v] = after[v]
             /\ thrown'[v] = thrown[v] /\ raised'[v] = raised[v]
  BY <1>1 DEF ThrowEffect, OthersKeep, Actor, Coroutine, Base, TypeOK, DataOK
<1>4. UNCHANGED <<row, job, mode, queue, expiredIds, deletable>> /\ ~thrown'[a]
  BY <1>1 DEF ThrowEffect, Base, TypeOK, DataOK
<1>5. activeJobs' = activeJobs \/ (pc'[a] = "off" /\ activeJobs' = Deregistered(a))
  BY <1>1 DEF ThrowEffect, Leaves
<1>6. ActiveIsBusy'
  <2> SUFFICES ASSUME NEW w \in Worker, NEW j \in Job, activeJobs'[j] = w
               PROVE  job'[w] = j /\ pc'[w] \notin {"w_get", "off"}
    BY DEF ActiveIsBusy
  <2>1. activeJobs[j] = w /\ job[w] = j /\ pc[w] \notin {"w_get", "off"}
    <3>1. w # NoOne
      BY DEF Actor, Coroutine
    <3>2. activeJobs[j] = w
      BY <3>1, <1>5, DeregisteredFacts DEF Base
    <3> QED BY <3>2 DEF Base, ActiveIsBusy
  <2>2. w = a => pc'[w] \notin {"w_get", "off"}
    BY <1>1, <2>1, DeregisteredFacts DEF ThrowEffect, Leaves, Base
  <2> QED BY <1>3, <1>4, <2>1, <2>2 DEF Coroutine
<1>7. Untouched'
  <2> SUFFICES ASSUME NEW j \in Job, row[j].state = "absent"
               PROVE  folder'[j] = "none" /\ late'[j] = "no" /\ activeJobs'[j] = NoOne
    BY <1>1, <1>2, <1>3, <1>4 DEF Base, Untouched
  <2>1. job[a] # j /\ activeJobs[j] = NoOne /\ folder[j] = "none" /\ late[j] = "no"
    BY DEF Base, Untouched
  <2>2. late'[j] = "no"
    BY <1>1, <2>1 DEF ThrowEffect, GivesUp
  <2>3. folder'[j] = "none"
    BY <1>1, <2>1 DEF ThrowEffect, Recycled, Base, TypeOK, DataOK
  <2> QED BY <1>5, <2>1, <2>2, <2>3, DeregisteredFacts DEF Base
<1>8. Inserting'
  BY <1>2, <1>4 DEF Base, Inserting
<1>9. CancelHeld'
  <2>1. \A j : Live(j)' <=> Live(j)
    BY <1>4 DEF Live, Exists
  <2>2. \A w \in Worker : w # a =>
           /\ (mode = "up" /\ thrown'[w] => (InTask(w) /\ ~Live(job[w]))')
           /\ (mode = "up" /\ pc'[w] \in {"c_remove", "c_purge"} /\ raised'[w] = "cancel" => ~Live(job[w])')
           /\ (pc'[w] = "h_cancel" => ~Live(job[w])')
    BY <1>3, <1>4, <2>1 DEF Base, CancelHeld, InTask, Coroutine
  <2>3. a \in Worker /\ mode = "up" => ~Live(job[a])'
    BY <1>1, <1>4, <2>1 DEF Base, CancelHeld, ThrowEffect
  <2>4. pc'[a] = "h_cancel" => mode = "up"
    BY <1>1 DEF ThrowEffect, Leaves
  <2>5. \A c \in Client : pc'[c] = "deliver" => ~Live(job[c])'
    BY <1>2, <1>4, <2>1 DEF Base, CancelHeld
  <2>6. mode = "up" => ~thrown'[Reaper]
    BY <1>3, <1>4 DEF Base, CancelHeld, Coroutine
  <2> QED BY <1>4, <2>2, <2>3, <2>4, <2>5, <2>6 DEF CancelHeld, InTask
<1>10. Down'
  BY <1>1 DEF Base, Down, ThrowEffect
<1> QED BY <1>6, <1>7, <1>8, <1>9, <1>10 DEF Base

(* The queue, when an action is put or taken. *)
LEMMA Appended ==
    ASSUME NEW q \in Seq(Action \X Job), NEW e \in Action \X Job
    PROVE  /\ Len(Append(q, e)) = Len(q) + 1 /\ Append(q, e)[Len(q) + 1] = e
           /\ \A i \in 1..Len(q) : Append(q, e)[i] = q[i]
           /\ \A i \in 1..Len(Append(q, e)) : i \in 1..Len(q) \/ i = Len(q) + 1
OBVIOUS

LEMMA Taken ==
    ASSUME NEW q \in Seq(Action \X Job), q # <<>>
    PROVE  /\ Len(q) \in Nat \ {0} /\ Head(q) = q[1] /\ Len(Tail(q)) = Len(q) - 1
           /\ \A i \in 1..Len(Tail(q)) : i + 1 \in 1..Len(q) /\ Tail(q)[i] = q[i + 1]
           /\ \A i \in 1..Len(q) : i = 1 \/ (i - 1 \in 1..Len(Tail(q)) /\ Tail(q)[i - 1] = q[i])
OBVIOUS

LEMMA LoopBase ==
    ASSUME Base, TypeOK', NEW w \in Worker, TakeAction(w) \/ ActionEnds(w)
    PROVE  Base'
<1>1. CASE TakeAction(w)
  <2> DEFINE n == Head(queue)[2]
  <2>1. queue \in Seq(Action \X Job) /\ queue # <<>> /\ n \in Job /\ Head(queue)[1] \in Action
    BY <1>1 DEF TakeAction, Base, TypeOK, DataOK
  <2>2. /\ job' = [job EXCEPT ![w] = n] /\ activeJobs' = [activeJobs EXCEPT ![n] = w]
        /\ queue' = Tail(queue) /\ after' = [after EXCEPT ![w] = "end"]
        /\ pc[w] = "w_get" /\ \E l \in {"i_get", "t_get", "c_get"} : Goto(w, l)
        /\ ~thrown[w] /\ UNCHANGED <<row, folder, late, mode, sawAwaiting, expiredIds, deletable, thrown, raised>>
    BY <1>1, <2>1 DEF TakeAction, FirstLabel, Action, baidu, process, sweep
  <2>3. /\ row[n].state # "absent"
        /\ \A i \in 1..Len(queue') : \E k \in 1..Len(queue) : queue'[i] = queue[k]
    <3>1. 1 \in 1..Len(queue) /\ queue[1][2] = n
      BY <2>1, Taken
    <3>2. row[n].state # "absent"
      BY <2>1, <3>1 DEF Base, Untouched
    <3>3. \A i \in 1..Len(queue') : i + 1 \in 1..Len(queue) /\ queue'[i] = queue[i + 1]
      BY <2>1, <2>2, Taken
    <3> QED BY <3>2, <3>3
  <2>4. /\ \A b \in Actor \ {w} : pc'[b] = pc[b] /\ job'[b] = job[b]
        /\ \A b \in Coroutine \ {w} : after'[b] = after[b]
        /\ job'[w] = n /\ pc'[w] \in {"i_get", "t_get", "c_get"}
        /\ \A j \in Job : activeJobs'[j] = IF j = n THEN w ELSE activeJobs[j]
    BY <2>1, <2>2 DEF Goto, Base, TypeOK, ControlOK, DataOK, Actor, Coroutine
  <2>5. ActiveIsBusy'
    BY <2>2, <2>4 DEF Base, ActiveIsBusy, Actor, Coroutine
  <2>6. Untouched'
    <3> SUFFICES ASSUME NEW j \in Job, row[j].state = "absent"
                 PROVE  /\ activeJobs'[j] = NoOne /\ \A b \in Coroutine : job'[b] # j
                        /\ \A c \in Client : job'[c] = j => pc'[c] = "insert"
                        /\ \A i \in 1..Len(queue') : queue'[i][2] # j
      BY <2>2 DEF Base, Untouched
    <3> QED BY <2>3, <2>4 DEF Base, Untouched, Actor, Coroutine
  <2>7. Inserting'
    BY <2>2, <2>4 DEF Base, Inserting, Actor
  <2>8. CancelHeld'
    <3>1. \A j : Live(j)' <=> Live(j)
      BY <2>2 DEF Live, Exists
    <3> QED BY <2>2, <2>4, <3>1 DEF Base, CancelHeld, InTask, Actor, Coroutine
  <2>9. Down'
    BY <2>2 DEF Base, Down, Actor, Coroutine
  <2> QED BY <2>5, <2>6, <2>7, <2>8, <2>9 DEF Base
<1>2. CASE ActionEnds(w)
  <2>1. /\ UNCHANGED <<row, folder, late, mode, queue, sawAwaiting, expiredIds, deletable, thrown, raised>>
        /\ pc[w] = "end" /\ ~thrown[w] /\ activeJobs' = Deregistered(w)
        /\ job[w] \in Job
    BY <1>2, AtJob DEF ActionEnds, baidu, process, calls, sweep, Base
  <2>2. /\ \A b \in Actor \ {w} : pc'[b] = pc[b] /\ job'[b] = job[b]
        /\ \A b \in Coroutine \ {w} : after'[b] = after[b]
        /\ job'[w] = NoJob /\ pc'[w] = "w_get"
    BY <1>2 DEF ActionEnds, Goto, Base, TypeOK, ControlOK, Actor, Coroutine
  <2>3. \A v \in Worker, j \in Job : activeJobs'[j] = v => v # w /\ activeJobs[j] = v
    <3> SUFFICES ASSUME NEW v \in Worker, NEW j \in Job, activeJobs'[j] = v
                 PROVE  v # w /\ activeJobs[j] = v
      OBVIOUS
    <3>1. activeJobs[j] = v
      BY <2>1, DeregisteredFacts DEF Base, Actor, Coroutine
    <3>2. v = w => j = job[w]
      BY <3>1 DEF Base, ActiveIsBusy
    <3> QED BY <2>1, <3>1, <3>2, DeregisteredFacts DEF Base, Coroutine
  <2>4. ActiveIsBusy'
    BY <2>2, <2>3 DEF Base, ActiveIsBusy, Actor, Coroutine
  <2>5. Untouched'
    BY <2>1, <2>2, DeregisteredFacts DEF Base, Untouched, Actor, Coroutine
  <2>6. Inserting'
    BY <2>1, <2>2 DEF Base, Inserting, Actor
  <2>7. CancelHeld'
    <3>1. \A j : Live(j)' <=> Live(j)
      BY <2>1 DEF Live, Exists
    <3> QED BY <2>1, <2>2, <3>1 DEF Base, CancelHeld, InTask, Actor, Coroutine
  <2>8. Down'
    BY <2>1 DEF Base, Down, Actor, Coroutine
  <2> QED BY <2>4, <2>5, <2>6, <2>7, <2>8 DEF Base
<1> QED BY <1>1, <1>2

LEMMA ReaperBase ==
    ASSUME Base, TypeOK', ReaperStep
    PROVE  Base'
<1>1. /\ UNCHANGED <<folder, late, mode, queue, sawAwaiting, activeJobs, after, thrown, raised>>
      /\ pc[Reaper] \in {"r_sleep", "r_next"} /\ pc'[Reaper] \in {"r_sleep", "r_next", "c_get"}
      /\ \A b \in Actor \ {Reaper} : pc'[b] = pc[b] /\ job'[b] = job[b]
  BY DEF ReaperStep, SelectExpired, CleanNext, DeleteRows, baidu, process, calls, Goto, Base,
     TypeOK, ControlOK, Actor, Coroutine
<1>2. /\ \A w \in Worker : pc'[w] = pc[w] /\ job'[w] = job[w]
      /\ \A c \in Client : pc'[c] = pc[c] /\ job'[c] = job[c]
  BY <1>1 DEF Actor, Coroutine
<1>3. \A j \in Job : \/ row'[j] = row[j]
                     \/ j \in deletable /\ row'[j].state = "deleted"
  BY DEF ReaperStep, SelectExpired, CleanNext, DeleteRows, baidu, BlankRow
<1>4. /\ \A j \in Job : Live(j)' => Live(j)
      /\ \A j \in Job : row[j].state = "absent" <=> row'[j].state = "absent"
  BY <1>3 DEF Live, Exists, NoRow, Base, Untouched
<1>5. \A j \in Job : row[j].state = "absent" => j \notin expiredIds' \cup deletable' /\ job'[Reaper] # j
  <2> SUFFICES ASSUME NEW j \in Job, row[j].state = "absent"
               PROVE  j \notin expiredIds' \cup deletable' /\ job'[Reaper] # j
    OBVIOUS
  <2>1. j \notin expiredIds \cup deletable /\ job[Reaper] # j /\ j \notin Expired
    BY DEF Base, Untouched, Coroutine, Expired, Exists, NoRow
  <2>2. job'[Reaper] \in {job[Reaper], NoJob} \cup expiredIds
    BY DEF ReaperStep, SelectExpired, CleanNext, DeleteRows, Base, TypeOK, ControlOK, Actor, Coroutine
  <2> QED BY <2>1, <2>2 DEF ReaperStep, SelectExpired, CleanNext, DeleteRows
<1>6. ActiveIsBusy'
  BY <1>1, <1>2 DEF Base, ActiveIsBusy
<1>7. Untouched'
  BY <1>1, <1>2, <1>4, <1>5 DEF Base, Untouched, Coroutine
<1>8. Inserting'
  BY <1>2, <1>4, AtJob DEF Base, Inserting
<1>9. CancelHeld'
  BY <1>1, <1>2, <1>4, AtJob DEF Base, CancelHeld, InTask
<1>10. Down'
  BY <1>1 DEF Base, Down, Actor, Coroutine
<1> QED BY <1>6, <1>7, <1>8, <1>9, <1>10 DEF Base

(* What no step of a request changes. *)
RequestKeeps(c) ==
    /\ OthersKeep(c) /\ UNCHANGED <<folder, late, mode, lock, activeJobs, after, raised, expiredIds, deletable>>
    /\ job'[c] \in {job[c], NoJob} \/ pc[c] = "idle"
    /\ \A b \in Coroutine : pc'[b] = pc[b] /\ job'[b] = job[b]
    /\ \A d \in Client \ {c} : pc'[d] = pc[d] /\ job'[d] = job[d] /\ sawAwaiting'[d] = sawAwaiting[d]

LEMMA RequestEffects ==
    ASSUME TypeOK, NEW c \in Client, Requests(RequestArrives(c)) \/ Requests(RequestGoesOn(c))
    PROVE  RequestKeeps(c)
<1>1. OthersKeep(c)
  BY DEF Requests, RequestArrives, RequestGoesOn, Create, ReadForSelection, ReadForCancel,
     InsertRow, Put, CommitSelection, CommitCancel, DeliverCancel, Goto, OthersKeep, TypeOK, ControlOK
<1>2. UNCHANGED <<folder, late, mode, lock, activeJobs, after, raised, expiredIds, deletable>>
  BY DEF Requests, RequestArrives, RequestGoesOn, Create, ReadForSelection, ReadForCancel,
     InsertRow, Put, CommitSelection, CommitCancel, DeliverCancel, process, sweep
<1>3. /\ job'[c] \in {job[c], NoJob} \/ pc[c] = "idle"
      /\ \A d \in Client \ {c} : sawAwaiting'[d] = sawAwaiting[d]
  BY DEF Requests, RequestArrives, RequestGoesOn, Create, ReadForSelection, ReadForCancel,
     InsertRow, Put, CommitSelection, CommitCancel, DeliverCancel, TypeOK, ControlOK, DataOK, Actor
<1>4. /\ \A b \in Coroutine : pc'[b] = pc[b] /\ job'[b] = job[b]
      /\ \A d \in Client \ {c} : pc'[d] = pc[d] /\ job'[d] = job[d]
  BY <1>1 DEF OthersKeep, Actor, Coroutine
<1> QED BY <1>1, <1>2, <1>3, <1>4 DEF RequestKeeps

(* The entries of the queue for the job are old ones. *)
QueueKept(j) == \E s \in {0, 1} : \A i \in 1..Len(queue') :
    queue'[i][2] = j => i + s \in 1..Len(queue) /\ queue'[i] = queue[i + s]

(* A request that goes on queues at most an action of its own job. *)
LEMMA RequestQueue ==
    ASSUME TypeOK, NEW c \in Client, Requests(RequestGoesOn(c)), NEW j \in Job \ {job[c]}
    PROVE  QueueKept(j)
<1>1. pc[c] # "idle" /\ job[c] \in Job
  BY AtJob DEF Requests, RequestGoesOn, InsertRow, Put, CommitSelection, CommitCancel, DeliverCancel
<1>2. queue' = queue \/ \E x \in Action : queue' = Append(queue, <<x, job[c]>>)
  BY DEF Requests, RequestGoesOn, InsertRow, Put, CommitSelection, CommitCancel,
     DeliverCancel, Action
<1>3. queue \in Seq(Action \X Job)
  BY DEF TypeOK, DataOK
<1>4. ASSUME NEW x \in Action, queue' = Append(queue, <<x, job[c]>>)
      PROVE  \A i \in 1..Len(queue') : queue'[i][2] = j =>
                i + 0 \in 1..Len(queue) /\ queue'[i] = queue[i + 0]
  <2>1. <<x, job[c]>> \in Action \X Job
    BY <1>1
  <2>2. \A i \in 1..Len(queue') : queue'[i] = <<x, job[c]>>
            \/ (i \in 1..Len(queue) /\ queue'[i] = queue[i])
    BY <1>3, <1>4, <2>1, Appended
  <2> QED BY <2>2
<1> QED BY <1>2, <1>4 DEF QueueKept

(* An action that is taken leaves the others in their order. *)
LEMMA TakeQueue ==
    ASSUME TypeOK, NEW w \in Worker, TakeAction(w), NEW j \in Job
    PROVE  QueueKept(j)
<1>1. queue \in Seq(Action \X Job) /\ queue # <<>> /\ queue' = Tail(queue)
  BY DEF TakeAction, TypeOK, DataOK
<1> QED BY <1>1, Taken DEF QueueKept

(* The commits of a selection and of a cancellation. *)
Committed(j, s) ==
    /\ \A k \in Job \ {j} : row'[k] = row[k]
    /\ \/ ~Exists(j) /\ UNCHANGED row
       \/ /\ Exists(j) /\ row'[j].state = s
          /\ row'[j].cancelRequested = IF s = "cancelled" THEN TRUE ELSE row[j].cancelRequested
          /\ row'[j].cleanupCompleted = row[j].cleanupCompleted
          /\ row'[j].tempFsId = row[j].tempFsId /\ row'[j].expiry = row[j].expiry

LEMMA CommitEffects ==
    ASSUME TypeOK, NEW c \in Client
    PROVE  /\ CommitSelection(c) => Committed(job[c], "queued_transfer")
           /\ CommitCancel(c) => Committed(job[c], "cancelled")
<1>1. pc[c] # "idle" => job[c] \in Job /\ row[job[c]] \in Row
  BY AtJob DEF TypeOK, DataOK
<1>2. CommitSelection(c) => Committed(job[c], "queued_transfer")
  BY <1>1 DEF CommitSelection, SetState, Update, Committed, TypeOK, DataOK, Row
<1>3. CommitCancel(c) => Committed(job[c], "cancelled")
  <2> DEFINE r == [row[job[c]] EXCEPT !.cancelRequested = TRUE, !.state = "cancelled"]
  <2> SUFFICES ASSUME CommitCancel(c) PROVE Committed(job[c], "cancelled")
    OBVIOUS
  <2>1. job[c] \in Job /\ row' = IF Exists(job[c]) THEN [row EXCEPT ![job[c]] = r] ELSE row
    BY <1>1 DEF CommitCancel, Update
  <2>2. /\ r.state = "cancelled" /\ r.cancelRequested = TRUE
        /\ r.cleanupCompleted = row[job[c]].cleanupCompleted
        /\ r.tempFsId = row[job[c]].tempFsId /\ r.expiry = row[job[c]].expiry
    BY <1>1 DEF CommitCancel, Row
  <2> HIDE DEF r
  <2> QED BY <2>1, <2>2 DEF Committed, TypeOK, DataOK
<1> QED BY <1>2, <1>3

(* A request that begins picks a job that exists, or one that nobody       *)
(* knows yet.                                                              *)
LEMMA ArrivalBase ==
    ASSUME Base, TypeOK', NEW c \in Client, Requests(RequestArrives(c))
    PROVE  Base'
<1>1. RequestKeeps(c)
  BY RequestEffects DEF Base
<1>2. PICK j \in Job : Create(c, j) \/ ReadForSelection(c, j) \/ ReadForCancel(c, j)
  BY DEF Requests, RequestArrives
<1>3. /\ UNCHANGED <<row, queue, thrown>> /\ mode = "up" /\ pc[c] = "idle"
      /\ job'[c] = j /\ pc'[c] \in {"insert", "sel_commit", "cancel_commit"}
      /\ pc'[c] = "insert" => row[j].state = "absent" /\ \A d \in Client : job[d] # j
      /\ pc'[c] # "insert" => row[j].state # "absent"
  BY <1>2 DEF Create, ReadForSelection, ReadForCancel, Goto, Pending, Exists, NoRow, Base, TypeOK,
     ControlOK, Actor
<1>4. \A k : Live(k)' <=> Live(k)
  BY <1>3 DEF Live, Exists
<1>5. ActiveIsBusy'
  BY <1>1 DEF Base, ActiveIsBusy, RequestKeeps, Coroutine
<1>6. Untouched'
  BY <1>1, <1>3 DEF Base, Untouched, RequestKeeps
<1>7. Inserting'
  BY <1>1, <1>3 DEF Base, Inserting, RequestKeeps
<1>8. CancelHeld'
  <2>1. \A d \in Client : pc'[d] = "deliver" => ~Live(job[d])'
    BY <1>1, <1>3, <1>4 DEF Base, CancelHeld, RequestKeeps
  <2> QED BY <1>1, <1>3, <1>4, <2>1 DEF Base, CancelHeld, RequestKeeps, InTask, Coroutine
<1>9. Down'
  BY <1>1, <1>3 DEF Down, RequestKeeps
<1> QED BY <1>5, <1>6, <1>7, <1>8, <1>9 DEF Base

(* The rows, the queue and the cancellations of a request that goes on. *)
LEMMA ProgressBase ==
    ASSUME Base, TypeOK', NEW c \in Client, Requests(RequestGoesOn(c))
    PROVE  Base'
<1>1. RequestKeeps(c)
  BY RequestEffects DEF Base
<1>2. pc[c] # "idle" /\ pc'[c] # "insert" /\ job[c] \in Job
      /\ (pc'[c] = "idle" => job'[c] = NoJob)
  BY AtJob DEF Requests, RequestGoesOn, InsertRow, Put, CommitSelection, CommitCancel,
     DeliverCancel, Goto, Base, TypeOK, ControlOK, Actor
<1>3. mode # "down"
  BY <1>2 DEF Base, Down, TypeOK, ControlOK, ClientOK, ClientLabel, Actor
<1>4. /\ \A k \in Job \ {job[c]} : row'[k] = row[k]
      /\ pc[c] # "insert" => row'[job[c]].state = "absent" <=> row[job[c]].state = "absent"
      /\ pc[c] = "insert" => row'[job[c]] = BlankRow("queued_import")
  <2>1. CASE InsertRow(c)
    BY <1>2, <2>1 DEF InsertRow, Base, TypeOK, DataOK
  <2>2. CASE CommitSelection(c) \/ CommitCancel(c)
    BY <2>2, CommitEffects DEF CommitSelection, CommitCancel, Committed, Exists, NoRow, Base
  <2>3. CASE UNCHANGED row /\ pc[c] # "insert"
    BY <2>3
  <2> QED BY <2>1, <2>2, <2>3 DEF Requests, RequestGoesOn, Put, DeliverCancel
<1>5. pc[c] # "insert" => row[job[c]].state # "absent"
  BY <1>2 DEF Base, Untouched
<1>6. ActiveIsBusy'
  BY <1>1 DEF Base, ActiveIsBusy, RequestKeeps, Coroutine
<1>7. \A j \in Job : row'[j].state = "absent" => j # job[c] /\ row[j].state = "absent"
  BY <1>4, <1>5 DEF BlankRow
<1>8. Untouched'
  <2>1. \A i \in 1..Len(queue') : queue'[i][2] = job[c]
            \/ (i \in 1..Len(queue) /\ queue'[i] = queue[i])
    <3>1. queue' = queue \/ \E x \in Action : queue' = Append(queue, <<x, job[c]>>)
      BY DEF Requests, RequestGoesOn, InsertRow, Put, CommitSelection, CommitCancel,
         DeliverCancel, Action
    <3>2. queue \in Seq(Action \X Job)
      BY DEF Base, TypeOK, DataOK
    <3>3. CASE queue' = queue
      BY <3>3
    <3>4. ASSUME NEW x \in Action, queue' = Append(queue, <<x, job[c]>>)
          PROVE  \A i \in 1..Len(queue') : queue'[i] = <<x, job[c]>>
                    \/ (i \in 1..Len(queue) /\ queue'[i] = queue[i])
      <4>1. <<x, job[c]>> \in Action \X Job
        BY <1>2
      <4> QED BY <3>2, <3>4, <4>1, Appended
    <3> QED BY <3>1, <3>3, <3>4
  <2>2. \A d \in Client : job'[d] \in {job[d], NoJob}
    BY <1>1, <1>2 DEF RequestKeeps
  <2> SUFFICES ASSUME NEW j \in Job, row'[j].state = "absent"
               PROVE  /\ folder'[j] = "none" /\ late'[j] = "no" /\ activeJobs'[j] = NoOne
                      /\ \A a \in Coroutine : job'[a] # j
                      /\ \A d \in Client : job'[d] = j => pc'[d] = "insert"
                      /\ \A i \in 1..Len(queue') : queue'[i][2] # j
                      /\ j \notin expiredIds' \cup deletable'
    BY DEF Untouched
  <2> QED BY <1>1, <1>7, <2>1, <2>2 DEF Base, Untouched, RequestKeeps
<1>9. Inserting'
  <2>1. \A d \in Client : pc'[d] = "insert" => d # c /\ pc[d] = "insert" /\ job'[d] = job[d]
    BY <1>1, <1>2 DEF RequestKeeps
  <2>2. \A d \in Client : pc[d] = "insert" /\ d # c => job[d] # job[c] /\ job[d] \in Job
    BY AtJob DEF Base, Inserting
  <2>3. job'[c] \in {job[c], NoJob}
    BY <1>1, <1>2 DEF RequestKeeps
  <2> QED BY <1>1, <1>4, <2>1, <2>2, <2>3 DEF Base, Inserting, RequestKeeps
<1>10. CancelHeld'
  <2>1. \A j \in Job : Live(j)' => Live(j) \/ (pc[c] = "insert" /\ j = job[c])
    <3>1. CASE CommitSelection(c) \/ CommitCancel(c)
      BY <3>1, CommitEffects DEF Committed, Live, Exists, Base
    <3>2. CASE UNCHANGED row \/ InsertRow(c)
      BY <1>4, <3>2 DEF InsertRow, Live, Exists
    <3> QED BY <3>1, <3>2 DEF Requests, RequestGoesOn, Put, DeliverCancel
  <2>2. \A w \in Worker : pc'[w] = pc[w] /\ job'[w] = job[w] /\ after'[w] = after[w] /\ raised'[w] = raised[w]
    BY <1>1 DEF RequestKeeps, Coroutine
  <2>3. \A w \in Worker : job[w] \in Job /\ ~Live(job[w]) => ~Live(job[w])'
    BY <1>2, <2>1, <2>2 DEF Base, Inserting, Untouched, Coroutine
  <2>4. \A d \in Client : pc'[d] = "deliver" => ~Live(job[d])'
    <3>1. \A d \in Client : d # c /\ pc[d] = "deliver" => ~Live(job[d])'
      <4>1. \A d \in Client : pc[d] = "deliver" /\ pc[c] = "insert" => job[d] # job[c]
        BY <1>2 DEF Base, Inserting, Untouched
      <4> QED BY <1>1, <2>1, <4>1, AtJob DEF Base, CancelHeld, RequestKeeps
    <3>2. pc'[c] = "deliver" => ~Live(job[c])'
      <4>1. pc'[c] = "deliver" => CommitCancel(c) /\ Exists(job[c])
        BY <1>2 DEF Requests, RequestGoesOn, InsertRow, Put, CommitSelection, CommitCancel,
           DeliverCancel, Goto, Base, TypeOK, ControlOK, Actor
      <4> QED BY <4>1, CommitEffects DEF CommitCancel, Committed, Live, Base
    <3> QED BY <1>1, <3>1, <3>2 DEF RequestKeeps
  <2>5. mode = "up" => ~thrown'[Reaper] /\ \A w \in Worker : thrown'[w] => InTask(w) /\ ~Live(job[w])
    <3>1. CASE DeliverCancel(c)
      <4>1. activeJobs[job[c]] \in Worker \cup {NoOne}
        BY <1>2 DEF Base, TypeOK, DataOK
      <4>2. activeJobs[job[c]] \in Worker => job[activeJobs[job[c]]] = job[c]
        BY <1>2 DEF Base, ActiveIsBusy
      <4>3. ~Live(job[c])
        BY <3>1 DEF DeliverCancel, Base, CancelHeld
      <4> QED BY <3>1, <4>1, <4>2, <4>3 DEF DeliverCancel, Base, CancelHeld, TypeOK, DataOK, Coroutine
    <3>2. CASE UNCHANGED thrown
      BY <3>2 DEF Base, CancelHeld
    <3> QED BY <3>1, <3>2 DEF Requests, RequestGoesOn, InsertRow, Put, CommitSelection, CommitCancel
  <2> QED BY <1>1, <2>2, <2>3, <2>4, <2>5, AtJob DEF Base, CancelHeld, RequestKeeps, InTask
<1>11. Down'
  BY <1>1, <1>3 DEF Down, RequestKeeps
<1> QED BY <1>6, <1>8, <1>9, <1>10, <1>11 DEF Base

(* Time, and a stop that begins. *)
LEMMA EnvironmentBase ==
    ASSUME Base, TypeOK', (\E j \in Job : TimePasses(j)) \/ OrphanLockExpires \/ Stop
    PROVE  Base'
<1>1. /\ UNCHANGED <<folder, late, queue, sawAwaiting, expiredIds, deletable, activeJobs, pc, job,
                      after, raised>>
      /\ \A j \in Job : row'[j].state = row[j].state /\ row'[j].cancelRequested = row[j].cancelRequested
  <2>1. \A j \in Job : row[j] \in Row
    BY DEF Base, TypeOK, DataOK
  <2>2. CASE OrphanLockExpires \/ Stop
    BY <2>2 DEF OrphanLockExpires, Stop, baidu, calls, sweep
  <2>3. CASE \E j \in Job : TimePasses(j)
    BY <2>1, <2>3 DEF TimePasses, process, calls, sweep, Row, Base, TypeOK, DataOK
  <2> QED BY <2>2, <2>3
<1>2. \/ UNCHANGED <<mode, thrown>>
      \/ mode' = "stopping"
  BY DEF TimePasses, OrphanLockExpires, Stop, process
<1>3. \A j \in Job : Live(j)' <=> Live(j)
  BY <1>1 DEF Live, Exists
<1>4. ActiveIsBusy' /\ Untouched'
  BY <1>1 DEF Base, ActiveIsBusy, Untouched
<1>5. Inserting'
  BY <1>1, AtJob DEF Base, Inserting
<1>6. CancelHeld'
  <2>1. \A c \in Client : pc[c] = "deliver" => job[c] \in Job
    BY AtJob DEF Base
  <2>2. \A w \in Worker : InTask(w) \/ pc[w] \in {"c_remove", "c_purge", "h_cancel"} => job[w] \in Job
    BY AtJob DEF Base
  <2> QED BY <1>1, <1>2, <1>3, <2>1, <2>2 DEF Base, CancelHeld, InTask
<1>7. Down'
  BY <1>1, <1>2 DEF Base, Down
<1> QED BY <1>4, <1>5, <1>6, <1>7 DEF Base

(* A mkdir that was given up, when it is executed: its job has a row. *)
LEMMA LateBase ==
    ASSUME Base, TypeOK', NEW j \in Job, LateMkdir(j)
    PROVE  Base'
<1>1. /\ UNCHANGED <<row, mode, queue, sawAwaiting, expiredIds, deletable, activeJobs, pc, job,
                      after, thrown, raised>>
      /\ row[j].state # "absent"
      /\ \A k \in Job \ {j} : folder'[k] = folder[k] /\ late'[k] = late[k]
  BY DEF LateMkdir, calls, sweep, Base, Untouched, TypeOK, DataOK
<1>2. Untouched'
  BY <1>1 DEF Base, Untouched
<1> QED BY <1>1, <1>2 DEF Base, ActiveIsBusy, Inserting, CancelHeld, Down, Live, Exists, InTask

(* The end of the process. *)
LEMMA EndBase ==
    ASSUME Base, TypeOK', Stopped \/ Crash
    PROVE  Base'
<1>1. ProcessEnds
  BY DEF Stopped, Crash
<1>2. /\ mode' = "down" /\ queue' = <<>> /\ expiredIds' = {} /\ deletable' = {}
      /\ \A j \in Job : activeJobs'[j] = NoOne
      /\ \A a \in Actor : job'[a] = NoJob
      /\ \A a \in Coroutine : pc'[a] = "off" /\ ~thrown'[a]
      /\ \A c \in Client : pc'[c] = "idle" /\ ~sawAwaiting'[c]
      /\ UNCHANGED <<row, folder>>
  BY <1>1 DEF ProcessEnds, baidu, Actor, Coroutine
<1>3. ActiveIsBusy'
  BY <1>2 DEF ActiveIsBusy, Actor, Coroutine
<1>7. \A j \in Job : row[j].state = "absent" => late'[j] = "no"
  <2> SUFFICES ASSUME NEW j \in Job, row[j].state = "absent" PROVE late'[j] = "no"
    OBVIOUS
  <2>1. late[j] = "no" /\ \A w \in Worker : job[w] # j
    BY DEF Base, Untouched, Coroutine
  <2> QED BY <2>1 DEF Stopped, Crash
<1>4. Untouched' /\ Inserting'
  BY <1>2, <1>7 DEF Base, Untouched, Inserting, Actor, Coroutine
<1>5. CancelHeld'
  BY <1>2 DEF CancelHeld, Coroutine
<1>6. Down'
  BY <1>2 DEF Down, Actor, Coroutine
<1> QED BY <1>3, <1>4, <1>5, <1>6 DEF Base

(* The queue start fills: a cleanup of each interrupted job. *)
Restarted ==
    /\ mode = "down" /\ mode' = "up"
    /\ UNCHANGED <<folder, late, sawAwaiting, expiredIds, deletable, activeJobs, job, thrown, raised>>
    /\ \A w \in Worker : pc'[w] = "w_get" /\ after'[w] = "w_get"
    /\ pc'[Reaper] = "r_sleep" /\ \A c \in Client : pc'[c] = "idle"
    /\ \A j \in Job : row'[j] = IF row[j].state \in ActiveStates
                                THEN [row[j] EXCEPT !.state = "failed"] ELSE row[j]
    /\ \A i \in 1..Len(queue') : \E j \in Job :
          queue'[i] = <<"cleanup", j>> /\ row[j].state \in ActiveStates

LEMMA StartEffects ==
    ASSUME TypeOK, Start
    PROVE  Restarted
<1> DEFINE interrupted == {j \in Job : row[j].state \in InterruptedStates}
<1>1. PICK order \in [1..Cardinality(interrupted) -> interrupted] :
         queue' = [i \in DOMAIN order |-> <<"cleanup", order[i]>>]
  BY DEF Start
<1>2. Cardinality(interrupted) \in Nat
  BY FS_Subset, FS_CardinalityType
<1>3. Len(queue') = Cardinality(interrupted)
  BY <1>1, <1>2
<1>4. \A i \in 1..Len(queue') : order[i] \in Job /\ row[order[i]].state \in ActiveStates
                                 /\ queue'[i] = <<"cleanup", order[i]>>
  BY <1>1, <1>3 DEF InterruptedStates
<1>5. \A j \in Job : row'[j] = IF row[j].state \in ActiveStates
                                THEN [row[j] EXCEPT !.state = "failed"] ELSE row[j]
  BY DEF Start, InterruptedStates
<1>6. /\ \A w \in Worker : pc'[w] = "w_get" /\ after'[w] = "w_get"
      /\ pc'[Reaper] = "r_sleep" /\ \A c \in Client : pc'[c] = "idle"
  BY DEF Start, NoTask, Actor, Coroutine
<1>7. UNCHANGED <<folder, late, sawAwaiting, expiredIds, deletable, activeJobs, job, thrown, raised>>
      /\ mode = "down" /\ mode' = "up"
  BY DEF Start, sweep
<1> QED BY <1>4, <1>5, <1>6, <1>7 DEF Restarted

LEMMA StartBase ==
    ASSUME Base, TypeOK', Start
    PROVE  Base'
<1>1. Restarted
  BY StartEffects DEF Base
<1>2. \A a \in Actor : job[a] = NoJob
  BY <1>1 DEF Base, Down, Restarted
<1>3. ActiveIsBusy'
  BY <1>1, <1>2 DEF Base, ActiveIsBusy, Restarted, Actor, Coroutine
<1>4. Untouched'
  <2>1. \A j \in Job : row'[j].state = "absent" => row[j].state = "absent"
    BY <1>1 DEF Restarted, Base, TypeOK, DataOK, Row
  <2> QED BY <1>1, <1>2, <2>1 DEF Base, Untouched, Restarted, Actor, Coroutine, ActiveStates
<1>5. Inserting' /\ CancelHeld' /\ Down'
  BY <1>1 DEF Base, Down, Inserting, CancelHeld, Restarted, Coroutine
<1> QED BY <1>3, <1>4, <1>5 DEF Base

(* What the cancellation and the registry rely on holds whatever fails,    *)
(* stops or crashes: an entry of active_jobs leads to the worker at that   *)
(* job, a job without a row is unknown to everybody but the request that   *)
(* inserts it, and while the service is up a CancelledError is only on its *)
(* way into an action whose job is to be cancelled.                        *)
THEOREM BaseInvariant == Spec => []Base
<1>1. Init => Base
  <2> SUFFICES ASSUME Init PROVE Base
    OBVIOUS
  <2>1. /\ mode = "up" /\ queue = <<>> /\ expiredIds = {} /\ deletable = {}
        /\ \A j \in Job : folder[j] = "none" /\ late[j] = "no" /\ activeJobs[j] = NoOne
        /\ \A a \in Actor : job[a] = NoJob
        /\ \A a \in Coroutine : ~thrown[a] /\ pc[a] \in {"w_get", "r_sleep"}
        /\ \A c \in Client : pc[c] = "idle"
    BY DEF Init, Actor, Coroutine
  <2>2. ActiveIsBusy
    BY <2>1 DEF ActiveIsBusy, Actor, Coroutine
  <2>3. Untouched /\ Inserting
    BY <2>1 DEF Untouched, Inserting, Actor, Coroutine
  <2>4. CancelHeld /\ Down
    BY <2>1 DEF CancelHeld, Down, Coroutine
  <2> QED BY <2>2, <2>3, <2>4, TypeAtStart DEF Base
<1>2. Base /\ TypeOK' /\ [Next]_vars => Base'
  <2> SUFFICES ASSUME Base, TypeOK', [Next]_vars PROVE Base'
    OBVIOUS
  <2>1. ASSUME NEW w \in Worker, WorkerStep(w) PROVE Base'
    BY <2>1, ActionBase, LoopBase DEF WorkerStep
  <2>2. ASSUME NEW a \in Coroutine, CleanupStep(a) \/ Throw(a) PROVE Base'
    BY <2>2, CleanupBase, ThrowBase
  <2>3. ASSUME NEW c \in Client, Requests(RequestArrives(c)) \/ Requests(RequestGoesOn(c))
        PROVE  Base'
    BY <2>3, ArrivalBase, ProgressBase
  <2>4. CASE ReaperStep
    BY <2>4, ReaperBase
  <2>5. CASE (\E j \in Job : TimePasses(j)) \/ OrphanLockExpires \/ Stop
    BY <2>5, EnvironmentBase
  <2>8. CASE \E j \in Job : LateMkdir(j)
    BY <2>8, LateBase
  <2>6. CASE Stopped \/ Crash \/ Start
    BY <2>6, EndBase, StartBase
  <2>7. CASE UNCHANGED vars
    BY <2>7 DEF vars, Base, ActiveIsBusy, Untouched, Inserting, CancelHeld, Down, Live, Exists,
       InTask
  <2> QED BY <2>1, <2>2, <2>3, <2>4, <2>5, <2>6, <2>7, <2>8 DEF Next
<1>3. Spec => []TypeOK
  BY TypeCorrect
<1> QED BY <1>1, <1>2, <1>3, PTL DEF Spec

-----------------------------------------------------------------------------
(* No job is left behind in an active state. *)

InQueue(j) == \E i \in 1..Len(queue) : queue[i] \in {<<"import", j>>, <<"transfer", j>>}
ServedBy(a, j) ==
    /\ job[a] = j
    /\ \/ a \in Client /\ pc[a] \in {"put_import", "put_transfer"}
       \/ a \in Worker /\ Settling(a)

(* A step of one actor strands no job if the jobs it makes or leaves       *)
(* active are served by it or in the queue afterwards, or were somebody    *)
(* else's before.                                                          *)
LEMMA StrandsNone ==
    ASSUME NoStrandedJob, NEW a \in Actor, UNCHANGED mode, OthersKeep(a),
           \A j \in Job : row'[j].state \in ActiveStates =>
              \/ ServedBy(a, j)' \/ InQueue(j)'
              \/ row[j].state \in ActiveStates /\ ~ServedBy(a, j) /\ (InQueue(j) => InQueue(j)')
    PROVE  NoStrandedJob'
<1> SUFFICES ASSUME mode = "up", NEW j \in Job, row'[j].state \in ActiveStates
             PROVE  InQueue(j)' \/ \E b \in Actor : ServedBy(b, j)'
  BY DEF NoStrandedJob, InQueue, ServedBy, Actor, Coroutine
<1>1. CASE row[j].state \in ActiveStates /\ ~ServedBy(a, j) /\ (InQueue(j) => InQueue(j)')
  <2>1. InQueue(j) \/ \E b \in Actor : ServedBy(b, j)
    BY <1>1 DEF NoStrandedJob, InQueue, ServedBy, Actor, Coroutine
  <2>2. ASSUME NEW b \in Actor \ {a}, ServedBy(b, j) PROVE ServedBy(b, j)'
    BY <2>2 DEF ServedBy, OthersKeep, Settling, Coroutine
  <2> QED BY <1>1, <2>1, <2>2
<1> QED BY <1>1

(* A worker that is moving its job on goes on with it, or has moved it to  *)
(* a state that is not active.                                             *)
LEMMA ActionSettles ==
    ASSUME TypeOK, NEW w \in Worker, ActionStep(w) \/ CallFails(w)
    PROVE  Settling(w)' \/ row'[job[w]].state \notin ActiveStates
<1>1. ActionEffect(w)
  BY ActionEffects
<1>2. pc \in [Actor -> WorkerLabel \cup ReaperLabel \cup ClientLabel] /\ w \in Actor /\ w \in Coroutine
      /\ after \in [Coroutine -> {"t_store", "end", "w_get", "r_next"}]
      /\ row \in [Job -> Row] /\ job[w] \in Job /\ row[job[w]] \in Row
  BY <1>1 DEF TypeOK, ControlOK, DataOK, Actor, Coroutine, ActionEffect
<1>3. ASSUME NEW l \in Import \cup Transfer \cup Handler, Goto(w, l) PROVE Settling(w)'
  BY <1>2, <1>3 DEF Goto, Settling
<1>4. ASSUME Raise(w) PROVE Settling(w)'
  BY <1>3, <1>4 DEF Raise, Handler
<1>5. ASSUME NEW s \in {"cancelled", "failed", "completed", "awaiting_selection"}, SetState(job[w], s)
      PROVE  row'[job[w]].state \notin ActiveStates
  BY <1>2, <1>5 DEF SetState, Update, Exists, NoRow, ActiveStates, Row
<1>6. CASE ImportGet(w) \/ SetImporting(w) \/ AcquireForImport(w)
  BY <1>6, <1>3, <1>4 DEF ImportGet, SetImporting, AcquireForImport, Proceed, Import
<1>7. CASE CheckCancelled(w)
  <2>1. \/ Raise(w)
        \/ \E l \in {"i_drop", "x_cancel", "i_mkdir", "i_scan"} : Proceed(w, l)
    BY <1>7 DEF CheckCancelled
  <2> QED BY <1>3, <1>4, <2>1 DEF Proceed, Import, Transfer
<1>8. CASE Mkdir(w) \/ ImportShare(w) \/ ScanTree(w) \/ TransferGet(w)
  BY <1>8, <1>3, <1>4 DEF Mkdir, ImportShare, ScanTree, TransferGet, Proceed, Import, Transfer
<1>9. CASE SetTransferring(w) \/ Locate(w) \/ Upload(w) \/ CallFails(w)
  BY <1>9, <1>3, <1>4 DEF SetTransferring, Locate, Upload, CallFails, Proceed, Transfer
<1>10. CASE QuitCancelled(w) \/ CancelInside(w)
  BY <1>10, <1>5 DEF QuitCancelled, CancelInside
<1>11. CASE StoreItems(w)
  <2>1. CASE Exists(job[w])
    BY <1>2, <1>11, <2>1 DEF StoreItems, Update, ActiveStates
  <2> QED BY <1>4, <1>11, <2>1 DEF StoreItems
<1>12. CASE StoreResult(w)
  <2>1. CASE Exists(job[w])
    BY <1>2, <1>12, <2>1 DEF StoreResult, Update, ActiveStates
  <2> QED BY <1>4, <1>12, <2>1 DEF StoreResult
<1>13. CASE SetCleaning(w)
  BY <1>2, <1>13 DEF SetCleaning, Goto, Settling, Cleanup
<1>14. CASE Handle(w)
  <2>1. CASE pc[w] = "h_fail" /\ Exists(job[w])
    <3>1. row'[job[w]] = [row[job[w]] EXCEPT !.state = "failed", !.expiry = "failed"]
      BY <1>2, <1>14, <2>1 DEF Handle, Update
    <3>2. row'[job[w]].state = "failed"
      BY <1>2, <3>1 DEF Row
    <3> QED BY <3>2 DEF ActiveStates
  <2>2. CASE pc[w] = "h_fail" /\ ~Exists(job[w])
    BY <1>14, <2>2 DEF Handle, Update, Exists, NoRow, ActiveStates
  <2> QED BY <1>5, <1>14, <2>1, <2>2 DEF Handle
<1> QED BY <1>6, <1>7, <1>8, <1>9, <1>10, <1>11, <1>12, <1>13, <1>14 DEF ActionStep

(* The steps of a worker at its job. *)
LEMMA ActionStrands ==
    ASSUME Base, NoStrandedJob, NEW w \in Worker, ActionStep(w) \/ CallFails(w)
    PROVE  NoStrandedJob'
<1>1. ActionEffect(w)
  BY ActionEffects DEF Base
<1>2. Settling(w)' \/ row'[job[w]].state \notin ActiveStates
  BY ActionSettles DEF Base
<1>3. \A j \in Job : row'[j].state \in ActiveStates =>
          ServedBy(w, j)' \/ (row[j].state \in ActiveStates /\ ~ServedBy(w, j))
  BY <1>1, <1>2 DEF ActionEffect, Rewritten, ServedBy, Actor, Coroutine
<1> QED BY <1>1, <1>3, StrandsNone DEF ActionEffect, InQueue, Actor, Coroutine

(* An action that is taken from the queue is served by its worker. *)
LEMMA LoopStrands ==
    ASSUME Base, NoStrandedJob, NEW w \in Worker, TakeAction(w) \/ ActionEnds(w)
    PROVE  NoStrandedJob'
<1>1. OthersKeep(w) /\ UNCHANGED <<row, mode>> /\ \A j : ~ServedBy(w, j)
  BY DEF TakeAction, ActionEnds, OthersKeep, Goto, Base, TypeOK, ControlOK, baidu, process,
     ServedBy, Settling, Import, Transfer, Handler, Cleanup, Actor, Coroutine
<1>2. ASSUME NEW j \in Job, InQueue(j), TakeAction(w) PROVE InQueue(j)' \/ ServedBy(w, j)'
  <2>1. PICK i \in 1..Len(queue) : queue[i] \in {<<"import", j>>, <<"transfer", j>>}
    BY <1>2 DEF InQueue
  <2>2. queue \in Seq(Action \X Job) /\ queue # <<>> /\ queue' = Tail(queue)
    BY <1>2 DEF Base, TypeOK, DataOK, TakeAction
  <2>3. CASE i = 1
    <3>1. Head(queue)[2] = j /\ FirstLabel(Head(queue)[1]) \in {"i_get", "t_get"}
      BY <2>1, <2>2, <2>3, Taken DEF FirstLabel
    <3> QED BY <1>2, <3>1 DEF TakeAction, ServedBy, Settling, Goto, Import, Transfer, Base, TypeOK,
               ControlOK, Actor, Coroutine
  <2>4. CASE i # 1
    <3>1. i - 1 \in 1..Len(queue') /\ queue'[i - 1] = queue[i]
      BY <2>1, <2>2, <2>4, Taken
    <3> QED BY <2>1, <3>1 DEF InQueue
  <2> QED BY <2>3, <2>4
<1>3. ActionEnds(w) => \A j : InQueue(j) => InQueue(j)'
  BY DEF ActionEnds, calls, InQueue
<1> QED BY <1>1, <1>2, <1>3, StrandsNone DEF Actor, Coroutine

(* _cleanup_remote after a transfer returns to it, and a CancelledError    *)
(* takes the worker to its handler. *)
LEMMA CleanupStrands ==
    ASSUME Base, NoStrandedJob, NEW a \in Coroutine, CleanupStep(a)
    PROVE  NoStrandedJob'
<1>1. CleanupEffect(a)
  BY CleanupEffects DEF Base
<1>2. \A j \in Job : row'[j].state = row[j].state
  <2>1. \A j \in Job : row[j] \in Row /\ row \in [Job -> Row]
    BY DEF Base, TypeOK, DataOK
  <2> QED BY <1>1, <2>1 DEF CleanupEffect, Row
<1>3. mode = "up" => \A j \in Job : ServedBy(a, j) => ServedBy(a, j)'
  <2> SUFFICES ASSUME mode = "up", a \in Worker, after[a] = "t_store"
               PROVE  Settling(a)' /\ UNCHANGED job
    BY <1>1 DEF ServedBy, CleanupEffect, Settling, Import, Transfer, Handler, Cleanup, Coroutine, Actor
  <2> QED BY <1>1 DEF CleanupEffect, Stays, Returns, Leaves, InTask, Settling, Transfer, Handler
<1>4. \A j : InQueue(j) => InQueue(j)'
  BY <1>1 DEF CleanupEffect, InQueue
<1>5. mode # "up" => NoStrandedJob'
  BY <1>1 DEF CleanupEffect, NoStrandedJob
<1> QED BY <1>1, <1>2, <1>3, <1>4, <1>5, StrandsNone DEF CleanupEffect, Actor

LEMMA ThrowStrands ==
    ASSUME Base, NoStrandedJob, NEW a \in Coroutine, Throw(a)
    PROVE  NoStrandedJob'
<1>1. ThrowEffect(a)
  BY ThrowEffects DEF Base
<1>2. mode = "up" => \A j \in Job : ServedBy(a, j) => ServedBy(a, j)'
  <2> SUFFICES ASSUME mode = "up", NEW j \in Job, ServedBy(a, j)
               PROVE  Settling(a)' /\ UNCHANGED job
    BY DEF ServedBy, Coroutine
  <2>1. a \in Worker /\ InTask(a) /\ Settling(a)
    BY <1>1 DEF ServedBy, ThrowEffect, Base, CancelHeld, Actor, Coroutine
  <2> QED BY <1>1, <2>1 DEF ThrowEffect, Leaves, Settling, Import, Transfer, Handler, Cleanup
<1>3. \A j : InQueue(j) => InQueue(j)'
  BY <1>1 DEF ThrowEffect, InQueue
<1>4. mode # "up" => NoStrandedJob'
  BY <1>1 DEF ThrowEffect, NoStrandedJob
<1> QED BY <1>1, <1>2, <1>3, <1>4, StrandsNone DEF ThrowEffect, Actor

(* A request that makes a job active puts its action into the queue. *)
LEMMA RequestStrands ==
    ASSUME Base, NoStrandedJob, NEW c \in Client,
           Requests(RequestArrives(c)) \/ Requests(RequestGoesOn(c))
    PROVE  NoStrandedJob'
<1>1. RequestKeeps(c)
  BY RequestEffects DEF Base
<1>2. pc[c] # "idle" => job[c] \in Job
  BY AtJob DEF Base
<1>3. \A j : InQueue(j) => InQueue(j)'
  <2>1. queue \in Seq(Action \X Job)
    BY DEF Base, TypeOK, DataOK
  <2>2. queue' = queue \/ \E x \in Action : pc[c] # "idle" /\ queue' = Append(queue, <<x, job[c]>>)
    BY DEF Requests, RequestArrives, RequestGoesOn, Create, ReadForSelection, ReadForCancel,
     InsertRow, Put, CommitSelection, CommitCancel, DeliverCancel, Action
  <2>3. ASSUME NEW x \in Action, pc[c] # "idle", queue' = Append(queue, <<x, job[c]>>)
        PROVE  \A i \in 1..Len(queue) : i \in 1..Len(queue') /\ queue'[i] = queue[i]
    <3>1. <<x, job[c]>> \in Action \X Job
      BY <1>2, <2>3
    <3> QED BY <2>1, <2>3, <3>1, Appended
  <2> QED BY <2>2, <2>3 DEF InQueue
<1>4. ASSUME Requests(RequestArrives(c)), NEW j \in Job
      PROVE  row'[j].state = row[j].state /\ ~ServedBy(c, j)
  BY <1>4 DEF Requests, RequestArrives, Create, ReadForSelection, ReadForCancel, ServedBy, Actor, Coroutine
<1>5. ASSUME Requests(RequestGoesOn(c)), NEW j \in Job, row'[j].state \in ActiveStates
      PROVE  \/ ServedBy(c, j)' \/ InQueue(j)'
             \/ row[j].state \in ActiveStates /\ ~ServedBy(c, j)
  <2>1. pc[c] # "idle" /\ job[c] \in Job
    BY <1>2, <1>5 DEF Requests, RequestGoesOn, InsertRow, Put, CommitSelection, CommitCancel, DeliverCancel
  <2>2. c \in Actor /\ pc \in [Actor -> WorkerLabel \cup ReaperLabel \cup ClientLabel]
        /\ row \in [Job -> Row] /\ queue \in Seq(Action \X Job)
    BY DEF Actor, Base, TypeOK, ControlOK, DataOK
  <2>3. CASE InsertRow(c)
    BY <1>5, <2>1, <2>2, <2>3 DEF InsertRow, ServedBy, Goto
  <2>4. CASE Put(c, "put_import", "import") \/ Put(c, "put_transfer", "transfer")
    <3>1. row' = row /\ \E x \in {"import", "transfer"} : queue' = Append(queue, <<x, job[c]>>)
      BY <2>4 DEF Put
    <3>2. \A x \in {"import", "transfer"} :
             LET q == Append(queue, <<x, job[c]>>)
             IN  Len(queue) + 1 \in 1..Len(q) /\ q[Len(queue) + 1] = <<x, job[c]>>
      BY <2>1, <2>2, Appended DEF Action
    <3>3. j = job[c] => InQueue(j)'
      BY <3>1, <3>2 DEF InQueue
    <3> QED BY <1>5, <3>1, <3>3 DEF ServedBy
  <2>5. CASE CommitSelection(c) \/ CommitCancel(c)
    <3>1. CASE CommitSelection(c) /\ Exists(job[c]) /\ j = job[c]
      BY <2>2, <3>1 DEF CommitSelection, ServedBy, Goto
    <3>2. pc[c] \in {"sel_commit", "cancel_commit"}
      BY <2>5 DEF CommitSelection, CommitCancel
    <3>3. CASE j # job[c] \/ ~Exists(job[c])
      BY <1>5, <2>5, <3>2, <3>3, CommitEffects DEF Committed, ServedBy, Base, Actor, Coroutine, Exists, NoRow
    <3>4. CASE CommitCancel(c) /\ j = job[c] /\ Exists(job[c])
      BY <1>5, <3>4, CommitEffects DEF Committed, ActiveStates, Base
    <3> QED BY <2>5, <3>1, <3>3, <3>4
  <2>6. CASE DeliverCancel(c)
    BY <1>5, <2>6 DEF DeliverCancel, ServedBy, Actor, Coroutine
  <2> QED BY <1>5, <2>3, <2>4, <2>5, <2>6 DEF Requests, RequestGoesOn
<1> QED BY <1>1, <1>3, <1>4, <1>5, StrandsNone DEF RequestKeeps, Actor

(* While the service is up, a job in one of the states that                *)
(* _mark_interrupted_jobs calls active has a queue entry, a request about  *)
(* to put one, or a worker that will move it on, whatever calls fail, are  *)
(* cancelled, and wherever the process dies: for any number of jobs,       *)
(* workers and requests.                                                   *)
THEOREM NoJobStranded == Spec => []NoStrandedJob
<1>1. Init => NoStrandedJob
  BY DEF Init, NoStrandedJob, BlankRow, ActiveStates
<1>2. Base /\ NoStrandedJob /\ [Next]_vars => NoStrandedJob'
  <2> SUFFICES ASSUME Base, NoStrandedJob, [Next]_vars PROVE NoStrandedJob'
    OBVIOUS
  <2>1. ASSUME NEW w \in Worker, WorkerStep(w) PROVE NoStrandedJob'
    BY <2>1, ActionStrands, LoopStrands DEF WorkerStep
  <2>2. ASSUME NEW a \in Coroutine, CleanupStep(a) \/ Throw(a) PROVE NoStrandedJob'
    BY <2>2, CleanupStrands, ThrowStrands
  <2>3. ASSUME NEW c \in Client, Requests(RequestArrives(c)) \/ Requests(RequestGoesOn(c))
        PROVE  NoStrandedJob'
    BY <2>3, RequestStrands
  <2>4. CASE ReaperStep
    <3>1. OthersKeep(Reaper) /\ UNCHANGED <<mode, queue>> /\ \A j : ~ServedBy(Reaper, j)
      BY <2>4 DEF ReaperStep, SelectExpired, CleanNext, DeleteRows, process, calls, OthersKeep, Goto,
         ServedBy, Base, TypeOK, ControlOK
    <3>2. \A j \in Job : row'[j].state \in ActiveStates => row[j].state \in ActiveStates
      BY <2>4 DEF ReaperStep, SelectExpired, CleanNext, DeleteRows, baidu, BlankRow, ActiveStates
    <3> QED BY <3>1, <3>2, StrandsNone DEF InQueue, Actor, Coroutine
  <2>5. CASE (\E j \in Job : TimePasses(j)) \/ OrphanLockExpires \/ Stop
    <3>1. /\ mode' = "up" => mode = "up"
          /\ UNCHANGED <<queue, pc, job, after>>
      BY <2>5 DEF TimePasses, OrphanLockExpires, Stop, process, calls
    <3>2. \A j \in Job : row'[j].state = row[j].state
      <4>1. row \in [Job -> Row] /\ \A j \in Job : row[j] \in Row
        BY DEF Base, TypeOK, DataOK
      <4> QED BY <2>5, <4>1 DEF TimePasses, OrphanLockExpires, Stop, baidu, Row
    <3> QED BY <3>1, <3>2 DEF NoStrandedJob, Settling
  <2>6. CASE Stopped \/ Crash
    BY <2>6 DEF Stopped, Crash, ProcessEnds, NoStrandedJob
  <2>7. CASE Start
    <3>1. \A j \in Job : row'[j].state \notin ActiveStates
      <4>1. \A j \in Job : row[j] \in Row
        BY DEF Base, TypeOK, DataOK
      <4> QED BY <2>7, <4>1, StartEffects DEF Restarted, ActiveStates, Row, Base
    <3> QED BY <3>1 DEF NoStrandedJob
  <2>8. CASE UNCHANGED vars
    BY <2>8 DEF vars, NoStrandedJob, Settling
  <2>9. CASE \E j \in Job : LateMkdir(j)
    BY <2>9 DEF LateMkdir, calls, NoStrandedJob, Settling
  <2> QED BY <2>1, <2>2, <2>3, <2>4, <2>5, <2>6, <2>7, <2>8, <2>9 DEF Next
<1> QED BY <1>1, <1>2, BaseInvariant, PTL DEF Spec

-----------------------------------------------------------------------------
(* One owner.  A job under way has one: a request, an entry of the queue   *)
(* or a worker, which fits the state of its row.  So the worker is the one *)
(* cancel() finds, and nobody removes the copy that is to be transferred.  *)
(* This needs that a selection is submitted once: select_items checks and  *)
(* changes the state in two steps.                                         *)

(* A worker that has a job's state to move on. *)
Owning(w) == \/ pc[w] \in Import \cup Transfer \cup {"h_fail"}
             \/ pc[w] \in Cleanup /\ after[w] = "t_store"
OwnsW(w, j) == job[w] = j /\ Owning(w)
OwnsC(c, j) == job[c] = j /\ pc[c] \in {"insert", "put_import", "sel_commit", "put_transfer"}

(* The state of the row, wherever one of them is. *)
FitsC(l, s) ==
    /\ l # "insert" /\ (l = "put_import" => s = "queued_import")
    /\ l = "sel_commit" => s = "awaiting_selection"
    /\ l = "put_transfer" => s = "queued_transfer"
FitsQ(action, s) ==
    /\ action = "import" => s = "queued_import"
    /\ action = "transfer" => s = "queued_transfer"
    /\ action = "cleanup" => s \in TERMINAL_JOB_STATES
FitsW(l, r, s) ==
    /\ l \notin {"i_quit", "i_drop"} /\ (l = "h_fail" => s \in ActiveStates)
    /\ l \in {"i_get", "i_state"} => s = "queued_import"
    /\ l \in {"i_lock", "i_check", "i_mkdir", "i_share", "i_check2", "i_scan", "i_store"}
          => s = "importing"
    /\ l \in {"t_get", "t_state"} => s = "queued_transfer"
    /\ l \in {"t_locate", "t_upload", "t_cleaning", "x_cancel"} => s = "transferring"
    /\ l \in Cleanup \cup {"t_store"} => s = "cleaning"
    /\ l \in (Import \cup Transfer) \ {"t_store"} => r = "end"
    /\ l = "h_fail" => r = "w_get"

StateFits(j) ==
    /\ \A c \in Client : OwnsC(c, j) => FitsC(pc[c], row[j].state)
    /\ \A i \in 1..Len(queue) : queue[i][2] = j => FitsQ(queue[i][1], row[j].state)
    /\ \A w \in Worker : OwnsW(w, j) => FitsW(pc[w], after[w], row[j].state)

(* At most one of them is at the job. *)
OneOwner(j) ==
    /\ \A c \in Client : OwnsC(c, j) =>
          /\ \A d \in Client : OwnsC(d, j) => d = c
          /\ \A i \in 1..Len(queue) : queue[i][2] # j
          /\ \A w \in Worker : ~OwnsW(w, j)
    /\ \A i \in 1..Len(queue) : queue[i][2] = j =>
          /\ \A w \in Worker : ~OwnsW(w, j)
          /\ \A k \in 1..Len(queue) : queue[k][2] = j /\ queue[i][1] # "cleanup" => k = i
    /\ \A v, w \in Worker : OwnsW(v, j) /\ OwnsW(w, j) => v = w

(* Another worker at the job does nothing to it before it has ended. *)
Others(j) == \A w \in Worker : job[w] = j /\ ~Owning(w) =>
    pc[w] \in {"end", "off", "w_get"} \/ row[j].state \in TERMINAL_JOB_STATES

Reg(j) == \A w \in Worker : OwnsW(w, j) => activeJobs[j] = w

(* While the job is under way, the expiration loop does not know it, and   *)
(* its copy is at Baidu once it was imported.                              *)
Source(j) == row[j].expiry # "past" =>
    /\ row[j].state \notin TERMINAL_JOB_STATES =>
          ~(job[Reaper] = j /\ pc[Reaper] \in Cleanup) /\ j \notin expiredIds
    /\ row[j].state \in {"awaiting_selection", "queued_transfer", "transferring"} => folder[j] = "live"
    /\ \A w \in Worker :
          job[w] = j /\ pc[w] \in {"i_share", "i_check2", "i_scan", "i_store"} => folder[j] = "live"

Owner(j) == Live(j) =>
    StateFits(j) /\ OneOwner(j) /\ Others(j) /\ Reg(j) /\ Source(j)
Ownership == \A j \in Job : Owner(j)

-----------------------------------------------------------------------------
(* Steps that leave the owner alone, and steps of the owner. *)

(* A coroutine or request that does not own the job after its step, and    *)
(* that changes neither its state nor a copy that is still needed.         *)
LEMMA OwnerFrame ==
    ASSUME NEW j \in Job, Owner(j), NEW a \in Actor, OthersKeep(a), QueueKept(j),
           Live(j)' => Live(j) /\ row'[j].state = row[j].state
                               /\ row'[j].expiry \in {row[j].expiry, "past"},
           a \in Worker /\ job'[a] = j => ~Owning(a)' /\
               (pc'[a] \in {"end", "off", "w_get"} \/ row'[j].state \in TERMINAL_JOB_STATES),
           a \in Client => ~OwnsC(a, j)',
           a = Reaper /\ job'[a] = j /\ pc'[a] \in Cleanup =>
               row[j].state \in TERMINAL_JOB_STATES \/ row'[j].expiry = "past",
           \A w \in Worker \ {a} : OwnsW(w, j) /\ activeJobs[j] = w => activeJobs'[j] = w,
           \/ folder'[j] = folder[j]
           \/ row[j].state \in TERMINAL_JOB_STATES \/ row'[j].expiry = "past",
           j \in expiredIds' => j \in expiredIds \/ row'[j].expiry = "past"
    PROVE  Owner(j)'
<1> SUFFICES ASSUME Live(j)'
             PROVE  (StateFits(j) /\ OneOwner(j) /\ Others(j) /\ Reg(j) /\ Source(j))'
  BY DEF Owner
<1>1. /\ StateFits(j) /\ OneOwner(j) /\ Others(j) /\ Reg(j) /\ Source(j)
      /\ row'[j].state = row[j].state /\ row'[j].expiry \in {row[j].expiry, "past"}
  BY DEF Owner
<1>2. \A w \in Worker : OwnsW(w, j)' => w # a /\ OwnsW(w, j) /\ pc'[w] = pc[w]
                                              /\ after'[w] = after[w]
  BY DEF OwnsW, Owning, OthersKeep, Actor, Coroutine
<1>3. \A c \in Client : OwnsC(c, j)' => c # a /\ OwnsC(c, j) /\ pc'[c] = pc[c]
  BY DEF OwnsC, OthersKeep, Actor
<1>4. PICK s \in {0, 1} : \A i \in 1..Len(queue') :
         queue'[i][2] = j => i + s \in 1..Len(queue) /\ queue'[i] = queue[i + s]
  BY DEF QueueKept
<1>5. StateFits(j)'
  BY <1>1, <1>2, <1>3, <1>4 DEF StateFits
<1>6. OneOwner(j)'
  <2>1. \A c \in Client : OwnsC(c, j)' =>
           /\ \A d \in Client : OwnsC(d, j)' => d = c
           /\ \A i \in 1..Len(queue') : queue'[i][2] # j
           /\ \A w \in Worker : ~OwnsW(w, j)'
    BY <1>1, <1>2, <1>3, <1>4 DEF OneOwner
  <2>2. ASSUME NEW i \in 1..Len(queue'), queue'[i][2] = j
        PROVE  /\ \A w \in Worker : ~OwnsW(w, j)'
               /\ \A k \in 1..Len(queue') : queue'[k][2] = j /\ queue'[i][1] # "cleanup" => k = i
    <3>1. i + s \in 1..Len(queue) /\ queue[i + s] = queue'[i]
      BY <1>4, <2>2
    <3>2. \A w \in Worker : ~OwnsW(w, j)'
      BY <1>1, <1>2, <2>2, <3>1 DEF OneOwner
    <3>3. ASSUME NEW k \in 1..Len(queue'), queue'[k][2] = j, queue'[i][1] # "cleanup"
          PROVE  k + s = i + s
      <4>1. k + s \in 1..Len(queue) /\ queue[k + s] = queue'[k]
        BY <1>4, <3>3
      <4> QED BY <1>1, <2>2, <3>1, <3>3, <4>1 DEF OneOwner
    <3>4. \A k \in 1..Len(queue') : k + s = i + s => k = i
      OBVIOUS
    <3> QED BY <3>2, <3>3, <3>4
  <2>3. \A v, w \in Worker : OwnsW(v, j)' /\ OwnsW(w, j)' => v = w
    BY <1>1, <1>2 DEF OneOwner
  <2> QED BY <2>1, <2>2, <2>3 DEF OneOwner
<1>7. Others(j)'
  <2>1. \A w \in Worker \ {a} : pc'[w] = pc[w] /\ job'[w] = job[w] /\ (Owning(w)' <=> Owning(w))
    BY DEF OthersKeep, Owning, Actor, Coroutine
  <2> QED BY <1>1, <2>1 DEF Others
<1>8. Reg(j)'
  BY <1>1, <1>2 DEF Reg
<1>9. Source(j)'
  <2> SUFFICES ASSUME row'[j].expiry # "past" PROVE Source(j)'
    BY DEF Source
  <2>1. row[j].expiry # "past"
    BY <1>1
  <2>2. row[j].state \notin TERMINAL_JOB_STATES =>
           ~(job'[Reaper] = j /\ pc'[Reaper] \in Cleanup) /\ j \notin expiredIds'
    BY <1>1, <2>1 DEF Source, OthersKeep, Actor, Coroutine
  <2>3. row[j].state \in {"awaiting_selection", "queued_transfer", "transferring"} => folder'[j] = "live"
    BY <1>1, <2>1 DEF Source, TERMINAL_JOB_STATES
  <2>4. ASSUME NEW w \in Worker, job'[w] = j, pc'[w] \in {"i_share", "i_check2", "i_scan", "i_store"}
        PROVE  folder'[j] = "live"
    <3>1. OwnsW(w, j)'
      BY <2>4 DEF OwnsW, Owning, Import
    <3>2. OwnsW(w, j) /\ pc'[w] = pc[w]
      BY <1>2, <3>1
    <3>3. row[j].state = "importing"
      BY <1>1, <2>4, <3>2 DEF StateFits, FitsW
    <3> QED BY <1>1, <2>1, <2>4, <3>2, <3>3 DEF Source, OwnsW, TERMINAL_JOB_STATES
  <2> QED BY <1>1, <2>1, <2>2, <2>3, <2>4 DEF Source
<1> QED BY <1>5, <1>6, <1>7, <1>8, <1>9

(* A step of the worker that owns the job. *)
LEMMA OwnerTurn ==
    ASSUME NEW j \in Job, Owner(j), Live(j), NEW w \in Worker, OthersKeep(w), OwnsW(w, j),
           UNCHANGED <<queue, expiredIds>>, job'[w] = j,
           \/ Owning(w)' /\ FitsW(pc'[w], after'[w], row'[j].state) /\ activeJobs'[j] = activeJobs[j]
           \/ ~Owning(w)' /\ (pc'[w] \in {"end", "off", "w_get"}
                              \/ row'[j].state \in TERMINAL_JOB_STATES),
           row'[j].expiry # "past" =>
               /\ row[j].expiry # "past" \/ row'[j].state \in TERMINAL_JOB_STATES
               /\ \/ row'[j].state \in {"awaiting_selection", "queued_transfer", "transferring"}
                  \/ pc'[w] \in {"i_share", "i_check2", "i_scan", "i_store"}
                  => folder'[j] = "live"
    PROVE  Owner(j)'
<1>1. StateFits(j) /\ OneOwner(j) /\ Others(j) /\ Reg(j) /\ Source(j)
  BY DEF Owner
<1>2. row[j].state \notin TERMINAL_JOB_STATES
  BY <1>1 DEF StateFits, FitsW, OwnsW, Owning, Import, Transfer, TERMINAL_JOB_STATES, ActiveStates
<1>3. \A v \in Worker : OwnsW(v, j)' => v = w
  BY <1>1 DEF OneOwner, OwnsW, Owning, OthersKeep, Actor, Coroutine
<1>4. \A c \in Client : ~OwnsC(c, j)'
  <2>1. \A c \in Client : ~OwnsC(c, j)
    BY <1>1 DEF OneOwner
  <2> QED BY <2>1 DEF OwnsC, OthersKeep, Actor, Coroutine
<1>5. \A i \in 1..Len(queue') : queue'[i][2] # j
  BY <1>1 DEF OneOwner
<1>6. StateFits(j)' /\ OneOwner(j)'
  BY <1>3, <1>4, <1>5 DEF StateFits, OneOwner, OwnsW
<1>7. Others(j)'
  <2>1. \A v \in Worker \ {w} : pc'[v] = pc[v] /\ job'[v] = job[v] /\ (Owning(v)' <=> Owning(v))
    BY DEF OthersKeep, Owning, Actor, Coroutine
  <2> QED BY <1>1, <1>2, <2>1 DEF Others
<1>8. Reg(j)'
  BY <1>1, <1>3 DEF Reg, OwnsW
<1>9. Source(j)'
  <2> SUFFICES ASSUME row'[j].expiry # "past" PROVE Source(j)'
    BY DEF Source
  <2>1. row'[j].state \notin TERMINAL_JOB_STATES =>
           ~(job'[Reaper] = j /\ pc'[Reaper] \in Cleanup) /\ j \notin expiredIds'
    <3>1. pc'[Reaper] = pc[Reaper] /\ job'[Reaper] = job[Reaper]
      BY DEF OthersKeep, Actor, Coroutine
    <3> QED BY <1>1, <1>2, <3>1 DEF Source
  <2>2. \A v \in Worker : job'[v] = j /\ pc'[v] \in {"i_share", "i_check2", "i_scan", "i_store"} => v = w
    BY <1>3 DEF OwnsW, Owning, Import
  <2> QED BY <2>1, <2>2 DEF Source
<1> QED BY <1>6, <1>7, <1>8, <1>9 DEF Owner

(* What one step of an action does to its own job. *)
Turn(w, j) ==
    /\ \/ Owning(w)' /\ FitsW(pc'[w], after'[w], row'[j].state)
       \/ ~Owning(w)' /\ (pc'[w] = "end" \/ row'[j].state \in TERMINAL_JOB_STATES)
    /\ row'[j].expiry = row[j].expiry \/ row'[j].state \in TERMINAL_JOB_STATES
    /\ row'[j].state = "awaiting_selection" => pc[w] = "i_store"
    /\ row'[j].state \in {"queued_transfer", "transferring"} =>
          row[j].state \in {"queued_transfer", "transferring"}
    /\ pc'[w] \in {"i_share", "i_check2", "i_scan", "i_store"} =>
          pc[w] \in {"i_share", "i_check2", "i_scan"} \/ folder'[j] = "live"
    /\ folder'[j] \in {folder[j], "live"}

LEMMA ActionTurn ==
    ASSUME TypeOK, NEW w \in Worker, ActionStep(w) \/ CallFails(w), NEW j \in Job, j = job[w],
           Live(j), Owning(w), FitsW(pc[w], after[w], row[j].state)
    PROVE  Turn(w, j)
<1>1. /\ pc \in [Actor -> WorkerLabel \cup ReaperLabel \cup ClientLabel] /\ w \in Actor /\ w \in Coroutine
      /\ after \in [Coroutine -> {"t_store", "end", "w_get", "r_next"}]
      /\ row \in [Job -> Row] /\ row[j] \in Row /\ folder \in [Job -> {"none", "live", "recycled", "purged"}]
      /\ Exists(j) /\ row[j].cancelRequested = FALSE
  BY DEF TypeOK, ControlOK, DataOK, Actor, Coroutine, Live, Row
<1>2. ASSUME NEW s, SetState(j, s)
      PROVE  row'[j].state = s /\ row'[j].expiry = row[j].expiry
  BY <1>1, <1>2 DEF SetState, Update, Row
<1>3. ASSUME NEW l, Goto(w, l), UNCHANGED after
      PROVE  /\ pc'[w] = l
             /\ Owning(w)' <=> l \in Import \cup Transfer \cup {"h_fail"} \/ (l \in Cleanup /\ after[w] = "t_store")
  BY <1>1, <1>3 DEF Goto, Owning
<1>4. ASSUME Raise(w), UNCHANGED baidu, row[j].state \in ActiveStates PROVE Turn(w, j)
  BY <1>1, <1>4 DEF Raise, Goto, baidu, Turn, Owning, FitsW, Import, Transfer, Cleanup, ActiveStates
<1> USE <1>1 DEF FitsW, Proceed, Turn, Import, Transfer, Handler, Cleanup, ActiveStates, TERMINAL_JOB_STATES
<1>5. CASE ImportGet(w) \/ AcquireForImport(w)
  BY <1>3, <1>5 DEF ImportGet, AcquireForImport, baidu, Owning
<1>6. CASE SetImporting(w)
  BY <1>2, <1>3, <1>6 DEF SetImporting
<1>7. CASE CheckCancelled(w)
  <2>1. (pc[w] = "i_check" /\ Proceed(w, "i_mkdir")) \/ (pc[w] = "i_check2" /\ Proceed(w, "i_scan"))
    BY <1>7 DEF CheckCancelled
  <2> QED BY <1>3, <1>7, <2>1 DEF CheckCancelled, baidu
<1>8. CASE Mkdir(w)
  BY <1>3, <1>8 DEF Mkdir
<1>9. CASE ImportShare(w)
  BY <1>3, <1>9 DEF ImportShare
<1>10. CASE ScanTree(w) \/ Locate(w) \/ Upload(w)
  <2>1. UNCHANGED baidu /\ row[j].state \in ActiveStates
    BY <1>10 DEF ScanTree, Locate, Upload
  <2>2. Raise(w) \/ \E l \in {"i_store", "t_upload", "t_cleaning"} : Proceed(w, l)
    BY <1>10 DEF ScanTree, Locate, Upload
  <2> QED BY <1>3, <1>4, <1>10, <2>1, <2>2 DEF ScanTree, Locate, Upload, baidu
<1>11. CASE StoreItems(w)
  BY <1>3, <1>11 DEF StoreItems, Update, Row
<1>12. CASE TransferGet(w)
  BY <1>3, <1>12 DEF TransferGet, baidu
<1>13. CASE SetTransferring(w)
  BY <1>2, <1>3, <1>13 DEF SetTransferring
<1>14. CASE CancelInside(w)
  <2>1. row'[j].state = "cancelled" /\ pc'[w] = "c_get" /\ after[w] = "end" /\ UNCHANGED after
        /\ row'[j].expiry = row[j].expiry
    BY <1>2, <1>3, <1>14 DEF CancelInside
  <2> QED BY <1>14, <2>1 DEF CancelInside, Owning
<1>15. CASE SetCleaning(w)
  BY <1>2, <1>15 DEF SetCleaning, CleaningState, Goto, Owning
<1>16. CASE StoreResult(w)
  BY <1>3, <1>16 DEF StoreResult, Update, Row
<1>17. CASE Handle(w)
  <2>1. pc[w] = "h_fail" /\ after[w] # "t_store"
    BY <1>17 DEF Handle, Owning
  <2>2. row'[j] = [row[j] EXCEPT !.state = "failed", !.expiry = "failed"]
    BY <1>17, <2>1 DEF Handle, Update
  <2>3. row'[j].state = "failed"
    BY <2>2 DEF Row
  <2>4. pc'[w] = "c_get" /\ UNCHANGED <<folder, after>>
    BY <1>3, <1>17 DEF Handle
  <2> QED BY <2>1, <2>3, <2>4 DEF Owning
<1>18. CASE CallFails(w)
  <2>1. pc[w] # "i_drop" /\ Raise(w) /\ UNCHANGED baidu
    BY <1>18 DEF CallFails, baidu, Owning
  <2>2. row[j].state \in ActiveStates
    BY <1>18, <2>1 DEF CallFails
  <2> QED BY <1>4, <2>1, <2>2
<1> QED BY <1>5, <1>6, <1>7, <1>8, <1>9, <1>10, <1>11, <1>12, <1>13, <1>14, <1>15, <1>16, <1>17,
           <1>18 DEF ActionStep, QuitCancelled

-----------------------------------------------------------------------------
(* Every step keeps the owners of a job. *)

(* Nothing keeps a cancelled job from any owner. *)
LEMMA OwnerGone == ASSUME NEW j \in Job, ~Live(j)' PROVE Owner(j)'
BY DEF Owner

LEMMA ActionOwner ==
    ASSUME Base, NEW j \in Job, Owner(j), NEW w \in Worker, ActionStep(w) \/ CallFails(w)
    PROVE  Owner(j)'
<1> SUFFICES ASSUME Live(j)' PROVE Owner(j)'
  BY OwnerGone
<1>1. ActionEffect(w)
  BY ActionEffects DEF Base
<1>2. Live(j)
  BY <1>1 DEF ActionEffect, Rewritten, Live, Exists
<1>3. CASE j = job[w]
  <2>1. OwnsW(w, j)
    BY <1>1, <1>2, <1>3 DEF ActionEffect, OwnsW, Owning, Base, CancelHeld, Handler
  <2>2. FitsW(pc[w], after[w], row[j].state) /\ Source(j)
    BY <1>2, <2>1 DEF Owner, StateFits
  <2>3. Turn(w, j)
    BY <1>2, <1>3, <2>1, <2>2, ActionTurn DEF OwnsW, Base
  <2>4. row'[j].state \in {"awaiting_selection", "queued_transfer", "transferring"}
        \/ pc'[w] \in {"i_share", "i_check2", "i_scan", "i_store"}
        => row'[j].state \notin TERMINAL_JOB_STATES
    <3>1. pc'[w] \in {"i_share", "i_check2", "i_scan", "i_store"} => row'[j].state = "importing"
      BY <2>3 DEF Turn, Owning, FitsW, Import
    <3> QED BY <3>1 DEF TERMINAL_JOB_STATES
  <2>5. row'[j].expiry # "past" =>
           (row'[j].state \in {"awaiting_selection", "queued_transfer", "transferring"}
            \/ pc'[w] \in {"i_share", "i_check2", "i_scan", "i_store"}
            => folder'[j] = "live")
    BY <1>3, <2>2, <2>3, <2>4 DEF Turn, Source
  <2>6. row'[j].expiry # "past" =>
           row[j].expiry # "past" \/ row'[j].state \in TERMINAL_JOB_STATES
    BY <2>3 DEF Turn
  <2>7. \/ Owning(w)' /\ FitsW(pc'[w], after'[w], row'[j].state)
        \/ ~Owning(w)' /\ (pc'[w] = "end" \/ row'[j].state \in TERMINAL_JOB_STATES)
    BY <2>3 DEF Turn
  <2> QED BY <1>1, <1>2, <1>3, <2>1, <2>5, <2>6, <2>7, OwnerTurn DEF ActionEffect
<1>4. CASE j # job[w]
  BY <1>1, <1>2, <1>4, OwnerFrame DEF ActionEffect, Rewritten, QueueKept, Actor, Coroutine
<1> QED BY <1>3, <1>4

(* A coroutine that removes the folder of a job does so for its owner, or  *)
(* the job is over.                                                        *)
LEMMA RemoverFacts ==
    ASSUME TypeOK, NEW j \in Job, Owner(j), Live(j), NEW a \in Coroutine, job[a] = j, pc[a] \in Cleanup
    PROVE  \/ a \in Worker /\ OwnsW(a, j) /\ after[a] = "t_store" /\ row[j].state = "cleaning"
           \/ /\ a \in Worker => ~Owning(a) /\ after[a] \in {"end", "w_get"}
              /\ row[j].state \in TERMINAL_JOB_STATES \/ (a = Reaper /\ row[j].expiry = "past")
<1>1. CASE a \in Worker /\ Owning(a)
  BY <1>1 DEF Owner, StateFits, FitsW, OwnsW, Owning, Cleanup, Import, Transfer
<1>2. CASE a \in Worker /\ ~Owning(a)
  <2>1. after[a] \in {"end", "w_get"}
    BY <1>2 DEF Owning, TypeOK, ControlOK, WorkerOK
  <2> QED BY <1>2, <2>1 DEF Owner, Others, Cleanup
<1>3. CASE a = Reaper
  BY <1>3 DEF Owner, Source
<1> QED BY <1>1, <1>2, <1>3 DEF Coroutine

LEMMA CleanupOwner ==
    ASSUME Base, NEW j \in Job, Owner(j), NEW a \in Coroutine, CleanupStep(a)
    PROVE  Owner(j)'
<1> SUFFICES ASSUME Live(j)' PROVE Owner(j)'
  BY OwnerGone
<1>1. CleanupEffect(a)
  BY CleanupEffects DEF Base
<1>2. Live(j) /\ row'[j].state = row[j].state /\ row'[j].expiry = row[j].expiry
  <2>1. row[j] \in Row /\ row \in [Job -> Row]
    BY DEF Base, TypeOK, DataOK
  <2> QED BY <1>1, <2>1 DEF CleanupEffect, Row, Live, Exists
<1>3. \A w \in Worker \ {a} : activeJobs[j] = w => activeJobs'[j] = w
  <2>1. UNCHANGED activeJobs \/ activeJobs' = Deregistered(a)
    BY <1>1 DEF CleanupEffect, Stays, Returns, Leaves
  <2> QED BY <2>1, DeregisteredFacts DEF Base
<1>4. CASE job[a] = j /\ a \in Worker /\ OwnsW(a, j) /\ after[a] = "t_store" /\ row[j].state = "cleaning"
  <2>1. \/ Stays(a)
        \/ pc'[a] = "t_store" /\ UNCHANGED <<after, job, activeJobs>>
        \/ Leaves(a) /\ pc'[a] = "off"
    BY <1>1, <1>2, <1>4 DEF CleanupEffect, Returns, Leaves, Base, CancelHeld
  <2>2. CASE Stays(a)
    BY <1>1, <1>2, <1>4, <2>2, OwnerTurn
       DEF CleanupEffect, Stays, Owning, FitsW, Cleanup, Import, Transfer
  <2>3. CASE pc'[a] = "t_store" /\ UNCHANGED <<after, job, activeJobs>>
    BY <1>1, <1>2, <1>4, <2>3, OwnerTurn
       DEF CleanupEffect, Owning, FitsW, Cleanup, Import, Transfer
  <2>4. CASE Leaves(a) /\ pc'[a] = "off"
    BY <1>1, <1>2, <1>4, <2>4, OwnerTurn
       DEF CleanupEffect, Leaves, Owning, Cleanup, Import, Transfer
  <2> QED BY <2>1, <2>2, <2>3, <2>4
<1>5. CASE /\ job[a] = j /\ a \in Worker => ~Owning(a) /\ after[a] \in {"end", "w_get"}
           /\ job[a] = j => row[j].state \in TERMINAL_JOB_STATES \/ (a = Reaper /\ row[j].expiry = "past")
  <2>1. job'[a] = j => job[a] = j
    BY <1>1 DEF CleanupEffect, Stays, Returns, Leaves
  <2>2. a \in Worker /\ job'[a] = j => ~Owning(a)' /\ row'[j].state \in TERMINAL_JOB_STATES
    BY <1>1, <1>2, <1>5, <2>1 DEF CleanupEffect, Stays, Returns, Leaves, Owning, Import, Transfer, Cleanup
  <2>3. a = Reaper /\ job'[a] = j => row[j].state \in TERMINAL_JOB_STATES \/ row'[j].expiry = "past"
    BY <1>2, <1>5, <2>1
  <2>4. folder'[j] = folder[j] \/ row[j].state \in TERMINAL_JOB_STATES \/ row'[j].expiry = "past"
    BY <1>1, <1>2, <1>5 DEF CleanupEffect
  <2>5. a \in Actor /\ a \notin Client /\ QueueKept(j)
    BY <1>1 DEF CleanupEffect, QueueKept, Actor, Coroutine
  <2> QED BY <1>1, <1>2, <1>3, <2>2, <2>3, <2>4, <2>5, OwnerFrame DEF CleanupEffect
<1> QED BY <1>1, <1>2, <1>4, <1>5, RemoverFacts DEF CleanupEffect, Base

LEMMA ThrowOwner ==
    ASSUME Base, NEW j \in Job, Owner(j), NEW a \in Coroutine, Throw(a)
    PROVE  Owner(j)'
<1> SUFFICES ASSUME Live(j)' PROVE Owner(j)'
  BY OwnerGone
<1>1. ThrowEffect(a) /\ a \in Actor /\ a \notin Client
  BY ThrowEffects DEF Base, Actor, Coroutine
<1>2. Live(j) /\ UNCHANGED <<row, job, queue, expiredIds>>
  BY <1>1 DEF ThrowEffect, Live, Exists
<1>3. \A w \in Worker \ {a} : activeJobs[j] = w => activeJobs'[j] = w
  <2>1. UNCHANGED activeJobs \/ activeJobs' = Deregistered(a)
    BY <1>1 DEF ThrowEffect, Leaves
  <2> QED BY <2>1, DeregisteredFacts DEF Base
<1>4. job[a] = j => mode # "up" /\ (pc'[a] = "x_cancel" \/ pc'[a] = "c_purge" \/ pc'[a] = "off")
  BY <1>1, <1>2 DEF ThrowEffect, Leaves, Base, CancelHeld, Coroutine
<1>5. CASE job[a] = j /\ a \in Worker /\ OwnsW(a, j)
  <2>1. FitsW(pc[a], after[a], row[j].state)
    BY <1>2, <1>5 DEF Owner, StateFits
  <2>2. CASE pc[a] = "t_upload"
    <3>1. row'[j].expiry # "past" => folder'[j] = "live"
      BY <1>1, <1>2, <2>1, <2>2 DEF ThrowEffect, Leaves, FitsW, Owner, Source
    <3>2. Owning(a)' /\ FitsW(pc'[a], after'[a], row'[j].state) /\ activeJobs'[j] = activeJobs[j]
      BY <1>1, <1>2, <2>1, <2>2 DEF ThrowEffect, Owning, FitsW, Cleanup, Import, Transfer
    <3> QED BY <1>1, <1>2, <1>5, <3>1, <3>2, OwnerTurn DEF ThrowEffect
  <2>3. CASE pc[a] = "c_remove"
    BY <1>1, <1>2, <1>5, <2>1, <2>3, OwnerTurn
       DEF ThrowEffect, OwnsW, Owning, FitsW, Cleanup, Import, Transfer
  <2>4. CASE pc'[a] = "off"
    <3>1. ~Owning(a)' /\ row[j].state \in {"awaiting_selection", "queued_transfer", "transferring"}
              => (row'[j].expiry # "past" => folder[j] = "live")
      BY <1>2 DEF Owner, Source
    <3>2. ~Owning(a)' /\ UNCHANGED folder
      BY <1>1, <2>4 DEF ThrowEffect, Owning, Cleanup, Import, Transfer
    <3> QED BY <1>1, <1>2, <1>5, <2>4, <3>1, <3>2, OwnerTurn DEF ThrowEffect
  <2> QED BY <1>1, <1>4, <1>5, <2>2, <2>3, <2>4 DEF ThrowEffect, Leaves
<1>6. CASE ~(job[a] = j /\ a \in Worker /\ OwnsW(a, j))
  <2>1. job[a] = j /\ pc[a] \in Cleanup =>
           row[j].state \in TERMINAL_JOB_STATES \/ (a = Reaper /\ row[j].expiry = "past")
    BY <1>2, <1>6, RemoverFacts DEF Base
  <2>2. a \in Worker /\ job[a] = j => ~Owning(a)' /\
            (pc'[a] = "off" \/ row'[j].state \in TERMINAL_JOB_STATES)
    BY <1>1, <1>2, <1>4, <1>6, <2>1 DEF ThrowEffect, Leaves, OwnsW, Owning, Cleanup, Import, Transfer
  <2>3. folder'[j] = folder[j] \/ row[j].state \in TERMINAL_JOB_STATES \/ row'[j].expiry = "past"
    BY <1>1, <1>2, <2>1 DEF ThrowEffect, Recycled, Cleanup, Base, TypeOK, DataOK
  <2>4. a = Reaper /\ job'[a] = j /\ pc'[a] \in Cleanup =>
            row[j].state \in TERMINAL_JOB_STATES \/ row'[j].expiry = "past"
    <3>1. job[a] = j /\ pc'[a] \in Cleanup => pc[a] = "c_remove"
      BY <1>1, <1>4 DEF ThrowEffect, Leaves, Cleanup
    <3> QED BY <1>2, <2>1, <3>1 DEF Cleanup
  <2>5. QueueKept(j)
    BY <1>2 DEF QueueKept
  <2> QED BY <1>1, <1>2, <1>3, <2>2, <2>3, <2>4, <2>5, OwnerFrame DEF ThrowEffect
<1> QED BY <1>5, <1>6

(* Somebody who is alone at the job becomes its owner, or goes on with it. *)
LEMMA OwnerAlone ==
    ASSUME NEW j \in Job, NEW a \in Actor, OthersKeep(a),
           \A w \in Worker \ {a} : ~OwnsW(w, j), \A d \in Client \ {a} : ~OwnsC(d, j),
           \A i \in 1..Len(queue') : queue'[i][2] # j,
           a \in Worker /\ OwnsW(a, j)' =>
               FitsW(pc'[a], after'[a], row'[j].state) /\ activeJobs'[j] = a,
           a \in Client /\ OwnsC(a, j)' => FitsC(pc'[a], row'[j].state),
           Others(j)', Source(j)'
    PROVE  Owner(j)'
<1>1. /\ \A w \in Worker : OwnsW(w, j)' => w = a
      /\ \A d \in Client : OwnsC(d, j)' => d = a
  BY DEF OwnsW, OwnsC, Owning, OthersKeep, Actor, Coroutine
<1>2. StateFits(j)'
  BY <1>1 DEF StateFits
<1>3. OneOwner(j)'
  BY <1>1 DEF OneOwner, Actor, Coroutine
<1>4. Reg(j)'
  BY <1>1 DEF Reg
<1> QED BY <1>2, <1>3, <1>4 DEF Owner

(* The worker that takes an action from the queue takes the job over from  *)
(* the entry. *)
LEMMA LoopOwner ==
    ASSUME Base, NEW j \in Job, Owner(j), NEW w \in Worker, TakeAction(w) \/ ActionEnds(w)
    PROVE  Owner(j)'
<1> SUFFICES ASSUME Live(j)' PROVE Owner(j)'
  BY OwnerGone
<1>1. /\ UNCHANGED <<row, folder, expiredIds>> /\ Live(j)
      /\ w \in Actor /\ w \notin Client /\ w # Reaper
      /\ pc[w] \in {"w_get", "end"} /\ ~Owning(w)
  BY DEF TakeAction, ActionEnds, baidu, sweep, Live, Exists, Actor, Coroutine, Owning, Import,
     Transfer, Cleanup
<1>2. OthersKeep(w)
  BY DEF TakeAction, ActionEnds, OthersKeep, Goto, Base, TypeOK, ControlOK
<1>3. CASE ActionEnds(w)
  <2>1. job'[w] # j /\ QueueKept(j)
    BY <1>1, <1>3 DEF ActionEnds, QueueKept, calls, Base, TypeOK, ControlOK
  <2>2. \A v \in Worker \ {w} : activeJobs[j] = v => activeJobs'[j] = v
    BY <1>3, DeregisteredFacts DEF ActionEnds, Base, Coroutine
  <2> QED BY <1>1, <1>2, <2>1, <2>2, OwnerFrame
<1>4. CASE TakeAction(w)
  <2> DEFINE n == Head(queue)[2]
             x == Head(queue)[1]
  <2>1. /\ queue \in Seq(Action \X Job) /\ queue # <<>> /\ n \in Job /\ x \in Action
        /\ 1 \in 1..Len(queue) /\ queue[1][2] = n /\ queue[1][1] = x
    BY <1>4, Taken DEF TakeAction, Base, TypeOK, DataOK
  <2>2. /\ job'[w] = n /\ after'[w] = "end" /\ pc'[w] = FirstLabel(x)
        /\ activeJobs' = [activeJobs EXCEPT ![n] = w] /\ queue' = Tail(queue)
    BY <1>4, <2>1 DEF TakeAction, Goto, Base, TypeOK, ControlOK, Actor, Coroutine
  <2>3. \A i \in 1..Len(queue') : i + 1 \in 1..Len(queue) /\ queue'[i] = queue[i + 1]
    BY <2>1, <2>2, Taken
  <2>4. QueueKept(j)
    BY <2>3 DEF QueueKept
  <2>5. CASE j # n
    <3>1. activeJobs'[j] = activeJobs[j]
      BY <2>2, <2>5 DEF Base, TypeOK, DataOK
    <3> QED BY <1>1, <1>2, <2>2, <2>4, <2>5, <3>1, OwnerFrame
  <2>6. CASE j = n
    <3>1. /\ FitsQ(x, row[j].state) /\ \A v \in Worker : ~OwnsW(v, j)
          /\ \A c \in Client : ~OwnsC(c, j)
          /\ x # "cleanup" => \A k \in 1..Len(queue) : queue[k][2] = j => k = 1
      BY <1>1, <2>1, <2>6 DEF Owner, StateFits, OneOwner
    <3>2. CASE x = "cleanup"
      <4>1. row[j].state \in TERMINAL_JOB_STATES /\ pc'[w] = "c_get" /\ ~Owning(w)'
        BY <2>2, <3>1, <3>2 DEF FitsQ, FirstLabel, Owning, Import, Transfer, Cleanup
      <4> QED BY <1>1, <1>2, <2>2, <2>4, <2>6, <3>1, <4>1, OwnerFrame
    <3>3. CASE x # "cleanup"
      <4>1. /\ FitsW(pc'[w], after'[w], row'[j].state) /\ activeJobs'[j] = w
            /\ Owning(w)' /\ pc'[w] \in {"i_get", "t_get"}
        BY <1>1, <2>1, <2>2, <2>6, <3>1, <3>3
           DEF FitsQ, FitsW, FirstLabel, Action, Owning, Import, Transfer, Cleanup, Base, TypeOK, DataOK
      <4>2. \A i \in 1..Len(queue') : queue'[i][2] # j
        <5>1. \A i \in 1..Len(queue') : i + 1 # 1
          OBVIOUS
        <5> QED BY <2>3, <3>1, <3>3, <5>1
      <4>3. \A v \in Worker \ {w} : pc'[v] = pc[v] /\ job'[v] = job[v] /\ (Owning(v)' <=> Owning(v))
        BY <1>2 DEF OthersKeep, Owning, Actor, Coroutine
      <4>4. Others(j)'
        BY <1>1, <4>1, <4>3 DEF Owner, Others
      <4>5. Source(j)'
        <5>1. pc'[Reaper] = pc[Reaper] /\ job'[Reaper] = job[Reaper]
          BY <1>1, <1>2 DEF OthersKeep, Actor, Coroutine
        <5> QED BY <1>1, <4>1, <4>3, <5>1 DEF Owner, Source
      <4> QED BY <1>1, <1>2, <3>1, <4>1, <4>2, <4>4, <4>5, OwnerAlone
    <3> QED BY <3>2, <3>3
  <2> QED BY <2>5, <2>6
<1> QED BY <1>3, <1>4

(* The expiration loop picks only jobs that are over or whose page has     *)
(* expired. *)
LEMMA ReaperOwner ==
    ASSUME Base, NEW j \in Job, Owner(j), ReaperStep
    PROVE  Owner(j)'
<1> SUFFICES ASSUME Live(j)' PROVE Owner(j)'
  BY OwnerGone
<1>1. /\ OthersKeep(Reaper) /\ UNCHANGED <<folder, queue, activeJobs>>
      /\ Reaper \in Actor /\ Reaper \notin Worker /\ Reaper \notin Client
  BY DEF ReaperStep, SelectExpired, CleanNext, DeleteRows, OthersKeep, Goto, baidu, calls, Base,
     TypeOK, ControlOK, Actor, Coroutine
<1>2. Live(j) /\ row'[j] = row[j]
  BY DEF ReaperStep, SelectExpired, CleanNext, DeleteRows, baidu, BlankRow, Live, Exists, NoRow
<1>3. job'[Reaper] = j /\ pc'[Reaper] \in Cleanup => j \in expiredIds
  BY DEF ReaperStep, SelectExpired, CleanNext, DeleteRows, Goto, Cleanup, Base, TypeOK, ControlOK,
     Actor, Coroutine
<1>4. j \in expiredIds' => j \in expiredIds \/ row[j].expiry = "past"
  BY DEF ReaperStep, SelectExpired, CleanNext, DeleteRows, Expired
<1>5. j \in expiredIds => row[j].state \in TERMINAL_JOB_STATES \/ row[j].expiry = "past"
  BY <1>2 DEF Owner, Source
<1>6. QueueKept(j)
  BY <1>1 DEF QueueKept
<1> QED BY <1>1, <1>2, <1>3, <1>4, <1>5, <1>6, OwnerFrame

(* select_items takes over a job that waits, if it is submitted once. *)
LEMMA ArrivalOwner ==
    ASSUME Base, NEW j \in Job, Owner(j), NEW c \in Client, Requests(RequestArrives(c)),
           "double_submit" \notin Allowed
    PROVE  Owner(j)'
<1> SUFFICES ASSUME Live(j)' PROVE Owner(j)'
  BY OwnerGone
<1>1. RequestKeeps(c) /\ c \in Actor /\ c \notin Worker /\ c # Reaper
  BY RequestEffects DEF Base, Actor, Coroutine
<1>2. PICK k \in Job : Create(c, k) \/ ReadForSelection(c, k) \/ ReadForCancel(c, k)
  BY DEF Requests, RequestArrives
<1>3. UNCHANGED <<row, queue>> /\ job'[c] = k /\ Live(j)
  BY <1>2 DEF Create, ReadForSelection, ReadForCancel, Base, TypeOK, ControlOK, Actor, Live, Exists
<1>4. CASE j # k \/ ReadForCancel(c, k)
  <2>1. ~OwnsC(c, j)'
    BY <1>1, <1>3, <1>4 DEF ReadForCancel, Goto, OwnsC, Base, TypeOK, ControlOK
  <2> QED BY <1>1, <1>3, <2>1, OwnerFrame DEF RequestKeeps, QueueKept
<1>5. CASE j = k /\ Create(c, k)
  BY <1>3, <1>5 DEF Create, Live, Exists, NoRow
<1>6. CASE j = k /\ ReadForSelection(c, k)
  <2>1. /\ row[j].state = "awaiting_selection"
        /\ \A d \in Client : ~(job[d] = j /\ pc[d] \in {"sel_commit", "put_transfer"})
    BY <1>6 DEF ReadForSelection
  <2>2. StateFits(j) /\ Others(j) /\ Source(j)
    BY <1>3 DEF Owner
  <2>3. \A d \in Client : ~OwnsC(d, j)
    BY <2>1, <2>2 DEF StateFits, FitsC, OwnsC
  <2>4. \A w \in Worker : ~OwnsW(w, j)
    BY <2>1, <2>2 DEF StateFits, FitsW, OwnsW, Owning, Import, Transfer, Cleanup, ActiveStates
  <2>5. \A i \in 1..Len(queue') : queue'[i][2] # j
    <3>1. \A i \in 1..Len(queue) : queue[i][1] \in Action
      BY DEF Base, TypeOK, DataOK
    <3> QED BY <1>3, <2>1, <2>2, <3>1 DEF StateFits, FitsQ, TERMINAL_JOB_STATES, Action
  <2>6. FitsC(pc'[c], row'[j].state)
    BY <1>1, <1>3, <1>6, <2>1 DEF ReadForSelection, Goto, FitsC, Base, TypeOK, ControlOK
  <2>7. Others(j)' /\ Source(j)'
    BY <1>1, <1>3, <2>2 DEF RequestKeeps, Others, Source, Owning, Coroutine
  <2> QED BY <1>1, <2>3, <2>4, <2>5, <2>6, <2>7, OwnerAlone DEF RequestKeeps
<1> QED BY <1>2, <1>4, <1>5, <1>6

(* A request that goes on with another job. *)
LEMMA ElsewhereOwner ==
    ASSUME Base, NEW j \in Job, Owner(j), Live(j)', NEW c \in Client, Requests(RequestGoesOn(c)), j # job[c]
    PROVE  Owner(j)'
<1>1. RequestKeeps(c) /\ c \in Actor /\ c \notin Worker /\ c # Reaper
      /\ pc[c] # "idle" /\ job[c] \in Job
  BY RequestEffects, AtJob DEF Base, Actor, Coroutine, Requests, RequestGoesOn, InsertRow, Put,
     CommitSelection, CommitCancel, DeliverCancel
<1>2. row'[j] = row[j]
  BY <1>1, CommitEffects DEF Requests, RequestGoesOn, InsertRow, Put, DeliverCancel, Committed, Base,
     TypeOK, DataOK
<1>3. ~OwnsC(c, j)'
  BY <1>1 DEF RequestKeeps, OwnsC
<1>4. QueueKept(j)
  BY <1>1, RequestQueue DEF Base
<1> QED BY <1>1, <1>2, <1>3, <1>4, OwnerFrame DEF RequestKeeps, Live, Exists

(* A request that goes on with the job.  The job exists before, unless it  *)
(* is inserted. *)
LEMMA InsertOwner ==
    ASSUME Base, NEW c \in Client, Requests(RequestGoesOn(c)), InsertRow(c), NEW j \in Job, j = job[c]
    PROVE  Owner(j)'
<1>1. RequestKeeps(c) /\ c \in Actor /\ c \notin Worker /\ c # Reaper
  BY RequestEffects DEF Base, Actor, Coroutine
<1>2. /\ row'[j].state = "queued_import" /\ UNCHANGED queue /\ pc'[c] = "put_import"
  BY <1>1 DEF InsertRow, BlankRow, Goto, Base, TypeOK, DataOK, ControlOK
<1>3. /\ \A a \in Coroutine : job[a] # j
      /\ \A i \in 1..Len(queue) : queue[i][2] # j
      /\ j \notin expiredIds /\ \A d \in Client : job[d] = j => d = c
  BY DEF InsertRow, Base, Inserting, Untouched
<1>4. Others(j)' /\ Source(j)'
  BY <1>1, <1>2, <1>3 DEF RequestKeeps, Others, Source, Coroutine
<1>5. /\ FitsC(pc'[c], row'[j].state)
      /\ \A w \in Worker : ~OwnsW(w, j)
      /\ \A d \in Client \ {c} : ~OwnsC(d, j)
  BY <1>2, <1>3 DEF FitsC, OwnsW, OwnsC, Coroutine
<1> QED BY <1>1, <1>2, <1>3, <1>4, <1>5, OwnerAlone DEF RequestKeeps

LEMMA HereOwner ==
    ASSUME Base, NEW j \in Job, Owner(j), Live(j)', NEW c \in Client, Requests(RequestGoesOn(c)),
           j = job[c], ~InsertRow(c)
    PROVE  Owner(j)'
<1>1. RequestKeeps(c) /\ c \in Actor /\ c \notin Worker /\ c # Reaper
  BY RequestEffects DEF Base, Actor, Coroutine
<1>2. CASE CommitCancel(c) \/ DeliverCancel(c)
  <2>1. CASE CommitCancel(c)
    BY <2>1, CommitEffects DEF Committed, Live, Base, Exists
  <2>2. CASE DeliverCancel(c)
    BY <2>2 DEF DeliverCancel, Base, CancelHeld, Live, Exists
  <2> QED BY <1>2, <2>1, <2>2
<1>3. ASSUME OwnsC(c, j), Live(j)
      PROVE  /\ FitsC(pc[c], row[j].state)
             /\ \A w \in Worker : ~OwnsW(w, j)
             /\ \A d \in Client \ {c} : ~OwnsC(d, j)
             /\ \A i \in 1..Len(queue) : queue[i][2] # j
             /\ Others(j) /\ Source(j)
  BY <1>3 DEF Owner, StateFits, OneOwner
<1>4. CASE CommitSelection(c)
  <2>1. Committed(j, "queued_transfer")
    BY <1>4, CommitEffects DEF Base
  <2>2. Live(j) /\ row'[j].state = "queued_transfer" /\ row'[j].expiry = row[j].expiry
    BY <2>1 DEF Committed, Live, Exists
  <2>3. OwnsC(c, j) /\ pc'[c] = "put_transfer" /\ UNCHANGED queue /\ row[j].state = "awaiting_selection"
    BY <1>1, <1>3, <1>4, <2>2 DEF CommitSelection, OwnsC, Goto, Live, FitsC, Base, TypeOK, ControlOK
  <2>4. Others(j)' /\ Source(j)'
    BY <1>1, <1>3, <2>2, <2>3 DEF RequestKeeps, Others, Source, Owning, TERMINAL_JOB_STATES, Coroutine
  <2> QED BY <1>1, <1>3, <2>2, <2>3, <2>4, OwnerAlone DEF RequestKeeps, FitsC
<1>5. ASSUME NEW x \in {"import", "transfer"}, queue' = Append(queue, <<x, j>>), UNCHANGED row,
             OwnsC(c, j), FitsQ(x, row[j].state), ~OwnsC(c, j)'
      PROVE  Owner(j)'
  <2>1. Live(j)
    BY <1>5 DEF Live, Exists
  <2>2. /\ \A w \in Worker : ~OwnsW(w, j)
        /\ \A d \in Client \ {c} : ~OwnsC(d, j)
        /\ \A i \in 1..Len(queue) : queue[i][2] # j
        /\ Others(j) /\ Source(j)
    BY <1>3, <1>5, <2>1
  <2>3. /\ \A w \in Worker : ~OwnsW(w, j)'
        /\ \A d \in Client : ~OwnsC(d, j)'
    BY <1>1, <1>5, <2>2 DEF RequestKeeps, OwnsW, OwnsC, Owning, Coroutine
  <2>4. \A i \in 1..Len(queue') : queue'[i][2] = j => i = Len(queue) + 1 /\ queue'[i] = <<x, j>>
    <3>1. queue \in Seq(Action \X Job) /\ <<x, j>> \in Action \X Job
      BY DEF Base, TypeOK, DataOK, Action
    <3> QED BY <1>5, <2>2, <3>1, Appended
  <2>5. StateFits(j)' /\ OneOwner(j)' /\ Reg(j)'
    BY <1>5, <2>3, <2>4 DEF StateFits, OneOwner, Reg
  <2>6. Others(j)' /\ Source(j)'
    BY <1>1, <1>5, <2>2 DEF RequestKeeps, Others, Source, Owning, Coroutine
  <2> QED BY <2>5, <2>6 DEF Owner
<1>6. CASE Put(c, "put_import", "import") \/ Put(c, "put_transfer", "transfer")
  <2>1. ~OwnsC(c, j)' /\ OwnsC(c, j) /\ UNCHANGED row
    BY <1>1, <1>6 DEF Put, OwnsC, Goto, Base, TypeOK, ControlOK
  <2>2. FitsC(pc[c], row[j].state)
    BY <1>3, <2>1 DEF Live, Exists
  <2> QED BY <1>5, <1>6, <2>1, <2>2 DEF Put, FitsC, FitsQ
<1> QED BY <1>2, <1>4, <1>6 DEF Requests, RequestGoesOn

LEMMA ProgressOwner ==
    ASSUME Base, NEW j \in Job, Owner(j), NEW c \in Client, Requests(RequestGoesOn(c))
    PROVE  Owner(j)'
<1>1. CASE ~Live(j)'
  BY <1>1, OwnerGone
<1>2. CASE Live(j)' /\ j # job[c]
  BY <1>2, ElsewhereOwner
<1>3. CASE InsertRow(c) /\ j = job[c]
  BY <1>3, InsertOwner
<1> QED BY <1>1, <1>2, <1>3, HereOwner

(* Time, a stop that begins, the end and the start of the process. *)
LEMMA EnvironmentOwner ==
    ASSUME Base, NEW j \in Job, Owner(j), (\E k \in Job : TimePasses(k)) \/ OrphanLockExpires \/ Stop
    PROVE  Owner(j)'
<1>1. /\ UNCHANGED <<folder, queue, expiredIds, activeJobs, pc, job, after>>
      /\ row'[j].state = row[j].state /\ row'[j].cancelRequested = row[j].cancelRequested
      /\ row'[j].expiry \in {row[j].expiry, "past"}
  <2>1. row[j] \in Row /\ row \in [Job -> Row]
    BY DEF Base, TypeOK, DataOK
  <2> QED BY <2>1 DEF TimePasses, OrphanLockExpires, Stop, baidu, calls, sweep, Row
<1>2. Live(j)' <=> Live(j)
  BY <1>1 DEF Live, Exists
<1>3. job[Reaper] = j /\ pc[Reaper] \in Cleanup /\ Live(j) =>
         row[j].state \in TERMINAL_JOB_STATES \/ row[j].expiry = "past"
  BY DEF Owner, Source
<1>4. CASE ~Live(j)
  BY <1>2, <1>4, OwnerGone
<1>5. CASE Live(j)
  BY <1>1, <1>2, <1>3, <1>5, OwnerFrame DEF OthersKeep, QueueKept, Actor, Coroutine
<1> QED BY <1>4, <1>5

LEMMA LateOwner ==
    ASSUME Base, NEW j \in Job, Owner(j), NEW k \in Job, LateMkdir(k)
    PROVE  Owner(j)'
<1>1. /\ UNCHANGED <<row, queue, expiredIds, activeJobs, pc, job, after>>
      /\ folder'[j] \in {folder[j], "live"}
  BY DEF LateMkdir, calls, sweep, Base, TypeOK, DataOK
<1> QED BY <1>1 DEF Owner, Live, Exists, StateFits, OneOwner, Others, Reg, Source, OwnsW, OwnsC, Owning

LEMMA EndOwner ==
    ASSUME Base, NEW j \in Job, Owner(j), Stopped \/ Crash
    PROVE  Owner(j)'
<1>1. /\ queue' = <<>> /\ expiredIds' = {} /\ UNCHANGED <<row, folder>>
      /\ \A a \in Actor : job'[a] = NoJob
  BY DEF Stopped, Crash, ProcessEnds, baidu
<1>2. /\ \A w \in Worker : job'[w] # j
      /\ job'[Reaper] # j
      /\ \A c \in Client : job'[c] # j
  BY <1>1 DEF Actor, Coroutine
<1> QED BY <1>1, <1>2 DEF Owner, StateFits, OneOwner, Others, Reg, Source, OwnsW, OwnsC, Live, Exists

LEMMA StartOwner ==
    ASSUME Base, NEW j \in Job, Owner(j), Start
    PROVE  Owner(j)'
<1>1. Restarted
  BY StartEffects DEF Base
<1>2. /\ \A w \in Worker : job'[w] # j
      /\ job'[Reaper] # j
      /\ \A c \in Client : job'[c] # j
      /\ expiredIds' = {}
  BY <1>1 DEF Base, Down, Restarted, Actor, Coroutine
<1>3. /\ \/ row'[j] = row[j] /\ row[j].state \notin ActiveStates
         \/ row'[j].state = "failed" /\ row[j].state \in ActiveStates
      /\ row'[j].expiry = row[j].expiry /\ row'[j].cancelRequested = row[j].cancelRequested
  <2>1. row[j] \in Row
    BY DEF Base, TypeOK, DataOK
  <2>2. row'[j] = IF row[j].state \in ActiveStates THEN [row[j] EXCEPT !.state = "failed"] ELSE row[j]
    BY <1>1 DEF Restarted
  <2> QED BY <2>1, <2>2 DEF Row
<1>4. \A i \in 1..Len(queue') : queue'[i][1] = "cleanup"
                                /\ (queue'[i][2] = j => row'[j].state = "failed")
  BY <1>1, <1>3 DEF Restarted
<1>5. /\ \A w \in Worker : ~OwnsW(w, j)'
      /\ \A c \in Client : ~OwnsC(c, j)'
  BY <1>2 DEF OwnsW, OwnsC
<1>6. StateFits(j)' /\ OneOwner(j)' /\ Others(j)' /\ Reg(j)'
  BY <1>2, <1>4, <1>5 DEF StateFits, OneOwner, Others, Reg, FitsQ, TERMINAL_JOB_STATES
<1>7. Live(j)' => Source(j)'
  <2>1. Live(j)' => Live(j)
    BY <1>3 DEF Live, Exists, NoRow, ActiveStates
  <2> QED BY <1>1, <1>2, <1>3, <2>1 DEF Owner, Source, Restarted
<1> QED BY <1>6, <1>7 DEF Owner

(* While no selection is submitted twice, every job under way has one      *)
(* owner that fits its row, and the copy it will transfer is at Baidu.     *)
THEOREM OwnershipInvariant == "double_submit" \notin Allowed => (Spec => []Ownership)
<1> SUFFICES ASSUME "double_submit" \notin Allowed PROVE Spec => []Ownership
  OBVIOUS
<1>1. Init => Ownership
  BY DEF Init, Ownership, Owner, Live, Exists, BlankRow, NoRow
<1>2. Base /\ Ownership /\ [Next]_vars => Ownership'
  <2> SUFFICES ASSUME Base, Ownership, [Next]_vars, NEW j \in Job PROVE Owner(j)'
    BY DEF Ownership
  <2>1. Owner(j)
    BY DEF Ownership
  <2>2. ASSUME NEW w \in Worker, WorkerStep(w) PROVE Owner(j)'
    BY <2>1, <2>2, ActionOwner, LoopOwner DEF WorkerStep
  <2>3. ASSUME NEW a \in Coroutine, CleanupStep(a) \/ Throw(a) PROVE Owner(j)'
    BY <2>1, <2>3, CleanupOwner, ThrowOwner
  <2>4. ASSUME NEW c \in Client, Requests(RequestArrives(c)) \/ Requests(RequestGoesOn(c))
        PROVE  Owner(j)'
    BY <2>1, <2>4, ArrivalOwner, ProgressOwner
  <2>5. CASE ReaperStep
    BY <2>1, <2>5, ReaperOwner
  <2>6. CASE (\E k \in Job : TimePasses(k)) \/ OrphanLockExpires \/ Stop
    BY <2>1, <2>6, EnvironmentOwner
  <2>7. CASE Stopped \/ Crash \/ Start
    BY <2>1, <2>7, EndOwner, StartOwner
  <2>8. CASE UNCHANGED vars
    BY <2>1, <2>8 DEF vars, Owner, Live, Exists, StateFits, OneOwner, Others, Reg, Source, OwnsW, OwnsC,
       Owning
  <2>9. ASSUME NEW k \in Job, LateMkdir(k) PROVE Owner(j)'
    BY <2>1, <2>9, LateOwner
  <2> QED BY <2>2, <2>3, <2>4, <2>5, <2>6, <2>7, <2>8, <2>9 DEF Next
<1> QED BY <1>1, <1>2, BaseInvariant, PTL DEF Spec

(* The first cancel() of a job finds the worker that imports or transfers  *)
(* it in active_jobs, and an entry never leads to a worker that has left   *)
(* the job: for any number of jobs, workers and requests, if a selection   *)
(* is submitted once.                                                      *)
THEOREM CancelFindsWorker == "double_submit" \notin Allowed => (Spec => []Registered)
<1> SUFFICES ASSUME "double_submit" \notin Allowed PROVE Spec => []Registered
  OBVIOUS
<1>1. Base /\ Ownership => Registered
  BY DEF Base, ActiveIsBusy, Ownership, Owner, Live, Reg, OwnsW, Owning, Registered
<1> QED BY <1>1, BaseInvariant, OwnershipInvariant, PTL

(* Nobody removes the copy of a job that has still to be transferred, by a *)
(* cleanup of its own, of a start or of the expiration loop, unless it was *)
(* cancelled or its page has expired: for any number of jobs, workers and  *)
(* requests, if a selection is submitted once.                             *)
THEOREM SourceStays == "double_submit" \notin Allowed => (Spec => []SourcePresent)
<1> SUFFICES ASSUME "double_submit" \notin Allowed PROVE Spec => []SourcePresent
  OBVIOUS
<1>1. Ownership => SourcePresent
  BY DEF Ownership, Owner, Live, Exists, NoRow, Source, SourcePresent
<1> QED BY <1>1, OwnershipInvariant, PTL
=============================================================================
