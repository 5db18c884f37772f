------------------------- MODULE ShareImportProofs -------------------------
(***************************************************************************)
(* Theorems of ShareImport for every number of imports, every size of the  *)
(* account and every choice of Baidu's answers.                            *)
(***************************************************************************)
EXTENDS ImportProperties, DataProofs, TLAPS

(* The types of what the argument is about; the contents of the listings   *)
(* play no part in it.                                                     *)
Typed ==
    /\ folder \in [Job -> {"none", "live", "recycled", "purged"}]
    /\ content \in [Job -> BOOLEAN] /\ late \in [Job -> SUBSET {"mkdir", "transfer"}]
    /\ pc \in [Job -> ImportLabel \cup CleanupLabel]
    /\ error \in [Job -> Errors \cup {"none", "cancel", "lookup"}]
    /\ \A j \in Job : pc[j] = "c_purge" => error[j] \notin {"temporary", "lookup"}
    /\ handling \in [Job -> BOOLEAN] /\ cleaned \in [Job -> BOOLEAN]

(* The mutation lock is held exactly inside the two sections.              *)
Locked == \A j \in Job : pc[j] \in InLock <=> lock = j

(* A job whose folder has no content, and will not get any.                *)
Safe(j) == folder[j] = "live" => ~content[j] /\ "transfer" \notin late[j]

(* Before its folder is made, nothing of a job is at Baidu.                *)
Begun(j) == pc[j] \in {"idle", "lock", "check", "mkdir"} =>
    folder[j] = "none" /\ ~content[j] /\ late[j] = {}

(* A folder that may still come late stays empty: its import is over.      *)
Orphaned(j) == "mkdir" \in late[j] =>
    ~content[j] /\ "transfer" \notin late[j] /\ pc[j] \in CleanupLabel \cup {"end"}

(* The cleanup removes only a folder that it found.                        *)
Sought(j) == pc[j] \in {"c_lock", "c_remove"} => folder[j] = "live"

(* After a removal without an error, the folder is in the recycle bin, or  *)
(* an empty one has come late in its place.                                *)
Removed(j) == pc[j] = "c_purge" /\ error[j] = "none" => folder[j] = "recycled" \/ Safe(j)

(* What the cleanup is about to record, or has recorded, is true, unless   *)
(* it rests on a look-up that failed.                                      *)
Marked(j) == /\ (pc[j] = "c_mark" \/ cleaned[j]) /\ error[j] # "lookup" => Safe(j)
             /\ cleaned[j] => pc[j] = "end"

JobInv(j) == Begun(j) /\ Orphaned(j) /\ Sought(j) /\ Removed(j) /\ Marked(j)

IInv == Typed /\ Locked /\ \A j \in Job : JobInv(j)

(* A step of job j leaves the state of the other jobs alone.               *)
OnlyOf(j) == \A k \in Job \ {j} :
    /\ folder'[k] = folder[k] /\ content'[k] = content[k] /\ late'[k] = late[k]
    /\ pc'[k] = pc[k] /\ error'[k] = error[k] /\ cleaned'[k] = cleaned[k]

(* An import that is left for the handlers of the worker keeps the types,  *)
(* and touches its own job only.                                           *)
LEMMA LeaveTyped ==
    ASSUME Typed, NEW j \in Job, NEW end, Leave(j, end), UNCHANGED <<folder, content, cleaned>>
    PROVE  Typed' /\ OnlyOf(j)
BY DEF Typed, OnlyOf, Goto, ImportLabel, CleanupLabel, Errors, Leave, GivesUpCall, Locals

(* So does every step of an import. *)
LEMMA ImportTyped ==
    ASSUME Typed, NEW j \in Job, ImportStep(j)
    PROVE  Typed' /\ OnlyOf(j)
<1> USE DEF Typed, OnlyOf, Goto, remote, session, scan, ImportLabel, CleanupLabel, Errors
<1>1. CASE Fail(j)
  BY <1>1, LeaveTyped DEF Fail, ImportStep
<1>2. CASE ~Fail(j) /\ (CheckQuota(j) \/ Mkdir(j))
  BY <1>2 DEF ImportStep, CheckQuota, Mkdir, Proceed, Created
<1>3. CASE Acquire(j, "lock", "check") \/ CheckCancelled(j) \/ StoreItems(j)
  BY <1>3 DEF ImportStep, Acquire, CheckCancelled, StoreItems, Quit, Proceed
<1>4. CASE OpenSession(j)
  BY <1>4 DEF ImportStep, OpenSession, Raised, Proceed
<1>5. CASE Transfer(j)
  <2>1. CASE Accepts(j) /\ Transferred(j) /\ Imported(j)
    BY <1>5, <2>1 DEF ImportStep, Transferred, Imported, Locals, Accepts
  <2>2. CASE \E e \in Errors : Raised(j, e) /\ GivesUpCall(j)
    BY <1>5, <2>2 DEF ImportStep, Transfer, Raised, GivesUpCall
  <2> QED BY <1>5, <2>1, <2>2 DEF Transfer
<1>6. CASE ~Fail(j) /\ Relist(j)
  BY <1>6 DEF ImportStep, Relist, Imported, Locals
<1>7. CASE ~Fail(j) /\ ScanBatch(j)
  <2>1. UNCHANGED <<remote, pc, session, handling, cleaned>>
    BY <1>7 DEF ScanBatch, ImportStep
  <2> QED BY <2>1
<1>8. CASE ~Fail(j) /\ CheckQuotaAgain(j)
  BY <1>8 DEF ImportStep, CheckQuotaAgain, Proceed
<1> QED BY <1>1, <1>2, <1>3, <1>4, <1>5, <1>6, <1>7, <1>8 DEF ImportStep

(* Where the removal of a folder leads, and what it does to it. *)
LEMMA PurgeLeads ==
    ASSUME Typed, NEW j \in Job, Purge(j)
    PROVE  /\ pc[j] = "c_purge"
           /\ Purged(j) \/ UNCHANGED <<folder, content>>
           /\ \/ Goto(j, "c_mark") /\ error[j] = "none" /\ Purged(j)
              \/ Goto(j, "end") \/ Goto(j, "c_lookup")
           /\ handling' \in [Job -> BOOLEAN] /\ UNCHANGED <<late, error>> /\ Unlock(j)
<1>1. error[j] \in {"none", "final", "cancel"}
  BY DEF Typed, Purge, Errors
<1>2. [none |-> "c_mark", final |-> "end", cancel |-> "c_lookup"][error[j]] =
          IF error[j] = "none" THEN "c_mark" ELSE IF error[j] = "final" THEN "end" ELSE "c_lookup"
  BY <1>1
<1> QED BY <1>1, <1>2 DEF Typed, Purge, RemoveRaised, Goto, session

(* So does a step of the cleanup, of a cancellation, or of a late call. *)
LEMMA OtherTyped ==
    ASSUME Typed, NEW j \in Job,
           CleanupStep(j) \/ RequestCancel(j) \/ DeliverCancel(j) \/ LateCall(j)
    PROVE  Typed' /\ OnlyOf(j)
<1> USE DEF Typed, OnlyOf, Goto, remote, session, scan, ImportLabel, CleanupLabel, Errors
<1>1. CASE CleanupStep(j)
  <2>1. CASE MarkCompleted(j)
    BY <1>1, <2>1 DEF CleanupStep, MarkCompleted
  <2>4. CASE LookUp(j)
    BY <1>1, <2>4 DEF CleanupStep, MarkCompleted, LookUp, Proceed
  <2>5. CASE Acquire(j, "c_lock", "c_remove")
    BY <1>1, <2>5 DEF CleanupStep, MarkCompleted, Acquire
  <2>2. CASE RemoveFolder(j)
    BY <1>1, <2>2 DEF CleanupStep, RemoveFolder, MarkCompleted
  <2>3. CASE Purge(j)
    <3>1. UNCHANGED cleaned
      BY <1>1, <2>3, PurgeLeads DEF CleanupStep, MarkCompleted
    <3>2. UNCHANGED <<late, error>> /\ handling' \in [Job -> BOOLEAN]
      BY <2>3, PurgeLeads
    <3>3. \E l \in {"c_mark", "end", "c_lookup"} : Goto(j, l)
      BY <2>3, PurgeLeads
    <3>4. Purged(j) \/ UNCHANGED <<folder, content>>
      BY <2>3, PurgeLeads
    <3>5. folder' \in [Job -> {"none", "live", "recycled", "purged"}]
             /\ content' \in [Job -> BOOLEAN]
             /\ \A k \in Job \ {j} : folder'[k] = folder[k] /\ content'[k] = content[k]
      BY <3>4 DEF Purged
    <3>6. /\ pc' \in [Job -> ImportLabel \cup CleanupLabel]
          /\ \A k \in Job \ {j} : pc'[k] = pc[k]
          /\ pc'[j] # "c_purge"
      BY <3>3
    <3> QED BY <3>1, <3>2, <3>5, <3>6
  <2> QED BY <1>1, <2>1, <2>2, <2>3, <2>4, <2>5 DEF CleanupStep
<1>2. CASE RequestCancel(j)
  BY <1>2 DEF RequestCancel
<1>3. CASE DeliverCancel(j)
  <2>1. CASE pc[j] # "c_remove" /\ UNCHANGED <<folder, content>>
    BY <1>3, <2>1, LeaveTyped DEF DeliverCancel
  <2>3. CASE pc[j] = "c_purge" /\ Purged(j)
    <3>1. /\ folder' \in [Job -> {"none", "live", "recycled", "purged"}]
          /\ content' \in [Job -> BOOLEAN]
          /\ \A k \in Job \ {j} : folder'[k] = folder[k] /\ content'[k] = content[k]
      BY <2>3 DEF Purged
    <3>2. Leave(j, "cancelled") /\ UNCHANGED cleaned
      BY <1>3, <2>3 DEF DeliverCancel
    <3> QED BY <3>1, <3>2 DEF Leave, GivesUpCall, Locals
  <2>2. CASE pc[j] = "c_remove"
    BY <1>3, <2>2 DEF DeliverCancel
  <2> QED BY <1>3, <2>1, <2>2, <2>3 DEF DeliverCancel
<1>4. CASE LateCall(j)
  BY <1>4 DEF LateCall, Created, Transferred, Accepts
<1> QED BY <1>1, <1>2, <1>3, <1>4

(* What a step of one job does to the lock: it keeps it, takes it free, or *)
(* gives it back, as its label says.                                       *)
LockMoves(j) ==
    \/ lock' = lock /\ (pc'[j] \in InLock <=> pc[j] \in InLock)
    \/ lock = NoJob /\ lock' = j /\ pc'[j] \in InLock
    \/ Unlock(j) /\ pc'[j] \notin InLock

(* Such a step leaves the lock with the job that is inside a section.      *)
LEMMA LockedStep ==
    ASSUME Locked, NEW j \in Job, OnlyOf(j), LockMoves(j)
    PROVE  Locked'
BY JobAssumption DEF Locked, OnlyOf, LockMoves, Unlock

(* Every step of an import, by whichever exit it leaves a section, is one. *)
LEMMA StepLocks ==
    ASSUME Typed, NEW j \in Job,
           \/ ImportStep(j) \/ CleanupStep(j)
           \/ RequestCancel(j) \/ DeliverCancel(j) \/ LateCall(j)
    PROVE  LockMoves(j)
<1> USE DEF LockMoves, InLock, Typed, Goto
<1>1. CASE ImportStep(j)
  <2>1. CASE Fail(j)
    BY <2>1 DEF Fail, Leave
  <2>2. CASE ~Fail(j) /\ (CheckQuota(j) \/ Acquire(j, "lock", "check") \/ CheckCancelled(j))
    BY <2>2 DEF CheckQuota, Acquire, CheckCancelled, Proceed, Quit
  <2>3. CASE ~Fail(j) /\ (Mkdir(j) \/ OpenSession(j) \/ Transfer(j) \/ Relist(j))
    BY <2>3 DEF Mkdir, OpenSession, Transfer, Relist, Proceed, Raised, Imported
  <2>4. CASE ~Fail(j) /\ (ScanBatch(j) \/ CheckQuotaAgain(j) \/ StoreItems(j))
    BY <2>4 DEF ScanBatch, CheckQuotaAgain, StoreItems, Proceed
  <2> QED BY <1>1, <2>1, <2>2, <2>3, <2>4 DEF ImportStep
<1>2. CASE CleanupStep(j)
  <2>1. CASE MarkCompleted(j) \/ LookUp(j) \/ Acquire(j, "c_lock", "c_remove") \/ RemoveFolder(j)
    BY <2>1 DEF MarkCompleted, LookUp, Acquire, RemoveFolder, Proceed
  <2>2. CASE Purge(j)
    BY <2>2, PurgeLeads
  <2> QED BY <1>2, <2>1, <2>2 DEF CleanupStep
<1>3. CASE RequestCancel(j) \/ LateCall(j)
  BY <1>3 DEF RequestCancel, LateCall
<1>4. CASE DeliverCancel(j)
  BY <1>4 DEF DeliverCancel, Leave
<1> QED BY <1>1, <1>2, <1>3, <1>4

-----------------------------------------------------------------------------
(* A step of job j leaves what is said of the other jobs.                  *)
LEMMA OthersInv ==
    ASSUME NEW j \in Job, OnlyOf(j), NEW k \in Job \ {j}, JobInv(k)
    PROVE  JobInv(k)'
BY DEF OnlyOf, JobInv, Begun, Orphaned, Sought, Removed, Marked, Safe

(* An import that is left is about to be cleaned up.                       *)
LEMMA LeaveInv ==
    ASSUME Typed, NEW j \in Job, JobInv(j), pc[j] # "end", NEW end, Leave(j, end),
           UNCHANGED <<folder, content, cleaned>>
    PROVE  JobInv(j)'
<1>1. pc'[j] = "c_lookup" /\ ~cleaned[j] /\ UNCHANGED <<folder[j], content[j], cleaned[j]>>
  BY DEF Typed, JobInv, Marked, Leave, Goto
<1>2. late'[j] = late[j] \cup ({pc[j]} \cap {"mkdir", "transfer"})
  BY DEF Typed, Leave, GivesUpCall
<1>3. Orphaned(j)'
  BY <1>1, <1>2 DEF JobInv, Begun, Orphaned, CleanupLabel
<1> QED BY <1>1, <1>3 DEF JobInv, Begun, Sought, Removed, Marked

(* Each step of the import keeps the invariant of its job.                 *)
LEMMA ImportInv ==
    ASSUME Typed, NEW j \in Job, JobInv(j), ImportStep(j)
    PROVE  JobInv(j)'
<1> USE DEF Typed, JobInv, Begun, Orphaned, Sought, Removed, Marked, Safe, Goto, CleanupLabel,
            remote, session, scan
<1>1. CASE Fail(j)
  <2>1. pc[j] # "end"
    BY DEF ImportStep, CheckQuota, Acquire, CheckCancelled, Mkdir, OpenSession, Transfer, Relist,
           ScanBatch, CheckQuotaAgain, StoreItems
  <2> QED BY <1>1, <2>1, LeaveInv DEF Fail, ImportStep
<1>2. CASE ~Fail(j) /\ (CheckQuota(j) \/ Mkdir(j))
  BY <1>2 DEF ImportStep, CheckQuota, Mkdir, Proceed, Created
<1>3. CASE Acquire(j, "lock", "check") \/ CheckCancelled(j) \/ StoreItems(j)
  BY <1>3 DEF ImportStep, Acquire, CheckCancelled, StoreItems, Quit, Proceed
<1>4. CASE OpenSession(j)
  BY <1>4 DEF ImportStep, OpenSession, Raised, Proceed
<1>5. CASE Transfer(j)
  <2>1. CASE Accepts(j) /\ Transferred(j) /\ Imported(j)
    BY <1>5, <2>1 DEF ImportStep, Transfer, Transferred, Imported, Locals
  <2>2. CASE \E e \in Errors : Raised(j, e) /\ GivesUpCall(j)
    BY <1>5, <2>2 DEF ImportStep, Transfer, Raised, GivesUpCall
  <2> QED BY <1>5, <2>1, <2>2 DEF Transfer
<1>6. CASE ~Fail(j) /\ Relist(j)
  BY <1>6 DEF ImportStep, Relist, Imported, Locals
<1>7. CASE ~Fail(j) /\ ScanBatch(j)
  <2>1. UNCHANGED <<remote, pc, session, cleaned>>
    BY <1>7 DEF ScanBatch, ImportStep
  <2> QED BY <2>1
<1>8. CASE ~Fail(j) /\ CheckQuotaAgain(j)
  BY <1>8 DEF ImportStep, CheckQuotaAgain, Proceed
<1> QED BY <1>1, <1>2, <1>3, <1>4, <1>5, <1>6, <1>7, <1>8 DEF ImportStep

(* So does each step of the cleanup, a cancellation and a late call.       *)
LEMMA OtherInv ==
    ASSUME Typed, NEW j \in Job, JobInv(j),
           CleanupStep(j) \/ RequestCancel(j) \/ DeliverCancel(j) \/ LateCall(j)
    PROVE  JobInv(j)'
<1> USE DEF Typed, JobInv, Begun, Orphaned, Sought, Removed, Marked, Safe, Goto, CleanupLabel,
            remote, session, scan
<1>1. CASE CleanupStep(j)
  <2>1. CASE MarkCompleted(j)
    BY <1>1, <2>1 DEF CleanupStep, MarkCompleted, LookUp, Acquire, RemoveFolder, Purge, Proceed
  <2>2. CASE LookUp(j) \/ Acquire(j, "c_lock", "c_remove")
    BY <1>1, <2>2 DEF CleanupStep, MarkCompleted, LookUp, Acquire, Proceed
  <2>3. CASE RemoveFolder(j)
    BY <1>1, <2>3 DEF CleanupStep, MarkCompleted, RemoveFolder
  <2>4. CASE Purge(j)
    <3>1. UNCHANGED <<late, cleaned, error>> /\ pc[j] = "c_purge" /\ ~cleaned[j]
      BY <1>1, <2>4, PurgeLeads DEF CleanupStep, MarkCompleted
    <3>2. CASE Goto(j, "c_mark") /\ error[j] = "none" /\ Purged(j)
      BY <3>1, <3>2 DEF Purged
    <3>3. CASE (Goto(j, "end") \/ Goto(j, "c_lookup")) /\ (Purged(j) \/ UNCHANGED <<folder, content>>)
      BY <3>1, <3>3 DEF Purged
    <3> QED BY <2>4, <3>2, <3>3, PurgeLeads
  <2> QED BY <1>1, <2>1, <2>2, <2>3, <2>4 DEF CleanupStep
<1>2. CASE RequestCancel(j)
  BY <1>2 DEF RequestCancel
<1>3. CASE DeliverCancel(j)
  <2>1. CASE pc[j] # "c_remove" /\ UNCHANGED <<folder, content>>
    BY <1>3, <2>1, LeaveInv DEF DeliverCancel
  <2>3. CASE pc[j] = "c_purge" /\ Purged(j)
    <3>1. Leave(j, "cancelled") /\ UNCHANGED cleaned /\ ~cleaned[j]
      BY <1>3, <2>3 DEF DeliverCancel
    <3>2. pc'[j] = "c_lookup" /\ late'[j] = late[j]
      BY <2>3, <3>1 DEF Leave, GivesUpCall
    <3>3. content'[j] => content[j]
      BY <2>3 DEF Purged
    <3> QED BY <2>3, <3>1, <3>2, <3>3
  <2>2. CASE pc[j] = "c_remove"
    BY <1>3, <2>2 DEF DeliverCancel
  <2> QED BY <1>3, <2>1, <2>2, <2>3 DEF DeliverCancel
<1>4. CASE LateCall(j)
  BY <1>4 DEF LateCall, Created, Transferred, Accepts
<1> QED BY <1>1, <1>2, <1>3, <1>4

-----------------------------------------------------------------------------
(* Every step of every job keeps the invariant.                            *)
LEMMA StepInv == IInv /\ [Next]_vars => IInv'
<1> SUFFICES ASSUME IInv, [Next]_vars PROVE IInv'
  OBVIOUS
<1>1. CASE UNCHANGED vars
  BY <1>1 DEF IInv, Typed, Locked, JobInv, Begun, Orphaned, Sought, Removed, Marked, Safe,
         vars, remote, session
<1>2. CASE Next
  <2>1. PICK j \in Job : \/ ImportStep(j) \/ CleanupStep(j)
                        \/ RequestCancel(j) \/ DeliverCancel(j) \/ LateCall(j)
    BY <1>2 DEF Next
  <2>2. Typed' /\ OnlyOf(j)
    BY <2>1, ImportTyped, OtherTyped DEF IInv
  <2>3. Locked'
    BY <2>1, <2>2, StepLocks, LockedStep DEF IInv
  <2>4. JobInv(j)'
    BY <2>1, ImportInv, OtherInv DEF IInv
  <2>5. \A k \in Job : JobInv(k)'
    BY <2>2, <2>4, OthersInv DEF IInv
  <2> QED BY <2>2, <2>3, <2>5 DEF IInv
<1> QED BY <1>1, <1>2

(* The initial states satisfy it.                                          *)
LEMMA InitInv == Init => IInv
BY JobAssumption DEF Init, IInv, Typed, Locked, JobInv, Begun, Orphaned, Sought, Removed, Marked,
       Safe, ImportLabel, CleanupLabel, InLock, Errors

(* A cleanup that is recorded as done left no content of the share in the  *)
(* account, unless its look-up of the folder failed: for any number of     *)
(* imports, failures of the other calls, cancellations and late calls.     *)
THEOREM CleanupLeavesNothing == Spec => []NothingLeftBehind
<1>1. IInv => NothingLeftBehind
  BY DEF IInv, JobInv, Marked, Safe, NothingLeftBehind
<1> QED BY <1>1, InitInv, StepInv, PTL DEF Spec

(* At most one import or removal is inside a section of the mutation lock, *)
(* also while calls fail and tasks are cancelled.                          *)
THEOREM OneInLock ==
    Spec => [](\A j, k \in Job : pc[j] \in InLock /\ pc[k] \in InLock => j = k)
<1>1. IInv => \A j, k \in Job : pc[j] \in InLock /\ pc[k] \in InLock => j = k
  BY DEF IInv, Locked
<1> QED BY <1>1, InitInv, StepInv, PTL DEF Spec

-----------------------------------------------------------------------------
(* The space of the account.  A share is in it exactly while its content   *)
(* is; what the second quota check let pass, and what is offered, is there *)
(* and leaves the reserve free: whatever comes later has no part in it.    *)
Held(j) == content[j] => folder[j] \in {"live", "recycled"}

Arrived(j) == pc[j] \in {"check2", "scan", "store"} \/ outcome[j] = "offered" =>
    content[j] /\ folder[j] = "live"

Ended(j) == outcome[j] = "offered" => pc[j] = "end"

ShareInv(j) == Held(j) /\ Arrived(j) /\ Ended(j)

Ready == {j \in Job : pc[j] = "store" \/ outcome[j] = "offered"}

Fits == Bytes(Used) <= Capacity

Reserved == Ready # {} => Bytes(Ready) + Reserve <= Capacity

SpaceInv ==
    /\ outcome \in [Job -> {"none", "offered", "failed", "cancelled"}]
    /\ (\A j \in Job : ShareInv(j)) /\ Fits /\ Reserved

(* What a step of job j does to the space: content comes with a transfer   *)
(* that is accepted, and its share gets ready by the second quota check.   *)
SpaceMove(j) ==
    /\ outcome' \in [Job -> {"none", "offered", "failed", "cancelled"}]
    /\ \A k \in Job \ {j} : outcome'[k] = outcome[k]
    /\ content'[j] => content[j] \/ Accepts(j)
    /\ j \in Ready' => j \in Ready \/ (content[j] /\ folder[j] = "live" /\ ReserveLeft(j))
    /\ ShareInv(j)'

(* An import that is left is not offered. *)
LEMMA LeaveSpace ==
    ASSUME Typed, SpaceInv, NEW j \in Job, NEW end \in {"failed", "cancelled"}, Leave(j, end),
           folder' = folder, content' = content
    PROVE  SpaceMove(j)
<1>1. outcome'[j] = end /\ pc'[j] = "c_lookup"
  BY DEF Leave, Goto, SpaceInv, Typed
<1>2. /\ outcome' \in [Job -> {"none", "offered", "failed", "cancelled"}]
      /\ \A k \in Job \ {j} : outcome'[k] = outcome[k]
  BY DEF Leave, SpaceInv
<1> QED BY <1>1, <1>2 DEF SpaceMove, SpaceInv, ShareInv, Held, Arrived, Ended, Ready

(* The steps of an import. *)
LEMMA ImportSpace ==
    ASSUME Typed, SpaceInv, NEW j \in Job, ImportStep(j)
    PROVE  SpaceMove(j)
<1> USE DEF SpaceMove, SpaceInv, ShareInv, Held, Arrived, Ended, Ready, Typed, Goto,
            remote, session, scan
<1>1. CASE Fail(j)
  BY <1>1, LeaveSpace DEF Fail
<1>2. CASE ~Fail(j) /\ (CheckQuota(j) \/ Mkdir(j))
  BY <1>2 DEF ImportStep, CheckQuota, Mkdir, Proceed, Created
<1>3. CASE Acquire(j, "lock", "check") \/ CheckCancelled(j) \/ StoreItems(j)
  BY <1>3 DEF ImportStep, Acquire, CheckCancelled, StoreItems, Quit, Proceed
<1>4. CASE OpenSession(j)
  BY <1>4 DEF ImportStep, OpenSession, Raised, Proceed
<1>5. CASE Transfer(j)
  <2>1. CASE Accepts(j) /\ Transferred(j) /\ Imported(j)
    BY <1>5, <2>1 DEF ImportStep, Transfer, Transferred, Imported, Locals, Accepts
  <2>2. CASE \E e \in Errors : Raised(j, e) /\ GivesUpCall(j)
    BY <1>5, <2>2 DEF ImportStep, Transfer, Raised, GivesUpCall
  <2> QED BY <1>5, <2>1, <2>2 DEF Transfer
<1>6. CASE ~Fail(j) /\ Relist(j)
  BY <1>6 DEF ImportStep, Relist, Imported, Locals
<1>7. CASE ~Fail(j) /\ ScanBatch(j)
  <2>1. UNCHANGED <<folder, content, pc, outcome>>
    BY <1>7 DEF ScanBatch, ImportStep
  <2> QED BY <2>1
<1>8. CASE ~Fail(j) /\ CheckQuotaAgain(j)
  BY <1>8 DEF ImportStep, CheckQuotaAgain, Proceed
<1> QED BY <1>1, <1>2, <1>3, <1>4, <1>5, <1>6, <1>7, <1>8 DEF ImportStep

(* The steps of a cleanup, a cancellation and a late call. *)
LEMMA OtherSpace ==
    ASSUME Typed, SpaceInv, NEW j \in Job,
           CleanupStep(j) \/ RequestCancel(j) \/ DeliverCancel(j) \/ LateCall(j)
    PROVE  SpaceMove(j)
<1> USE DEF SpaceMove, SpaceInv, ShareInv, Held, Arrived, Ended, Ready, Typed, Goto,
            remote, session, scan
<1>1. CASE CleanupStep(j)
  <2>1. CASE MarkCompleted(j) \/ LookUp(j) \/ Acquire(j, "c_lock", "c_remove")
    BY <1>1, <2>1 DEF CleanupStep, MarkCompleted, LookUp, Acquire, Proceed
  <2>2. CASE RemoveFolder(j)
    BY <1>1, <2>2 DEF CleanupStep, RemoveFolder, MarkCompleted
  <2>3. CASE Purge(j)
    <3>1. UNCHANGED outcome
      BY <2>3 DEF Purge
    <3>2. pc[j] = "c_purge" /\ pc'[j] \in {"c_mark", "end", "c_lookup"}
      BY <2>3, PurgeLeads
    <3>3. Purged(j) \/ UNCHANGED <<folder, content>>
      BY <2>3, PurgeLeads
    <3> QED BY <3>1, <3>2, <3>3 DEF Purged
  <2> QED BY <1>1, <2>1, <2>2, <2>3 DEF CleanupStep
<1>2. CASE RequestCancel(j)
  BY <1>2 DEF RequestCancel
<1>3. CASE DeliverCancel(j)
  <2>1. CASE pc[j] # "c_remove" /\ UNCHANGED <<folder, content>>
    BY <1>3, <2>1, LeaveSpace DEF DeliverCancel
  <2>3. CASE pc[j] = "c_purge" /\ Purged(j)
    <3>1. Leave(j, "cancelled")
      BY <1>3, <2>3 DEF DeliverCancel
    <3>2. /\ pc'[j] = "c_lookup" /\ outcome'[j] = "cancelled"
          /\ outcome' \in [Job -> {"none", "offered", "failed", "cancelled"}]
          /\ \A k \in Job \ {j} : outcome'[k] = outcome[k]
      BY <3>1 DEF Leave
    <3> QED BY <2>3, <3>2 DEF Purged
  <2>2. CASE pc[j] = "c_remove"
    BY <1>3, <2>2 DEF DeliverCancel
  <2> QED BY <1>3, <2>1, <2>2, <2>3 DEF DeliverCancel
<1>4. CASE LateCall(j)
  BY <1>4 DEF LateCall, Created, Transferred, Accepts
<1> QED BY <1>1, <1>2, <1>3, <1>4

(* Such a move keeps the account within its capacity. *)
LEMMA FitsStep ==
    ASSUME Typed, SpaceInv, NEW j \in Job, OnlyOf(j), SpaceMove(j)
    PROVE  Fits'
<1>1. Used \in SUBSET Job /\ IsFiniteSet(Used) /\ Bytes(Used) \in Nat
  BY JobAssumption, SizeAssumption, FS_Subset, SumType DEF Used, Bytes
<1>2. CASE ~Accepts(j)
  <2>1. Used' \in SUBSET Used
    BY <1>2 DEF Used, OnlyOf, SpaceMove, SpaceInv, ShareInv, Held
  <2>2. Bytes(Used)' <= Bytes(Used)
    BY <1>1, <2>1, SizeAssumption, SumMonotone DEF Bytes
  <2>3. Bytes(Used)' \in Nat
    BY <1>1, <2>1, SizeAssumption, FS_Subset, SumType DEF Bytes
  <2> QED BY <1>1, <2>2, <2>3, SizeAssumption DEF Fits, SpaceInv
<1>3. CASE Accepts(j)
  <2>1. j \notin Used /\ Size[j] <= Free
    BY <1>3 DEF Accepts, Used
  <2>2. Bytes(Used \cup {j}) = Bytes(Used) + Size[j]
    BY <1>1, <2>1, SizeAssumption, SumAdd DEF Bytes
  <2>3. Used \cup {j} \in SUBSET Job /\ IsFiniteSet(Used \cup {j})
    BY <1>1, FS_AddElement
  <2>4. Used' \in SUBSET (Used \cup {j})
    BY DEF Used, OnlyOf, SpaceInv, ShareInv, Held
  <2>5. Bytes(Used)' <= Bytes(Used \cup {j})
    BY <2>3, <2>4, SizeAssumption, SumMonotone DEF Bytes
  <2>6. Bytes(Used)' \in Nat
    BY <2>3, <2>4, SizeAssumption, FS_Subset, SumType DEF Bytes
  <2>7. Size[j] \in Nat /\ Size[j] <= Capacity - Bytes(Used)
    BY <2>1, SizeAssumption DEF Free, Fits, SpaceInv
  <2> QED BY <1>1, <2>2, <2>5, <2>6, <2>7, SizeAssumption DEF Fits
<1> QED BY <1>2, <1>3

(* And the reserve free of what is ready. *)
LEMMA ReservedStep ==
    ASSUME Typed, SpaceInv, NEW j \in Job, OnlyOf(j), SpaceMove(j)
    PROVE  Reserved'
<1>1. \A jobs \in SUBSET Job : IsFiniteSet(jobs) /\ Bytes(jobs) \in Nat
  BY JobAssumption, SizeAssumption, FS_Subset, SumType DEF Bytes
<1>2. \A jobs \in SUBSET Job : \A some \in SUBSET jobs : Bytes(some) <= Bytes(jobs)
  BY <1>1, SizeAssumption, SumMonotone DEF Bytes
<1>3. Ready \in SUBSET Job /\ Used \in SUBSET Job /\ Ready' \in SUBSET Job
  BY DEF Ready, Used
<1>4. Ready' \in SUBSET (Ready \cup {j})
  BY DEF Ready, OnlyOf, SpaceMove
<1>5. CASE Ready' \in SUBSET Ready
  <2>1. Bytes(Ready') <= Bytes(Ready) /\ Bytes(Ready') \in Nat /\ Bytes(Ready) \in Nat
    BY <1>1, <1>2, <1>3, <1>5
  <2>2. Ready' # {} => Bytes(Ready) + Reserve <= Capacity
    BY <1>5 DEF SpaceInv, Reserved
  <2>3. Bytes(Ready)' = Bytes(Ready')
    BY DEF Bytes
  <2> QED BY <2>1, <2>2, <2>3, SizeAssumption DEF Reserved
<1>6. CASE ~(Ready' \in SUBSET Ready)
  <2>1. content[j] /\ folder[j] = "live" /\ ReserveLeft(j)
    BY <1>4, <1>6 DEF SpaceMove
  <2>2. Ready' \in SUBSET Used
    BY <1>4, <2>1 DEF Ready, Used, SpaceInv, ShareInv, Arrived
  <2>3. Bytes(Used) + Reserve <= Capacity
    BY <1>1, <1>3, <2>1, SizeAssumption DEF ReserveLeft, Free, Fits, SpaceInv
  <2>4. Bytes(Ready') <= Bytes(Used) /\ Bytes(Ready') \in Nat /\ Bytes(Used) \in Nat
    BY <1>1, <1>2, <1>3, <2>2
  <2>5. Bytes(Ready)' = Bytes(Ready')
    BY DEF Bytes
  <2> QED BY <2>3, <2>4, <2>5, SizeAssumption DEF Reserved
<1> QED BY <1>5, <1>6

(* Every step of every job keeps the invariant of the space. *)
LEMMA SpaceStep == IInv /\ SpaceInv /\ [Next]_vars => SpaceInv'
<1> SUFFICES ASSUME IInv, SpaceInv, [Next]_vars PROVE SpaceInv'
  OBVIOUS
<1>1. CASE UNCHANGED vars
  BY <1>1 DEF SpaceInv, ShareInv, Held, Arrived, Ended, Ready, Fits, Reserved, Used, Bytes,
         vars, remote
<1>2. CASE Next
  <2>1. PICK j \in Job : \/ ImportStep(j) \/ CleanupStep(j)
                        \/ RequestCancel(j) \/ DeliverCancel(j) \/ LateCall(j)
    BY <1>2 DEF Next
  <2>2. Typed /\ OnlyOf(j) /\ SpaceMove(j)
    BY <2>1, ImportTyped, OtherTyped, ImportSpace, OtherSpace DEF IInv
  <2>3. Fits' /\ Reserved'
    BY <2>2, FitsStep, ReservedStep
  <2>4. \A k \in Job : ShareInv(k)'
    <3>1. ASSUME NEW k \in Job \ {j} PROVE ShareInv(k)'
      BY <2>2 DEF SpaceInv, ShareInv, Held, Arrived, Ended, OnlyOf, SpaceMove
    <3> QED BY <2>2, <3>1 DEF SpaceMove
  <2> QED BY <2>2, <2>3, <2>4 DEF SpaceInv, SpaceMove
<1> QED BY <1>1, <1>2

LEMMA SpaceInit == Init => SpaceInv
<1> SUFFICES ASSUME Init PROVE SpaceInv
  OBVIOUS
<1>1. Used = {} /\ Ready = {}
  BY DEF Init, Used, Ready
<1>2. Bytes(Used) = 0
  BY <1>1, SumEmpty DEF Bytes
<1> QED BY <1>1, <1>2, SizeAssumption
        DEF Init, SpaceInv, ShareInv, Held, Arrived, Ended, Fits, Reserved

(* However the quota checks, transfers, late calls and removals of any     *)
(* number of jobs interleave, the shares that are offered leave the        *)
(* reserve of the account free (jobs.py 268-271, 298-300).                 *)
THEOREM OffersLeaveReserve == Spec => []ReserveKept
<1>1. SpaceInv => ReserveKept
  <2> SUFFICES ASSUME SpaceInv, Offered # {} PROVE Bytes(Offered) + Reserve <= Capacity
    BY DEF ReserveKept
  <2>1. Ready \in SUBSET Job /\ Offered \in SUBSET Ready
    BY DEF Ready, Offered
  <2>2. IsFiniteSet(Ready) /\ IsFiniteSet(Offered) /\ Offered \in SUBSET Job
    BY <2>1, JobAssumption, FS_Subset
  <2>3. Bytes(Offered) <= Bytes(Ready)
    BY <2>1, <2>2, SizeAssumption, SumMonotone DEF Bytes
  <2>4. Bytes(Offered) \in Nat /\ Bytes(Ready) \in Nat
    BY <2>1, <2>2, SizeAssumption, SumType DEF Bytes
  <2>5. Bytes(Ready) + Reserve <= Capacity
    BY <2>1 DEF SpaceInv, Reserved
  <2> QED BY <2>3, <2>4, <2>5, SizeAssumption
<1> QED BY <1>1, InitInv, StepInv, SpaceInit, SpaceStep, PTL DEF Spec

-----------------------------------------------------------------------------
(* The listing.  From the transfer on, list_tree knows the root and the    *)
(* directories it found; those that it has scanned are no longer pending,  *)
(* and what it found is what they list.                                    *)
Chosen(j) == pc[j] = "store" \/ outcome[j] = "offered"
Offering(j) == pc[j] \in {"check2", "scan"} \/ Chosen(j)

Known(j) == {Root} \cup (ToSet(found[j]) \cap Directory)
Scanned(j) == Known(j) \ ToSet(pending[j])
ListedIn(dirs) == UNION {ToSet(Listing[d]) : d \in dirs}

ScanInv(j) ==
    /\ Once(pending[j]) /\ Once(found[j]) /\ ToSet(pending[j]) \subseteq Known(j)
    /\ ToSet(found[j]) = ListedIn(Scanned(j))

ListInv(j) == (Offering(j) => ScanInv(j)) /\ (Chosen(j) => pending[j] = <<>>)

ListTyped ==
    /\ attempt \in [Job -> 0..MaxRetries] /\ cancelRequested \in [Job -> BOOLEAN]
    /\ pending \in [Job -> Seq(Directory)] /\ found \in [Job -> Seq(Entry)]

(* A batch of list_tree. *)
Scans(j) ==
    /\ pc[j] = "scan" /\ pending[j] # <<>>
    /\ found' = [found EXCEPT ![j] = @ \o Children(j)]
    /\ pending' = [pending EXCEPT ![j] = Remaining(j)]
    /\ UNCHANGED <<pc, outcome>>

(* What a step of job j does to its listing: nothing, while it is not      *)
(* offered or the scan is over; it drops it; it begins it; or it scans.    *)
ListMove(j) ==
    \/ /\ UNCHANGED scan /\ (Offering(j)' => Offering(j))
       /\ (Chosen(j)' => Chosen(j) \/ pending[j] = <<>>)
    \/ /\ pending' = [pending EXCEPT ![j] = <<>>] /\ found' = [found EXCEPT ![j] = <<>>]
       /\ ~Offering(j)'
    \/ /\ pending' = [pending EXCEPT ![j] = <<Root>>] /\ found' = [found EXCEPT ![j] = <<>>]
       /\ ~Chosen(j)'
    \/ Scans(j)

AttemptMove(j) ==
    \/ UNCHANGED attempt
    \/ attempt' = [attempt EXCEPT ![j] = 0]
    \/ attempt[j] < MaxRetries /\ attempt' = [attempt EXCEPT ![j] = attempt[j] + 1]

LEMMA LeaveLists ==
    ASSUME Typed, SpaceInv, NEW j \in Job, NEW end \in {"failed", "cancelled"}, Leave(j, end)
    PROVE  ListMove(j) /\ AttemptMove(j)
<1>1. outcome'[j] = end /\ pc'[j] = "c_lookup"
  BY DEF Leave, Goto, SpaceInv, Typed
<1> QED BY <1>1 DEF Leave, Locals, ListMove, AttemptMove, Offering, Chosen

LEMMA ImportLists ==
    ASSUME Typed, SpaceInv, NEW j \in Job, ImportStep(j)
    PROVE  ListMove(j) /\ AttemptMove(j)
<1> USE DEF ListMove, AttemptMove, Offering, Chosen, SpaceInv, ShareInv, Ended, Typed, Goto,
            remote, session, scan
<1>1. CASE Fail(j)
  BY <1>1, LeaveLists DEF Fail
<1>2. CASE ~Fail(j) /\ (CheckQuota(j) \/ Mkdir(j))
  BY <1>2 DEF CheckQuota, Mkdir, Proceed
<1>3. CASE Acquire(j, "lock", "check") \/ CheckCancelled(j)
  BY <1>3 DEF Acquire, CheckCancelled, Quit, Proceed
<1>4. CASE StoreItems(j)
  BY <1>4 DEF StoreItems
<1>5. CASE OpenSession(j)
  BY <1>5 DEF OpenSession, Raised, Proceed
<1>6. CASE Transfer(j)
  BY <1>6 DEF Transfer, Raised, Imported, Locals
<1>7. CASE ~Fail(j) /\ Relist(j)
  BY <1>7 DEF Relist, Imported, Locals, AttemptsLeft, NextAttempt
<1>8. CASE ~Fail(j) /\ ScanBatch(j)
  BY <1>8 DEF ScanBatch, Scans
<1>9. CASE ~Fail(j) /\ CheckQuotaAgain(j)
  BY <1>9 DEF CheckQuotaAgain, Proceed
<1> QED BY <1>1, <1>2, <1>3, <1>4, <1>5, <1>6, <1>7, <1>8, <1>9 DEF ImportStep

LEMMA OtherLists ==
    ASSUME Typed, SpaceInv, NEW j \in Job,
           CleanupStep(j) \/ RequestCancel(j) \/ DeliverCancel(j) \/ LateCall(j)
    PROVE  ListMove(j) /\ AttemptMove(j)
<1> USE DEF ListMove, AttemptMove, Offering, Chosen, SpaceInv, Typed, Goto, remote, session, scan
<1>1. CASE CleanupStep(j)
  <2>1. CASE MarkCompleted(j) \/ LookUp(j) \/ Acquire(j, "c_lock", "c_remove") \/ RemoveFolder(j)
    BY <2>1 DEF MarkCompleted, LookUp, Acquire, RemoveFolder, Proceed
  <2>2. CASE Purge(j)
    <3>1. UNCHANGED <<outcome, scan, attempt>>
      BY <2>2 DEF Purge
    <3>2. pc'[j] \in {"c_mark", "end", "c_lookup"}
      BY <2>2, PurgeLeads
    <3> QED BY <3>1, <3>2
  <2> QED BY <1>1, <2>1, <2>2 DEF CleanupStep
<1>2. CASE RequestCancel(j) \/ LateCall(j)
  BY <1>2 DEF RequestCancel, LateCall
<1>3. CASE DeliverCancel(j)
  <2>1. CASE pc[j] # "c_remove"
    BY <1>3, <2>1, LeaveLists DEF DeliverCancel
  <2>2. CASE pc[j] = "c_remove"
    BY <1>3, <2>2 DEF DeliverCancel
  <2> QED BY <2>1, <2>2
<1> QED BY <1>1, <1>2, <1>3

-----------------------------------------------------------------------------
(* A batch: the last directories that are pending leave, and what they     *)
(* list comes.  The directories of a tree list nothing twice.              *)
LEMMA BatchIs ==
    ASSUME NEW j \in Job, ListTyped, pending[j] # <<>>, Once(pending[j])
    PROVE  \E B \in SUBSET ToSet(pending[j]) :
               /\ Children(j) \in Seq(Entry) /\ Once(Children(j))
               /\ ToSet(Children(j)) = ListedIn(B)
               /\ LET rest == SubSeq(pending[j], 1, Len(pending[j]) - Width(j))
                  IN  rest \in Seq(Directory) /\ Once(rest) /\ ToSet(rest) = ToSet(pending[j]) \ B
<1> DEFINE p == pending[j]
           n == Len(p)
           w == Width(j)
           batch == Batch(j)
           seqs == [i \in 1..w |-> Listing[batch[i]]]
           B == {p[k] : k \in (n - w + 1)..n}
           rest == SubSeq(p, 1, n - w)
<1>1. p \in Seq(Directory) /\ n \in Nat /\ n # 0 /\ DOMAIN p = 1..n
  BY DEF ListTyped
<1>2. w \in 1..n
  BY <1>1, SizeAssumption DEF Width
<1>3. \A i \in 1..w : batch[i] = p[n - i + 1]
  BY DEF Batch
<1>4. B \in SUBSET ToSet(p)
  <2>1. \A k \in (n - w + 1)..n : k \in 1..n
    BY <1>1, <1>2
  <2> QED BY <1>1, <2>1 DEF ToSet
<1> HIDE DEF p, n, w, batch
<1>5. \A i \in 1..w : n - i + 1 \in (n - w + 1)..n /\ n - i + 1 \in 1..n /\ batch[i] \in Directory
  BY <1>1, <1>2, <1>3
<1>6. seqs \in Seq(Seq(Entry)) /\ seqs # <<>> /\ DOMAIN seqs = 1..w
  <2>1. \A i \in 1..w : Listing[batch[i]] \in Seq(Entry)
    BY <1>5, TreeAssumption
  <2>2. w \in Nat /\ w # 0
    BY <1>1, <1>2
  <2>3. seqs \in [1..w -> Seq(Entry)] /\ Len(seqs) = w
    BY <2>1, <2>2
  <2> QED BY <2>2, <2>3
<1>7. Children(j) = FlattenSeq(seqs)
  BY DEF Children, w, batch
<1>8. \A i \in 1..w : seqs[i] = Listing[batch[i]]
  OBVIOUS
<1> HIDE DEF seqs
<1>9. \A k, l \in DOMAIN seqs : \A x \in DOMAIN seqs[k], y \in DOMAIN seqs[l] :
          seqs[k][x] = seqs[l][y] => k = l /\ x = y
  <2> SUFFICES ASSUME NEW k \in DOMAIN seqs, NEW l \in DOMAIN seqs, NEW x \in DOMAIN seqs[k],
                      NEW y \in DOMAIN seqs[l], seqs[k][x] = seqs[l][y]
               PROVE  k = l /\ x = y
    OBVIOUS
  <2>3. k \in 1..w /\ l \in 1..w /\ seqs[k] = Listing[batch[k]] /\ seqs[l] = Listing[batch[l]]
    BY <1>6, <1>8
  <2>1. batch[k] = batch[l] /\ x = y
    BY <1>5, <2>3, ListingAssumption
  <2>4. Once(p)
    BY DEF p
  <2>2. n - k + 1 = n - l + 1
    BY <1>1, <1>3, <1>5, <2>1, <2>3, <2>4 DEF Once
  <2> QED BY <1>1, <1>2, <2>1, <2>2, <2>3
<1>10. /\ Children(j) \in Seq(Entry) /\ Once(Children(j))
       /\ ToSet(Children(j)) = UNION {ToSet(seqs[k]) : k \in DOMAIN seqs}
  <2> DEFINE q == FlattenSeq(seqs)
  <2>1. /\ q \in Seq(Entry) /\ ToSet(q) = UNION {ToSet(seqs[k]) : k \in DOMAIN seqs}
        /\ (\A k, l \in DOMAIN seqs : \A x \in DOMAIN seqs[k], y \in DOMAIN seqs[l] :
               seqs[k][x] = seqs[l][y] => k = l /\ x = y) => Once(q)
    BY <1>6, FlattenIs
  <2>2. q = Children(j)
    BY <1>7
  <2> HIDE DEF q
  <2> QED BY <1>9, <2>1, <2>2
<1>11. {batch[i] : i \in 1..w} = B
  <2>1. ASSUME NEW k \in (n - w + 1)..n PROVE \E i \in 1..w : batch[i] = p[k]
    <3>1. n - k + 1 \in 1..w /\ n - (n - k + 1) + 1 = k
      BY <1>1, <1>2
    <3> QED BY <1>3, <3>1
  <2> QED BY <1>3, <1>5, <2>1
<1>12. ToSet(Children(j)) = ListedIn(B)
  <2>1. \A k \in 1..w : ToSet(seqs[k]) = ToSet(Listing[batch[k]]) /\ batch[k] \in B
    BY <1>8, <1>11
  <2>2. \A d \in B : \E k \in 1..w : batch[k] = d
    BY <1>11
  <2> HIDE DEF B
  <2>3. UNION {ToSet(seqs[k]) : k \in 1..w} = UNION {ToSet(Listing[d]) : d \in B}
    BY <2>1, <2>2
  <2> QED BY <1>6, <1>10, <2>3 DEF ListedIn
<1>13. rest \in Seq(Directory) /\ Once(rest) /\ ToSet(rest) = ToSet(p) \ B
  <2>1. n - w \in 0..n
    BY <1>1, <1>2
  <2>2. rest \in Seq(Directory) /\ DOMAIN rest = 1..(n - w) /\ \A i \in 1..(n - w) : rest[i] = p[i]
    BY <1>1, <2>1 DEF n
  <2> HIDE DEF rest
  <2>3. \A i \in 1..(n - w) : i \in 1..n
    BY <1>1, <1>2
  <2>4. Once(p)
    BY DEF p
  <2>5. Once(rest)
    BY <1>1, <2>2, <2>3, <2>4 DEF Once
  <2>6. ASSUME NEW i \in 1..(n - w) PROVE p[i] \in ToSet(p) \ B
    <3>1. \A k \in (n - w + 1)..n : k \in 1..n /\ k # i
      BY <1>1, <1>2
    <3>2. \A k \in (n - w + 1)..n : p[k] # p[i]
      BY <1>1, <2>3, <2>4, <3>1 DEF Once
    <3> QED BY <1>1, <2>3, <3>2 DEF ToSet
  <2>7. ASSUME NEW x \in ToSet(p) \ B PROVE \E i \in 1..(n - w) : p[i] = x
    <3>1. PICK i \in 1..n : p[i] = x
      BY <1>1 DEF ToSet
    <3>2. i \notin (n - w + 1)..n
      BY <3>1
    <3>3. i \in 1..(n - w)
      BY <1>1, <1>2, <3>2
    <3> QED BY <3>1, <3>3
  <2>8. ToSet(rest) = {p[i] : i \in 1..(n - w)}
    BY <2>2 DEF ToSet
  <2> HIDE DEF B
  <2> QED BY <2>2, <2>5, <2>6, <2>7, <2>8
<1> QED BY <1>4, <1>10, <1>12, <1>13 DEF p, n, w

(* Scanning keeps the account of what was found and what is pending: an    *)
(* entry has one place in one directory, so that nothing comes twice.      *)
LEMMA ScansInv ==
    ASSUME NEW j \in Job, ListTyped, ScanInv(j), Scans(j)
    PROVE  /\ ScanInv(j)' /\ pending'[j] \in Seq(Directory) /\ found'[j] \in Seq(Entry)
<1> DEFINE p == pending[j]
           f == found[j]
           c == Children(j)
           rest == SubSeq(pending[j], 1, Len(pending[j]) - Width(j))
           more == Filtered(c, Directory)
<1>1. /\ p \in Seq(Directory) /\ f \in Seq(Entry)
      /\ pending'[j] = rest \o more /\ found'[j] = f \o c
  BY DEF ListTyped, Scans, Remaining
<1>2. /\ Once(p) /\ Once(f) /\ ToSet(p) \subseteq Known(j) /\ ToSet(f) = ListedIn(Scanned(j))
  BY DEF ScanInv
<1>3. PICK B \in SUBSET ToSet(p) :
          /\ c \in Seq(Entry) /\ Once(c) /\ ToSet(c) = ListedIn(B)
          /\ rest \in Seq(Directory) /\ Once(rest) /\ ToSet(rest) = ToSet(p) \ B
  <2>1. pending[j] # <<>> /\ Once(pending[j])
    BY DEF Scans, ScanInv
  <2> QED BY <2>1, BatchIs
<1>4. /\ Known(j) = {Root} \cup (ToSet(f) \cap Directory) /\ Scanned(j) = Known(j) \ ToSet(p)
      /\ Known(j)' = {Root} \cup (ToSet(found'[j]) \cap Directory)
      /\ Scanned(j)' = Known(j)' \ ToSet(pending'[j])
  BY DEF Known, Scanned
<1> HIDE DEF p, f, c, rest
<1>5. more \in Seq(Directory) /\ Once(more) /\ ToSet(more) = ToSet(c) \cap Directory
  <2>1. /\ more \in Seq(Entry) /\ more \in Seq(Directory)
        /\ {more[i] : i \in DOMAIN more} = {c[i] : i \in DOMAIN c} \cap Directory
        /\ (\A i, k \in DOMAIN c : c[i] = c[k] => i = k) =>
               \A i, k \in DOMAIN more : more[i] = more[k] => i = k
    <3>1. c \in Seq(Entry)
      BY <1>3
    <3> QED BY ONLY <3>1, FilteredIs
  <2> HIDE DEF more
  <2> QED BY <1>3, <2>1 DEF ToSet, Once
<1> HIDE DEF more
<1>6. ToSet(f) \subseteq Entry /\ ToSet(p) \subseteq Directory /\ ToSet(c) \subseteq Entry
  BY <1>1, <1>3 DEF ToSet
<1>7. ToSet(f) \cap ToSet(c) = {}
  <2> SUFFICES ASSUME NEW d \in Scanned(j), NEW e \in B, NEW x,
                      x \in ToSet(Listing[d]), x \in ToSet(Listing[e])
               PROVE  FALSE
    BY <1>2, <1>3 DEF ListedIn
  <2>1. d \in Directory /\ e \in Directory /\ d # e
    BY <1>3, <1>4, <1>6, TreeAssumption
  <2>2. PICK i \in DOMAIN Listing[d] : x = Listing[d][i]
    BY DEF ToSet
  <2>3. PICK k \in DOMAIN Listing[e] : x = Listing[e][k]
    BY DEF ToSet
  <2> QED BY <2>1, <2>2, <2>3, ListingAssumption
<1>8. Root \notin ToSet(c) /\ ToSet(rest) \cap ToSet(more) = {}
  BY <1>2, <1>3, <1>4, <1>5, <1>6, <1>7, TreeAssumption
<1>9. found'[j] \in Seq(Entry) /\ ToSet(found'[j]) = ToSet(f) \cup ToSet(c) /\ Once(found'[j])
  BY <1>1, <1>2, <1>3, <1>7, JoinedIs
<1>10. /\ pending'[j] \in Seq(Directory) /\ ToSet(pending'[j]) = ToSet(rest) \cup ToSet(more)
       /\ Once(pending'[j])
  BY <1>1, <1>3, <1>5, <1>8, JoinedIs
<1>11. Known(j)' = Known(j) \cup ToSet(more)
  BY <1>4, <1>5, <1>9
<1>12. Scanned(j)' = Scanned(j) \cup B
  BY <1>2, <1>3, <1>4, <1>5, <1>6, <1>7, <1>8, <1>10, <1>11
<1>13. ToSet(found'[j]) = ListedIn(Scanned(j)')
  BY <1>2, <1>3, <1>9, <1>12 DEF ListedIn
<1>14. ListedIn(Scanned(j))' = ListedIn(Scanned(j)')
  BY DEF ListedIn
<1>15. ToSet(pending'[j]) \subseteq Known(j)'
  BY <1>2, <1>3, <1>10, <1>11
<1> QED BY <1>9, <1>10, <1>13, <1>14, <1>15 DEF ScanInv

(* A step gives the lists of one job other values. *)
LEMMA ListReplaced ==
    ASSUME ListTyped, \A k \in Job : ListInv(k), NEW j \in Job, OnlyOf(j),
           \A k \in Job \ {j} : outcome'[k] = outcome[k],
           NEW p \in Seq(Directory), pending' = [pending EXCEPT ![j] = p],
           NEW f \in Seq(Entry), found' = [found EXCEPT ![j] = f], ListInv(j)'
    PROVE  /\ pending' \in [Job -> Seq(Directory)] /\ found' \in [Job -> Seq(Entry)]
           /\ \A k \in Job : ListInv(k)'
<1>1. ASSUME NEW k \in Job \ {j} PROVE ListInv(k)'
  <2>1. /\ pending'[k] = pending[k] /\ found'[k] = found[k]
        /\ pc'[k] = pc[k] /\ outcome'[k] = outcome[k]
    BY DEF OnlyOf, ListTyped
  <2> QED BY <2>1 DEF ListInv, Offering, Chosen, ScanInv, Scanned, Known, ListedIn
<1>2. pending' \in [Job -> Seq(Directory)] /\ found' \in [Job -> Seq(Entry)]
  BY DEF ListTyped
<1> QED BY <1>1, <1>2

LEMMA ListStep ==
    ASSUME ListTyped, \A k \in Job : ListInv(k), NEW j \in Job, OnlyOf(j), ListMove(j),
           \A k \in Job \ {j} : outcome'[k] = outcome[k]
    PROVE  /\ pending' \in [Job -> Seq(Directory)] /\ found' \in [Job -> Seq(Entry)]
           /\ \A k \in Job : ListInv(k)'
<1> USE DEF ListTyped
<1>1. CASE UNCHANGED scan /\ (Offering(j)' => Offering(j))
           /\ (Chosen(j)' => Chosen(j) \/ pending[j] = <<>>)
  BY <1>1 DEF scan, OnlyOf, ListInv, Offering, Chosen, ScanInv, Scanned, Known, ListedIn
<1>3. CASE /\ pending' = [pending EXCEPT ![j] = <<>>] /\ found' = [found EXCEPT ![j] = <<>>]
           /\ ~Offering(j)'
  <2>1. ListInv(j)'
    BY <1>3 DEF ListInv, Offering
  <2>2. <<>> \in Seq(Directory) /\ <<>> \in Seq(Entry)
    OBVIOUS
  <2> QED BY <1>3, <2>1, <2>2, ListReplaced
<1>4. CASE /\ pending' = [pending EXCEPT ![j] = <<Root>>] /\ found' = [found EXCEPT ![j] = <<>>]
           /\ ~Chosen(j)'
  <2> DEFINE p == <<Root>>
             f == <<>>
  <2>1. p \in Seq(Directory) /\ f \in Seq(Entry) /\ DOMAIN p = {1} /\ p[1] = Root
    BY TreeAssumption
  <2>2. /\ pending' = [pending EXCEPT ![j] = p] /\ found' = [found EXCEPT ![j] = f]
        /\ pending'[j] = p /\ found'[j] = f /\ DOMAIN f = {}
    BY <1>4
  <2> HIDE DEF p, f
  <2>3. ToSet(p) = {Root} /\ Once(p) /\ ToSet(f) = {} /\ Once(f)
    BY <2>1, <2>2 DEF ToSet, Once
  <2>4. Known(j)' = {Root} /\ Scanned(j)' = {}
    BY <2>2, <2>3 DEF Known, Scanned
  <2>5. ListedIn(Scanned(j))' = {}
    BY <2>4 DEF ListedIn
  <2>6. ListInv(j)'
    BY <1>4, <2>2, <2>3, <2>4, <2>5 DEF ListInv, ScanInv
  <2> QED BY <2>1, <2>2, <2>6, ListReplaced
<1>5. CASE Scans(j)
  <2>1. ScanInv(j) /\ ~Chosen(j)'
    BY <1>5 DEF Scans, ListInv, Offering, Chosen
  <2>2. ScanInv(j)' /\ pending'[j] \in Seq(Directory) /\ found'[j] \in Seq(Entry)
    BY <1>5, <2>1, ScansInv
  <2>3. ListInv(j)'
    BY <2>1, <2>2 DEF ListInv
  <2>4. pending' = [pending EXCEPT ![j] = pending'[j]] /\ found' = [found EXCEPT ![j] = found'[j]]
    BY <1>5 DEF Scans
  <2> QED BY <2>2, <2>3, <2>4, ListReplaced
<1> QED BY <1>1, <1>3, <1>4, <1>5 DEF ListMove

WholeInv == ListTyped /\ \A j \in Job : ListInv(j)

LEMMA WholeStep == IInv /\ SpaceInv /\ WholeInv /\ [Next]_vars => WholeInv'
<1> SUFFICES ASSUME IInv, SpaceInv, WholeInv, [Next]_vars PROVE WholeInv'
  OBVIOUS
<1>1. CASE UNCHANGED vars
  BY <1>1 DEF WholeInv, ListTyped, ListInv, Offering, Chosen, ScanInv, Scanned, Known, ListedIn,
         vars, session, scan
<1>2. CASE Next
  <2>1. PICK j \in Job : \/ ImportStep(j) \/ CleanupStep(j)
                        \/ RequestCancel(j) \/ DeliverCancel(j) \/ LateCall(j)
    BY <1>2 DEF Next
  <2>2. OnlyOf(j) /\ SpaceMove(j) /\ ListMove(j) /\ AttemptMove(j)
    BY <2>1, ImportTyped, OtherTyped, ImportSpace, OtherSpace, ImportLists, OtherLists DEF IInv
  <2>3. /\ pending' \in [Job -> Seq(Directory)] /\ found' \in [Job -> Seq(Entry)]
        /\ \A k \in Job : ListInv(k)'
    BY <2>2, ListStep DEF WholeInv, SpaceMove
  <2>4. attempt' \in [Job -> 0..MaxRetries]
    <3>1. attempt \in [Job -> 0..MaxRetries] /\ attempt[j] \in 0..MaxRetries /\ MaxRetries \in Nat
      BY SizeAssumption DEF WholeInv, ListTyped
    <3>2. 0 \in 0..MaxRetries /\ (attempt[j] < MaxRetries => attempt[j] + 1 \in 0..MaxRetries)
      BY <3>1
    <3> QED BY <2>2, <3>1, <3>2 DEF AttemptMove
  <2>5. cancelRequested' \in [Job -> BOOLEAN]
    <3>1. UNCHANGED cancelRequested \/ cancelRequested' = [cancelRequested EXCEPT ![j] = TRUE]
      BY <2>1 DEF ImportStep, CleanupStep, RequestCancel, DeliverCancel, LateCall
    <3> QED BY <3>1 DEF WholeInv, ListTyped
  <2> QED BY <2>3, <2>4, <2>5 DEF WholeInv, ListTyped
<1> QED BY <1>1, <1>2

LEMMA WholeInit == Init => WholeInv
BY SizeAssumption DEF Init, WholeInv, ListTyped, ListInv, Offering, Chosen

LEMMA WholeInvariant == Spec => [](IInv /\ SpaceInv /\ WholeInv)
BY InitInv, StepInv, SpaceInit, SpaceStep, WholeInit, WholeStep, PTL DEF Spec

(* An import keeps its types: it holds the mutation lock exactly inside    *)
(* its two sections, and tries a transfer at most MaxRetries times again   *)
(* (jobs.py 268-285, 321-343, 510-530).                                    *)
THEOREM ImportTypes == Spec => []TypeOK
<1>1. IInv /\ SpaceInv /\ WholeInv => TypeOK
  BY DEF IInv, Typed, Locked, SpaceInv, WholeInv, ListTyped, TypeOK
<1> QED BY <1>1, WholeInvariant, PTL

(* A share is offered whole: however often its transfer is tried again,    *)
(* and however many directories are scanned at a time, every entry of the  *)
(* tree is among the items once (jobs.py 277-301, client.py 104-117).      *)
THEOREM SharesAreWhole == Spec => []ImportedWhole
<1>1. ASSUME SpaceInv, WholeInv PROVE ImportedWhole
  <2> SUFFICES ASSUME NEW j \in Job, outcome[j] = "offered"
               PROVE  /\ content[j] /\ folder[j] = "live"
                      /\ Len(found[j]) = Cardinality(Entry) /\ ToSet(found[j]) = Entry
    BY DEF ImportedWhole, Offered
  <2>1. content[j] /\ folder[j] = "live"
    BY <1>1 DEF SpaceInv, ShareInv, Arrived
  <2>2. ScanInv(j) /\ pending[j] = <<>> /\ found[j] \in Seq(Entry)
    BY <1>1 DEF WholeInv, ListTyped, ListInv, Offering, Chosen
  <2>3. ToSet(pending[j]) = {}
    BY <2>2 DEF ToSet
  <2>4. ToSet(found[j]) = ListedIn(Known(j)) /\ ToSet(found[j]) \subseteq Entry
    BY <2>2, <2>3 DEF ScanInv, Scanned, ToSet
  <2>5. Entry \subseteq ToSet(found[j])
    <3> DEFINE S == {Root} \cup ToSet(found[j])
    <3>1. S \in SUBSET (Entry \cup {Root}) /\ Root \in S
      BY <2>4
    <3>2. \A d \in S \cap Directory : d \in Known(j)
      BY DEF Known
    <3>3. \A d \in S \cap Directory : ToSet(Listing[d]) \subseteq S
      BY <2>4, <3>2 DEF ListedIn
    <3> HIDE DEF S
    <3>4. Entry \subseteq S
      BY <3>1, <3>3, ListingAssumption
    <3> QED BY <3>4, TreeAssumption DEF S
  <2>6. ToSet(found[j]) = Entry
    BY <2>4, <2>5
  <2>7. Cardinality(ToSet(found[j])) = Len(found[j])
    BY <2>2, OnceSize DEF ScanInv
  <2> QED BY <2>1, <2>6, <2>7
<1> QED BY <1>1, WholeInvariant, PTL
=============================================================================
