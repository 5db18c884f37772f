-------------------------- MODULE JobFolderProofs --------------------------
(***************************************************************************)
(* What the database says of the temporary folder of a job at Baidu: a     *)
(* cleanup that is recorded has purged the copy, and a folder that is left *)
(* has a row that asks for its cleanup.  Both rest on an import having its *)
(* job to itself until it is over, and on the mutation lock.               *)
(***************************************************************************)
EXTENDS JobServiceProofs

USE ActorAssumption, JobAssumption

(* Who is importing a job. *)
ImportsC(c, j) == job[c] = j /\ pc[c] \in {"insert", "put_import"}
ImportsW(w, j) == job[w] = j /\ pc[w] \in Import
Importing(j) ==
    \/ \E c \in Client : ImportsC(c, j)
    \/ \E i \in 1..Len(queue) : queue[i] = <<"import", j>>
    \/ \E w \in Worker : ImportsW(w, j)

(* It is alone at the job, but for requests to cancel it, which have found *)
(* a job that was not waiting for its selection.                           *)
Alone(j) ==
    /\ \A c \in Client : ImportsC(c, j) =>
          /\ \A i \in 1..Len(queue) : queue[i][2] # j
          /\ \A a \in Coroutine : job[a] # j
          /\ \A d \in Client : ImportsC(d, j) => d = c
    /\ \A i \in 1..Len(queue) : queue[i] = <<"import", j>> =>
          /\ \A k \in 1..Len(queue) : queue[k][2] = j => k = i
          /\ \A a \in Coroutine : job[a] # j
    /\ \A w \in Worker : ImportsW(w, j) =>
          /\ \A i \in 1..Len(queue) : queue[i][2] # j
          /\ \A a \in Coroutine : job[a] = j => a = w
CancelOnly(c) ==
    /\ pc[c] \notin {"sel_commit", "put_transfer"}
    /\ pc[c] \in {"cancel_commit", "deliver"} => ~sawAwaiting[c]

(* Its row is new, and the expiration loop does not know it. *)
NewRow(j) == row[j].state = "absent" \/
    /\ row[j].state \in {"queued_import", "importing", "cancelled"}
    /\ ~row[j].cleanupCompleted /\ ~row[j].tempFsId /\ row[j].expiry = "page"
Unknown(j) == j \notin expiredIds \cup deletable

(* Its mkdir was not given up, and its folder is made by nobody else.      *)
Made(w) == pc[w] \in {"i_share", "i_check2", "i_scan", "i_store"}
Fresh(j) == late[j] = "no" /\ (folder[j] = "none" \/ \E w \in Worker : job[w] = j /\ Made(w))

Stage(j) == Importing(j) =>
    /\ Alone(j) /\ NewRow(j) /\ Unknown(j) /\ Fresh(j)
    /\ \A c \in Client : job[c] = j => CancelOnly(c)
Staging == \A j \in Job : Stage(j)

-----------------------------------------------------------------------------
(* Steps during an import. *)

(* A step that begins no import. *)
LEMMA NoNewImport ==
    ASSUME NEW j \in Job, NEW a \in Actor, OthersKeep(a),
           \A i \in 1..Len(queue') : queue'[i] = <<"import", j>> =>
               \E k \in 1..Len(queue) : queue[k] = <<"import", j>>,
           a \in Worker => (ImportsW(a, j)' => ImportsW(a, j)),
           a \in Client => (ImportsC(a, j)' => ImportsC(a, j))
    PROVE  Importing(j)' => Importing(j)
<1>1. ASSUME NEW w \in Worker, ImportsW(w, j)' PROVE ImportsW(w, j)
  BY <1>1 DEF ImportsW, OthersKeep, Actor, Coroutine
<1>2. ASSUME NEW c \in Client, ImportsC(c, j)' PROVE ImportsC(c, j)
  BY <1>2 DEF ImportsC, OthersKeep, Actor
<1> QED BY <1>1, <1>2 DEF Importing

LEMMA FreshFrame ==
    ASSUME NEW j \in Job, Fresh(j), NEW a \in Actor, OthersKeep(a), late'[j] = late[j],
           folder'[j] = folder[j], a \in Worker /\ job[a] = j => job'[a] = j /\ (Made(a) => Made(a)')
    PROVE  Fresh(j)'
<1>1. ASSUME NEW w \in Worker, job[w] = j, Made(w) PROVE job'[w] = j /\ Made(w)'
  <2>1. CASE w = a
    BY <1>1, <2>1
  <2>2. CASE w # a
    BY <1>1, <2>2 DEF OthersKeep, Actor, Coroutine, Made
  <2> QED BY <2>1, <2>2
<1> QED BY <1>1 DEF Fresh

(* A step that leaves the import alone, or takes its worker out of it. *)
LEMMA StageFrame ==
    ASSUME NEW j \in Job, Stage(j), NEW a \in Actor, OthersKeep(a), QueueKept(j),
           a \in Worker => (ImportsW(a, j)' => ImportsW(a, j)),
           a \in Client => (ImportsC(a, j)' => ImportsC(a, j)),
           \A c \in Client \ {a} : sawAwaiting'[c] = sawAwaiting[c],
           Importing(j) =>
              /\ a \in Coroutine /\ job'[a] = j => job[a] = j
              /\ a \in Client /\ job'[a] = j => CancelOnly(a)'
              /\ \/ NewRow(j)' /\ Unknown(j)' /\ Fresh(j)'
                 \/ a \in Coroutine /\ job[a] = j /\ ~ImportsW(a, j)'
    PROVE  Stage(j)'
<1> SUFFICES ASSUME Importing(j)'
             PROVE  /\ Alone(j)' /\ NewRow(j)' /\ Unknown(j)' /\ Fresh(j)'
                    /\ \A c \in Client : job'[c] = j => CancelOnly(c)'
  BY DEF Stage
<1>1. PICK s \in {0, 1} : \A i \in 1..Len(queue') :
         queue'[i][2] = j => i + s \in 1..Len(queue) /\ queue'[i] = queue[i + s]
  BY DEF QueueKept
<1>2. \A i \in 1..Len(queue') : queue'[i] = <<"import", j>> =>
         i + s \in 1..Len(queue) /\ queue[i + s] = <<"import", j>>
  BY <1>1
<1>3. Importing(j)
  BY <1>2, NoNewImport
<1>4. Alone(j) /\ NewRow(j) /\ Unknown(j) /\ \A c \in Client : job[c] = j => CancelOnly(c)
  BY <1>3 DEF Stage
<1>5. \A b \in Coroutine : job'[b] = j => job[b] = j
  BY <1>3 DEF OthersKeep, Actor
<1>6. ASSUME NEW w \in Worker, ImportsW(w, j)' PROVE ImportsW(w, j)
  BY <1>6 DEF ImportsW, OthersKeep, Actor, Coroutine
<1>7. ASSUME NEW c \in Client, ImportsC(c, j)' PROVE ImportsC(c, j)
  BY <1>7 DEF ImportsC, OthersKeep, Actor
<1>8. NewRow(j)' /\ Unknown(j)' /\ Fresh(j)'
  <2> SUFFICES ASSUME a \in Coroutine, job[a] = j, ~ImportsW(a, j)' PROVE FALSE
    BY <1>3
  <2>1. \A c \in Client : ~ImportsC(c, j)
    BY <1>4 DEF Alone
  <2>2. \A i \in 1..Len(queue) : queue[i] # <<"import", j>>
    BY <1>4 DEF Alone
  <2>3. \A w \in Worker : ImportsW(w, j) => w = a
    BY <1>4 DEF Alone
  <2> QED BY <1>2, <1>6, <1>7, <2>1, <2>2, <2>3 DEF Importing
<1>9. Alone(j)'
  <2>1. ASSUME NEW c \in Client, ImportsC(c, j)'
        PROVE  /\ \A i \in 1..Len(queue') : queue'[i][2] # j
               /\ \A b \in Coroutine : job'[b] # j
               /\ \A d \in Client : ImportsC(d, j)' => d = c
    BY <1>1, <1>4, <1>5, <1>7, <2>1 DEF Alone
  <2>2. ASSUME NEW i \in 1..Len(queue'), queue'[i] = <<"import", j>>
        PROVE  /\ \A k \in 1..Len(queue') : queue'[k][2] = j => k = i
               /\ \A b \in Coroutine : job'[b] # j
    <3>1. i + s \in 1..Len(queue) /\ queue[i + s] = <<"import", j>>
      BY <1>2, <2>2
    <3>2. ASSUME NEW k \in 1..Len(queue'), queue'[k][2] = j PROVE k + s = i + s
      <4>1. k + s \in 1..Len(queue) /\ queue[k + s][2] = j
        BY <1>1, <3>2
      <4> QED BY <1>4, <3>1, <4>1 DEF Alone
    <3>3. \A k \in 1..Len(queue') : k + s = i + s => k = i
      OBVIOUS
    <3> QED BY <1>4, <1>5, <3>1, <3>2, <3>3 DEF Alone
  <2>3. ASSUME NEW w \in Worker, ImportsW(w, j)'
        PROVE  /\ \A i \in 1..Len(queue') : queue'[i][2] # j
               /\ \A b \in Coroutine : job'[b] = j => b = w
    BY <1>1, <1>4, <1>5, <1>6, <2>3 DEF Alone
  <2> QED BY <2>1, <2>2, <2>3 DEF Alone
<1>10. \A c \in Client : job'[c] = j => CancelOnly(c)'
  BY <1>3, <1>4 DEF OthersKeep, CancelOnly, Actor
<1> QED BY <1>8, <1>9, <1>10

(* A worker gives its mkdir up only as it leaves the import.               *)
LEMMA ActionLate ==
    ASSUME TypeOK, NEW w \in Worker, ActionStep(w) \/ CallFails(w), NEW j \in Job
    PROVE  \/ late'[j] = late[j]
           \/ /\ late'[j] = "pending" /\ j = job[w] /\ pc[w] = "i_mkdir" /\ pc'[w] = "h_fail"
              /\ UNCHANGED <<row, folder>>
<1>1. CASE ActionStep(w)
  BY <1>1 DEF ActionStep, process
<1>2. CASE CallFails(w)
  <2>1. pc'[w] = "h_fail"
    BY <1>2 DEF CallFails, Raise, Goto, TypeOK, ControlOK, Actor, Coroutine
  <2> QED BY <1>2, <2>1 DEF CallFails, GivesUp
<1> QED BY <1>1, <1>2

(* A step of a worker that imports its own job changes the row only as an  *)
(* import does.                                                            *)
LEMMA ActionImport ==
    ASSUME TypeOK, NEW w \in Worker, ActionStep(w) \/ CallFails(w), NEW j \in Job, j = job[w]
    PROVE  /\ pc'[w] \in Import => pc[w] \in Import /\ (NewRow(j) => NewRow(j)')
           /\ pc'[w] \in Import => (Made(w) => Made(w)') /\ (folder'[j] = folder[j] \/ Made(w)')
           /\ pc'[w] \notin {"c_meta", "c_purge", "c_mark"}
           /\ row'[j].tempFsId = row[j].tempFsId \/ pc[w] = "i_store"
           /\ folder'[j] = folder[j] \/ (pc[w] = "i_mkdir" /\ folder'[j] = "live")
<1>1. /\ pc \in [Actor -> WorkerLabel \cup ReaperLabel \cup ClientLabel] /\ w \in Actor /\ w \in Coroutine
      /\ row \in [Job -> Row] /\ row[j] \in Row /\ folder \in [Job -> {"none", "live", "recycled", "purged"}]
  BY DEF TypeOK, ControlOK, DataOK, Actor, Coroutine
<1>2. ASSUME NEW s, SetState(j, s)
      PROVE  /\ row'[j].tempFsId = row[j].tempFsId
             /\ s = "importing" /\ NewRow(j) => NewRow(j)'
  BY <1>1, <1>2 DEF SetState, Update, Row, NewRow, Exists, NoRow
<1>3. ASSUME NEW l, Goto(w, l) PROVE pc'[w] = l
  BY <1>1, <1>3 DEF Goto
<1>4. Raise(w) => pc'[w] = "h_fail"
  BY <1>3 DEF Raise
<1> USE <1>1 DEF Proceed, Import, Made, baidu
<1>5. CASE ImportGet(w) \/ AcquireForImport(w) \/ ImportShare(w) \/ ScanTree(w)
  BY <1>3, <1>4, <1>5 DEF ImportGet, AcquireForImport, ImportShare, ScanTree, NewRow
<1>6. CASE SetImporting(w)
  BY <1>2, <1>3, <1>6 DEF SetImporting
<1>7. CASE CheckCancelled(w)
  <2>1. \/ Raise(w)
        \/ \E l \in {"i_drop", "x_cancel", "i_mkdir", "i_scan"} : Proceed(w, l)
    BY <1>7 DEF CheckCancelled
  <2> QED BY <1>3, <1>4, <1>7, <2>1 DEF CheckCancelled, NewRow
<1>8. CASE Mkdir(w)
  BY <1>3, <1>8 DEF Mkdir, NewRow
<1>9. CASE StoreItems(w)
  BY <1>3, <1>4, <1>9 DEF StoreItems
<1>10. CASE TransferGet(w) \/ Locate(w) \/ Upload(w)
  BY <1>3, <1>4, <1>10 DEF TransferGet, Locate, Upload
<1>14. CASE CallFails(w)
  BY <1>2, <1>4, <1>14 DEF CallFails
<1>11. CASE QuitCancelled(w) \/ SetTransferring(w) \/ CancelInside(w) \/ SetCleaning(w)
  BY <1>2, <1>3, <1>11 DEF QuitCancelled, SetTransferring, CancelInside, SetCleaning
<1>12. CASE StoreResult(w)
  <2>1. row'[j] \in {row[j], [row[j] EXCEPT !.state = "completed", !.expiry = "page"]}
    BY <1>12 DEF StoreResult, Update
  <2>2. row'[j].tempFsId = row[j].tempFsId
    BY <2>1 DEF Row
  <2> QED BY <1>3, <1>4, <1>12, <2>2 DEF StoreResult
<1>13. CASE Handle(w)
  <2>1. \/ row'[j] \in {row[j], [row[j] EXCEPT !.state = "failed", !.expiry = "failed"]}
        \/ SetState(j, "cancelled")
    BY <1>13 DEF Handle, Update
  <2>2. row'[j].tempFsId = row[j].tempFsId
    BY <1>2, <2>1 DEF Row
  <2> QED BY <1>3, <1>13, <2>2 DEF Handle
<1> QED BY <1>5, <1>6, <1>7, <1>8, <1>9, <1>10, <1>11, <1>12, <1>13, <1>14 DEF ActionStep

LEMMA ActionStage ==
    ASSUME Base, NEW j \in Job, Stage(j), NEW w \in Worker, ActionStep(w) \/ CallFails(w)
    PROVE  Stage(j)'
<1>1. ActionEffect(w)
  BY ActionEffects DEF Base
<1>2. /\ w \in Actor /\ w \in Coroutine /\ w \notin Client
      /\ UNCHANGED <<job, sawAwaiting, expiredIds, deletable>> /\ OthersKeep(w)
      /\ QueueKept(j)
  BY <1>1 DEF ActionEffect, QueueKept, Actor, Coroutine
<1>3. CASE j # job[w]
  <2>1. row'[j] = row[j] /\ folder'[j] = folder[j] /\ late'[j] = late[j]
    BY <1>1, <1>3 DEF ActionEffect, Rewritten
  <2>2. Fresh(j) => Fresh(j)'
    BY <1>2, <1>3, <2>1, FreshFrame
  <2> QED BY <1>2, <1>3, <2>1, <2>2, StageFrame DEF ImportsW, NewRow, Unknown, Stage
<1>4. CASE j = job[w]
  <2>1. pc'[w] \in Import => /\ pc[w] \in Import /\ (NewRow(j) => NewRow(j)')
                            /\ (Made(w) => Made(w)') /\ (folder'[j] = folder[j] \/ Made(w)')
    BY <1>4, ActionImport DEF Base
  <2>2. pc'[w] \in Import => late'[j] = late[j]
    BY <1>4, ActionLate DEF Base, Import
  <2>3. ASSUME pc'[w] \in Import, Fresh(j) PROVE Fresh(j)'
    <3>1. CASE folder'[j] = folder[j]
      BY <1>2, <1>4, <2>1, <2>2, <2>3, <3>1, FreshFrame
    <3>2. CASE Made(w)'
      BY <1>2, <1>4, <2>2, <2>3, <3>2 DEF Fresh
    <3> QED BY <2>1, <2>3, <3>1, <3>2
  <2> QED BY <1>2, <1>4, <2>1, <2>3, StageFrame DEF ImportsW, Unknown, Stage
<1> QED BY <1>3, <1>4

LEMMA CleanupStage ==
    ASSUME Base, NEW j \in Job, Stage(j), NEW a \in Coroutine, CleanupStep(a) \/ Throw(a)
    PROVE  Stage(j)'
<1>1. /\ OthersKeep(a) /\ job'[a] \in {job[a], NoJob}
      /\ UNCHANGED <<queue, sawAwaiting, expiredIds>>
      /\ j # job[a] => /\ row'[j] = row[j] /\ (j \in deletable' => j \in deletable)
                       /\ folder'[j] = folder[j] /\ late'[j] = late[j]
      /\ pc'[a] \notin Import
  <2>1. CASE CleanupStep(a)
    <3>1. CleanupEffect(a)
      BY <2>1, CleanupEffects DEF Base
    <3>2. after[a] \in {"t_store", "end", "w_get", "r_next"}
      BY DEF Base, TypeOK, ControlOK
    <3>3. row \in [Job -> Row]
      BY DEF Base, TypeOK, DataOK
    <3>4. /\ j # job[a] => /\ row'[j] = row[j] /\ (j \in deletable' => j \in deletable)
                           /\ folder'[j] = folder[j] /\ late'[j] = late[j]
          /\ OthersKeep(a) /\ UNCHANGED <<queue, sawAwaiting, expiredIds>>
      BY <3>1, <3>3 DEF CleanupEffect
    <3>5. job'[a] \in {job[a], NoJob} /\ pc'[a] \notin Import
      BY <3>1, <3>2 DEF CleanupEffect, Stays, Returns, Leaves, Import, Cleanup
    <3> QED BY <3>4, <3>5
  <2>2. CASE Throw(a)
    <3>1. ThrowEffect(a)
      BY <2>2, ThrowEffects DEF Base
    <3>2. j # job[a] => folder'[j] = folder[j] /\ late'[j] = late[j]
      BY <3>1 DEF ThrowEffect, Recycled, GivesUp, Base, TypeOK, DataOK
    <3> QED BY <3>1, <3>2 DEF ThrowEffect, Leaves, Import
  <2> QED BY <2>1, <2>2
<1>2. a \in Actor /\ a \notin Client /\ QueueKept(j)
  BY <1>1 DEF QueueKept, Actor, Coroutine
<1>3. j # job[a] /\ Fresh(j) => Fresh(j)'
  BY <1>1, <1>2, FreshFrame
<1> QED BY <1>1, <1>2, <1>3, StageFrame DEF ImportsW, NewRow, Unknown, Stage

(* An import that is taken from the queue goes on at its worker. *)
LEMMA LoopStage ==
    ASSUME Base, NEW j \in Job, Stage(j), NEW w \in Worker, TakeAction(w) \/ ActionEnds(w)
    PROVE  Stage(j)'
<1>1. /\ w \in Actor /\ w \in Coroutine /\ w \notin Client /\ OthersKeep(w)
      /\ UNCHANGED <<row, folder, late, sawAwaiting, expiredIds, deletable>>
      /\ pc[w] \notin Import
  BY DEF TakeAction, ActionEnds, OthersKeep, Goto, baidu, process, calls, sweep, Import, Base, TypeOK,
     ControlOK, Actor, Coroutine
<1>4. Fresh(j) => Fresh(j)'
  <2>1. \A v \in Worker : Made(v) => v # w /\ v \in Actor
    BY <1>1 DEF Made, Import, Actor, Coroutine
  <2>2. \A v \in Worker : Made(v) => pc'[v] = pc[v] /\ job'[v] = job[v]
    BY <1>1, <2>1 DEF OthersKeep
  <2> QED BY <1>1, <2>2 DEF Fresh, Made
<1>2. CASE ActionEnds(w)
  <2>1. job'[w] = NoJob /\ UNCHANGED queue
    BY <1>1, <1>2 DEF ActionEnds, calls, Base, TypeOK, ControlOK
  <2> QED BY <1>1, <1>4, <2>1, StageFrame DEF ImportsW, QueueKept, NewRow, Unknown, Stage
<1>3. CASE TakeAction(w)
  <2>1. /\ queue \in Seq(Action \X Job) /\ queue # <<>> /\ 1 \in 1..Len(queue) /\ Head(queue) = queue[1]
        /\ queue[1] \in Action \X Job /\ queue' = Tail(queue) /\ job'[w] = queue[1][2] /\ QueueKept(j)
        /\ pc'[w] = FirstLabel(queue[1][1])
    <3>1. queue \in Seq(Action \X Job) /\ queue # <<>> /\ queue' = Tail(queue)
      BY <1>3 DEF TakeAction, Base, TypeOK, DataOK
    <3>2. Len(queue) \in Nat \ {0} /\ Head(queue) = queue[1]
      BY <3>1, Taken
    <3>3. 1 \in 1..Len(queue) /\ queue[1] \in Action \X Job
      BY <3>1, <3>2
    <3>4. job'[w] = queue[1][2] /\ pc'[w] = FirstLabel(queue[1][1])
      BY <1>1, <1>3, <3>2 DEF TakeAction, Goto, Base, TypeOK, ControlOK
    <3>5. QueueKept(j)
      BY <1>3, TakeQueue DEF Base
    <3> QED BY <3>1, <3>2, <3>3, <3>4, <3>5
  <2>2. CASE j # queue[1][2]
    BY <1>1, <1>4, <2>1, <2>2, StageFrame DEF ImportsW, NewRow, Unknown, Stage
  <2>3. CASE j = queue[1][2] /\ queue[1][1] # "import"
    <3>1. ~Importing(j)
      <4>1. \A i \in 1..Len(queue) : queue[i] = <<"import", j>> => i # 1
        BY <2>3
      <4>2. Importing(j) => Alone(j)
        BY DEF Stage
      <4> QED BY <2>1, <2>3, <4>1, <4>2 DEF Alone, Importing
    <3>2. ~ImportsW(w, j)'
      BY <2>1, <2>3 DEF ImportsW, FirstLabel, Action, Import
    <3> QED BY <1>1, <2>1, <3>1, <3>2, StageFrame
  <2>4. CASE queue[1] = <<"import", j>>
    <3>1. /\ Alone(j) /\ NewRow(j) /\ Unknown(j) /\ Fresh(j)
          /\ \A c \in Client : job[c] = j => CancelOnly(c)
      BY <2>1, <2>4 DEF Stage, Importing
    <3>2. \A i \in 1..Len(queue') : queue'[i][2] # j
      <4>1. \A i \in 1..Len(queue') : i + 1 \in 1..Len(queue) /\ queue'[i] = queue[i + 1]
        BY <2>1, Taken
      <4>2. \A k \in 1..Len(queue) : queue[k][2] = j => k = 1
        BY <2>1, <2>4, <3>1 DEF Alone
      <4> QED BY <4>1, <4>2
    <3>3. \A b \in Coroutine : job'[b] = j => b = w
      BY <1>1, <2>1, <2>4, <3>1 DEF Alone, OthersKeep, Actor
    <3>4. \A c \in Client : pc'[c] = pc[c] /\ job'[c] = job[c] /\ sawAwaiting'[c] = sawAwaiting[c]
      BY <1>1 DEF OthersKeep, Actor
    <3>5. \A c \in Client : ~ImportsC(c, j)'
      BY <2>1, <2>4, <3>1, <3>4 DEF Alone, ImportsC
    <3>6. Alone(j)'
      <4>1. \A i \in 1..Len(queue') : queue'[i] # <<"import", j>>
        BY <3>2
      <4>2. \A v \in Worker : ImportsW(v, j)' => v = w
        BY <3>3 DEF ImportsW, Coroutine
      <4> QED BY <3>2, <3>3, <3>5, <4>1, <4>2 DEF Alone
    <3> QED BY <1>1, <1>4, <3>1, <3>4, <3>6 DEF Stage, NewRow, Unknown, CancelOnly
  <2>5. queue[1] = <<queue[1][1], queue[1][2]>>
    BY <2>1
  <2> QED BY <2>2, <2>3, <2>4, <2>5
<1> QED BY <1>2, <1>3

LEMMA ReaperStage ==
    ASSUME Base, NEW j \in Job, Stage(j), ReaperStep
    PROVE  Stage(j)'
<1>1. /\ OthersKeep(Reaper) /\ UNCHANGED <<queue, sawAwaiting>>
      /\ Reaper \in Actor /\ Reaper \in Coroutine /\ Reaper \notin Worker /\ Reaper \notin Client
  BY DEF ReaperStep, SelectExpired, CleanNext, DeleteRows, OthersKeep, Goto, baidu, calls, Base,
     TypeOK, ControlOK, Actor, Coroutine
<1>2. NewRow(j) => j \notin Expired
  BY DEF NewRow, Expired, Exists, NoRow
<1>3. /\ expiredIds' \cup deletable' \subseteq expiredIds \cup deletable \cup Expired
      /\ job'[Reaper] \in {job[Reaper], NoJob} \cup expiredIds
      /\ j \notin deletable => row'[j] = row[j]
  BY <1>1 DEF ReaperStep, SelectExpired, CleanNext, DeleteRows, baidu, Base, TypeOK, ControlOK
<1>5. folder'[j] = folder[j] /\ late'[j] = late[j]
  BY DEF ReaperStep, SelectExpired, CleanNext, DeleteRows, baidu, process
<1>6. Fresh(j) => Fresh(j)'
  BY <1>1, <1>5, FreshFrame
<1>4. Importing(j) => NewRow(j)' /\ Unknown(j)' /\ Fresh(j)' /\ (job'[Reaper] = j => job[Reaper] = j)
  BY <1>2, <1>3, <1>6 DEF Stage, NewRow, Unknown
<1> QED BY <1>1, <1>4, StageFrame DEF QueueKept

(* A request that begins: nobody knows the job of a new one, and the job   *)
(* of another is found in a state that no import is in, or is to be        *)
(* cancelled only.                                                         *)
LEMMA ArrivalStage ==
    ASSUME Base, NEW j \in Job, Stage(j), NEW c \in Client, Requests(RequestArrives(c))
    PROVE  Stage(j)'
<1>1. RequestKeeps(c) /\ c \in Actor /\ c \notin Worker /\ c \notin Coroutine
  BY RequestEffects DEF Base, Actor, Coroutine
<1>2. PICK k \in Job : Create(c, k) \/ ReadForSelection(c, k) \/ ReadForCancel(c, k)
  BY DEF Requests, RequestArrives
<1>3. /\ UNCHANGED <<row, queue, expiredIds, deletable>> /\ job'[c] = k /\ OthersKeep(c)
      /\ \A d \in Client \ {c} : sawAwaiting'[d] = sawAwaiting[d]
      /\ QueueKept(j)
  BY <1>1, <1>2 DEF Create, ReadForSelection, ReadForCancel, RequestKeeps, QueueKept, Base, TypeOK,
     ControlOK
<1>8. Fresh(j) => Fresh(j)'
  BY <1>1, <1>3, FreshFrame DEF RequestKeeps
<1>4. CASE k # j
  BY <1>1, <1>3, <1>4, <1>8, StageFrame DEF ImportsC, NewRow, Unknown, Stage
<1>5. CASE k = j /\ Create(c, k)
  <2>1. /\ row[j].state = "absent" /\ pc'[c] = "insert"
        /\ \A d \in Client : job[d] # j
    BY <1>1, <1>5 DEF Create, Goto, Base, TypeOK, ControlOK
  <2>2. /\ \A a \in Coroutine : job[a] # j
        /\ \A i \in 1..Len(queue) : queue[i][2] # j
        /\ Unknown(j) /\ Fresh(j)
    BY <2>1 DEF Base, Untouched, Unknown, Fresh
  <2>3. /\ \A a \in Coroutine : job'[a] # j
        /\ \A i \in 1..Len(queue') : queue'[i][2] # j /\ queue'[i] # <<"import", j>>
        /\ \A d \in Client : job'[d] = j => d = c
    BY <1>1, <1>3, <2>1, <2>2 DEF RequestKeeps
  <2>4. Alone(j)'
    BY <2>3 DEF Alone, ImportsC, ImportsW, Coroutine
  <2> QED BY <1>3, <1>8, <2>1, <2>2, <2>3, <2>4 DEF Stage, NewRow, Unknown, CancelOnly
<1>6. CASE k = j /\ ReadForSelection(c, k)
  <2>1. ~Importing(j) /\ ~ImportsC(c, j)'
    BY <1>1, <1>6 DEF ReadForSelection, Stage, NewRow, ImportsC, Goto, Base, TypeOK, ControlOK
  <2> QED BY <1>1, <1>3, <2>1, StageFrame
<1>7. CASE k = j /\ ReadForCancel(c, k)
  <2>1. pc'[c] = "cancel_commit" /\ sawAwaiting'[c] = (row[j].state = "awaiting_selection")
    BY <1>1, <1>7 DEF ReadForCancel, Goto, Base, TypeOK, ControlOK, DataOK
  <2>2. NewRow(j) => row[j].state # "awaiting_selection"
    BY DEF NewRow
  <2>3. Importing(j) => CancelOnly(c)' /\ NewRow(j)' /\ Unknown(j)' /\ Fresh(j)'
    BY <1>3, <1>8, <2>1, <2>2 DEF Stage, CancelOnly, NewRow, Unknown
  <2>4. ~ImportsC(c, j)'
    BY <2>1 DEF ImportsC
  <2> QED BY <1>1, <1>3, <2>3, <2>4, StageFrame
<1> QED BY <1>2, <1>4, <1>5, <1>6, <1>7

(* The request that puts the import into the queue. *)
LEMMA PutStage ==
    ASSUME Base, NEW c \in Client, Requests(RequestGoesOn(c)), Put(c, "put_import", "import"),
           NEW j \in Job, j = job[c], Stage(j)
    PROVE  Stage(j)'
<1>1. RequestKeeps(c) /\ c \in Actor /\ c \notin Worker /\ c \notin Coroutine
      /\ UNCHANGED <<row, expiredIds, deletable>> /\ job'[c] = NoJob /\ queue' = Append(queue, <<"import", j>>)
  BY RequestEffects DEF Put, Base, TypeOK, ControlOK, Actor, Coroutine, RequestKeeps
<1>2. ImportsC(c, j) /\ Importing(j)
  BY DEF Put, ImportsC, Importing
<1>3. Alone(j) /\ NewRow(j) /\ Unknown(j) /\ Fresh(j) /\ \A d \in Client : job[d] = j => CancelOnly(d)
  BY <1>2 DEF Stage
<1>8. Fresh(j)'
  BY <1>1, <1>3, FreshFrame DEF RequestKeeps
<1>4. /\ \A i \in 1..Len(queue) : queue[i][2] # j
      /\ \A a \in Coroutine : job[a] # j
      /\ \A d \in Client : ImportsC(d, j) => d = c
  BY <1>2, <1>3 DEF Alone
<1>5. \A i \in 1..Len(queue') : queue'[i][2] = j => i = Len(queue) + 1
  <2>1. queue \in Seq(Action \X Job) /\ <<"import", j>> \in Action \X Job
    BY DEF Base, TypeOK, DataOK, Action
  <2> QED BY <1>1, <1>4, <2>1, Appended
<1>6. /\ \A a \in Coroutine : job'[a] # j
      /\ \A d \in Client : ~ImportsC(d, j)'
      /\ \A d \in Client : job'[d] = j => CancelOnly(d)'
  BY <1>1, <1>3, <1>4 DEF RequestKeeps, ImportsC, CancelOnly
<1>7. Alone(j)'
  <2>1. \A i \in 1..Len(queue') : queue'[i] = <<"import", j>> => queue'[i][2] = j
    OBVIOUS
  <2> QED BY <1>5, <1>6, <2>1 DEF Alone, ImportsW, Coroutine
<1> QED BY <1>1, <1>3, <1>6, <1>7, <1>8 DEF Stage, NewRow, Unknown

LEMMA ProgressStage ==
    ASSUME Base, NEW j \in Job, Stage(j), NEW c \in Client, Requests(RequestGoesOn(c))
    PROVE  Stage(j)'
<1>1. RequestKeeps(c) /\ c \in Actor /\ c \notin Worker /\ c \notin Coroutine
      /\ pc[c] # "idle" /\ job[c] \in Job
  BY RequestEffects, AtJob DEF Base, Actor, Coroutine, Requests, RequestGoesOn, InsertRow, Put,
     CommitSelection, CommitCancel, DeliverCancel
<1>2. /\ OthersKeep(c) /\ UNCHANGED <<expiredIds, deletable>>
      /\ \A d \in Client \ {c} : sawAwaiting'[d] = sawAwaiting[d]
      /\ job'[c] \in {job[c], NoJob}
  BY <1>1 DEF RequestKeeps
<1>9. Fresh(j) => Fresh(j)'
  BY <1>1, FreshFrame DEF RequestKeeps
<1>3. CASE j # job[c]
  <2>1. row'[j] = row[j]
    BY <1>1, <1>3, CommitEffects DEF Requests, RequestGoesOn, InsertRow, Put, DeliverCancel, Committed,
       Base, TypeOK, DataOK
  <2>2. QueueKept(j)
    BY <1>3, RequestQueue DEF Base
  <2> QED BY <1>1, <1>2, <1>3, <1>9, <2>1, <2>2, StageFrame DEF ImportsC, NewRow, Unknown, Stage
<1>4. CASE InsertRow(c) /\ j = job[c]
  <2>1. /\ pc[c] = "insert" /\ pc'[c] = "put_import" /\ row'[j] = BlankRow("queued_import")
        /\ UNCHANGED queue
    BY <1>1, <1>4 DEF InsertRow, Goto, Base, TypeOK, ControlOK, DataOK
  <2>2. NewRow(j)' /\ CancelOnly(c)' /\ ImportsC(c, j)
    BY <1>4, <2>1 DEF NewRow, BlankRow, CancelOnly, ImportsC
  <2>3. Importing(j) /\ Unknown(j)' /\ Fresh(j)'
    BY <1>2, <1>9, <2>2 DEF Importing, Stage, Unknown
  <2> QED BY <1>1, <1>2, <2>1, <2>2, <2>3, StageFrame DEF QueueKept
<1>5. CASE Put(c, "put_import", "import") /\ j = job[c]
  BY <1>5, PutStage
<1>6. CASE Put(c, "put_transfer", "transfer") /\ j = job[c]
  <2>1. ~Importing(j)
    BY <1>6 DEF Put, Stage, CancelOnly
  <2>2. \A i \in 1..Len(queue') : queue'[i] = <<"import", j>> =>
           \E k \in 1..Len(queue) : queue[k] = <<"import", j>>
    <3>1. queue \in Seq(Action \X Job) /\ <<"transfer", j>> \in Action \X Job
          /\ queue' = Append(queue, <<"transfer", j>>)
      BY <1>6 DEF Base, TypeOK, DataOK, Action, Put
    <3> QED BY <3>1, Appended
  <2>3. ~ImportsC(c, j)'
    BY <1>1, <1>6 DEF Put, ImportsC, Base, TypeOK, ControlOK
  <2>4. ~Importing(j)'
    BY <1>1, <1>2, <2>1, <2>2, <2>3, NoNewImport
  <2> QED BY <2>4 DEF Stage
<1>7. CASE (CommitSelection(c) \/ CommitCancel(c)) /\ j = job[c]
  <2>1. /\ UNCHANGED <<queue, sawAwaiting>> /\ ~ImportsC(c, j)'
        /\ CommitCancel(c) => pc[c] = "cancel_commit" /\ pc'[c] \in {"deliver", "idle"}
    BY <1>1, <1>7 DEF CommitSelection, CommitCancel, ImportsC, Goto, Base, TypeOK, ControlOK
  <2>2. Importing(j) => CommitCancel(c) /\ CancelOnly(c) /\ NewRow(j) /\ Unknown(j)
    BY <1>7 DEF Stage, CommitSelection, CancelOnly
  <2>3. CommitCancel(c) => Committed(j, "cancelled")
    BY <1>7, CommitEffects DEF Base
  <2>4. Importing(j) => NewRow(j)' /\ Unknown(j)' /\ Fresh(j)' /\ CancelOnly(c)'
    <3>1. Importing(j) => NewRow(j)'
      BY <2>2, <2>3 DEF Committed, NewRow, Exists, NoRow
    <3>2. Importing(j) => CancelOnly(c)'
      BY <2>1, <2>2 DEF CancelOnly
    <3> QED BY <1>2, <1>9, <2>2, <3>1, <3>2 DEF Unknown, Stage
  <2> QED BY <1>1, <1>2, <2>1, <2>4, StageFrame DEF QueueKept
<1>8. CASE DeliverCancel(c) /\ j = job[c]
  <2>1. /\ UNCHANGED row /\ job'[c] = NoJob /\ ~ImportsC(c, j)'
        /\ ~sawAwaiting[c] => UNCHANGED queue
        /\ pc[c] = "deliver"
        /\ queue' = queue \/ queue' = Append(queue, <<"cleanup", j>>)
    BY <1>1, <1>8 DEF DeliverCancel, ImportsC, Base, TypeOK, ControlOK
  <2>2. CASE Importing(j)
    <3>1. ~sawAwaiting[c]
      BY <1>8, <2>1, <2>2 DEF Stage, CancelOnly
    <3> QED BY <1>1, <1>2, <1>9, <2>1, <2>2, <3>1, StageFrame DEF QueueKept, NewRow, Unknown, Stage
  <2>3. CASE ~Importing(j)
    <3>1. \A i \in 1..Len(queue') : queue'[i] = <<"import", j>> =>
             \E k \in 1..Len(queue) : queue[k] = <<"import", j>>
      <4>1. queue \in Seq(Action \X Job) /\ <<"cleanup", j>> \in Action \X Job
        BY DEF Base, TypeOK, DataOK, Action
      <4> QED BY <2>1, <4>1, Appended
    <3> QED BY <1>1, <1>2, <2>1, <2>3, <3>1, NoNewImport DEF Stage
  <2> QED BY <2>2, <2>3
<1> QED BY <1>3, <1>4, <1>5, <1>6, <1>7, <1>8 DEF Requests, RequestGoesOn

(* Time stands still for a job in use.  A process that ends or starts      *)
(* knows no import.                                                        *)
LEMMA EnvironmentStage ==
    ASSUME Base, NEW j \in Job, Stage(j), "late_expiry" \notin Allowed,
           (\E k \in Job : TimePasses(k)) \/ OrphanLockExpires \/ Stop
    PROVE  Stage(j)'
<1>1. UNCHANGED <<queue, expiredIds, deletable, sawAwaiting, pc, job, after, folder, late>>
  BY DEF TimePasses, OrphanLockExpires, Stop, calls, sweep, process, baidu
<1>2. Importing(j) => InUse(j)
  BY DEF Importing, InUse, ImportsC, ImportsW, Actor, Coroutine
<1>3. Importing(j) => row'[j] = row[j]
  BY <1>2 DEF TimePasses, OrphanLockExpires, Stop, baidu, Base, TypeOK, DataOK
<1>4. Importing(j)' <=> Importing(j)
  BY <1>1 DEF Importing, ImportsC, ImportsW
<1>5. (Alone(j)' <=> Alone(j)) /\ (Fresh(j)' <=> Fresh(j))
  BY <1>1 DEF Alone, ImportsC, ImportsW, Fresh, Made
<1> QED BY <1>1, <1>3, <1>4, <1>5 DEF Stage, NewRow, Unknown, CancelOnly

(* A mkdir that is executed late belongs to no import that goes on.        *)
LEMMA LateStage ==
    ASSUME TypeOK, NEW j \in Job, Stage(j), NEW k \in Job, LateMkdir(k)
    PROVE  Stage(j)'
<1>1. UNCHANGED <<row, queue, sawAwaiting, expiredIds, deletable, pc, job>>
  BY DEF LateMkdir, calls, sweep
<1>2. Importing(j)' <=> Importing(j)
  BY <1>1 DEF Importing, ImportsC, ImportsW
<1>3. Importing(j) => k # j
  BY DEF Stage, Fresh, LateMkdir
<1>4. k # j => folder'[j] = folder[j] /\ late'[j] = late[j]
  BY DEF LateMkdir, TypeOK, DataOK
<1>5. Importing(j) => Fresh(j)'
  BY <1>1, <1>3, <1>4 DEF Stage, Fresh, Made
<1>6. Alone(j)' <=> Alone(j)
  BY <1>1 DEF Alone, ImportsC, ImportsW
<1> QED BY <1>1, <1>2, <1>5, <1>6 DEF Stage, NewRow, Unknown, CancelOnly

LEMMA RestartStage ==
    ASSUME Base, NEW j \in Job, Stopped \/ Crash \/ Start
    PROVE  Stage(j)'
<1>1. \A a \in Actor : job'[a] = NoJob
  BY DEF Stopped, Crash, ProcessEnds, Start, Base, Down
<1>2. \A i \in 1..Len(queue') : queue'[i][1] = "cleanup"
  <2>1. CASE Stopped \/ Crash
    BY <2>1 DEF Stopped, Crash, ProcessEnds
  <2>2. CASE Start
    BY <2>2, StartEffects DEF Restarted, Base
  <2> QED BY <2>1, <2>2
<1>3. \A i \in 1..Len(queue') : queue'[i] # <<"import", j>>
  BY <1>2
<1>4. ~Importing(j)'
  BY <1>1, <1>3 DEF Importing, ImportsC, ImportsW, Actor, Coroutine
<1> QED BY <1>4 DEF Stage

(* An import, from the request for it to the end of its action, has its    *)
(* job to itself, but for requests to cancel it: its row is new, and no    *)
(* cleanup, transfer or expiration of the job is under way or on the       *)
(* queue.  A page that expires during the import breaks this.              *)
THEOREM ImportIsAlone == "late_expiry" \notin Allowed => (Spec => []Staging)
<1> SUFFICES ASSUME "late_expiry" \notin Allowed PROVE Spec => []Staging
  OBVIOUS
<1>1. Init => Staging
  BY DEF Init, Staging, Stage, Importing, ImportsC, ImportsW, Actor, Coroutine
<1>2. Base /\ Staging /\ [Next]_vars => Staging'
  <2> SUFFICES ASSUME Base, Staging, [Next]_vars, NEW j \in Job PROVE Stage(j)'
    BY DEF Staging
  <2>1. Stage(j)
    BY DEF Staging
  <2>2. ASSUME NEW w \in Worker, WorkerStep(w) PROVE Stage(j)'
    BY <2>1, <2>2, ActionStage, LoopStage DEF WorkerStep
  <2>3. ASSUME NEW a \in Coroutine, CleanupStep(a) \/ Throw(a) PROVE Stage(j)'
    BY <2>1, <2>3, CleanupStage
  <2>4. ASSUME NEW c \in Client, Requests(RequestArrives(c)) \/ Requests(RequestGoesOn(c))
        PROVE  Stage(j)'
    BY <2>1, <2>4, ArrivalStage, ProgressStage
  <2>5. CASE ReaperStep
    BY <2>1, <2>5, ReaperStage
  <2>6. CASE (\E k \in Job : TimePasses(k)) \/ OrphanLockExpires \/ Stop
    BY <2>1, <2>6, EnvironmentStage
  <2>7. CASE Stopped \/ Crash \/ Start
    BY <2>7, RestartStage
  <2>8. CASE UNCHANGED vars
    BY <2>1, <2>8 DEF vars, Stage, Importing, ImportsC, ImportsW, Alone, NewRow, Unknown, Fresh, Made, CancelOnly
  <2>9. ASSUME NEW k \in Job, LateMkdir(k) PROVE Stage(j)'
    BY <2>1, <2>9, LateStage DEF Base
  <2> QED BY <2>2, <2>3, <2>4, <2>5, <2>6, <2>7, <2>8, <2>9 DEF Next
<1> QED BY <1>1, <1>2, BaseInvariant, PTL DEF Spec

-----------------------------------------------------------------------------
(* What a cleanup knows of the folder. *)

(* A coroutine in _cleanup_remote, and the loop that called it. *)
Removing(a, j) == job[a] = j =>
    /\ pc[a] = "c_purge" /\ raised[a] = "none" => folder[j] = "recycled"
    /\ pc[a] = "c_meta" => ~row[j].tempFsId
    /\ pc[a] = "c_mark" /\ row[j].tempFsId => folder[j] = "purged"
Trust(j) ==
    /\ \A a \in Coroutine : Removing(a, j)
    /\ j \in deletable => row[j].cleanupCompleted
    /\ row[j].tempFsId /\ row[j].cleanupCompleted => folder[j] = "purged"
    /\ job[Reaper] = j \/ j \in expiredIds \cup deletable => Exists(j)

(* Where nobody finds an error of the look-up: a folder that is left has a *)
(* row that asks for its cleanup.                                          *)
Track(j) ==
    /\ \A a \in Coroutine : job[a] = j /\ pc[a] = "c_mark" => folder[j] # "live"
    /\ folder[j] = "live" => Exists(j) /\ ~row[j].cleanupCompleted

(* What one step of _cleanup_remote does to its own folder and row. *)
CleanupMove(a, j) ==
    /\ \/ folder'[j] = folder[j]
       \/ pc[a] = "c_remove" /\ folder[j] = "live" /\ folder'[j] = "recycled"
       \/ pc[a] = "c_purge" /\ folder[j] = "recycled" /\ folder'[j] = "purged"
    /\ pc'[a] = "c_meta" => ~row[j].tempFsId
    /\ pc'[a] = "c_purge" /\ raised'[a] = "none" => folder'[j] = "recycled"
    /\ pc'[a] = "c_mark" =>
          \/ pc[a] = "c_meta" /\ (folder[j] # "live" \/ "metadata_fault" \in Allowed)
          \/ pc[a] = "c_purge" /\ raised[a] = "none" /\ (folder[j] = "recycled" => folder'[j] = "purged")
    /\ row'[j] = IF pc[a] = "c_mark" /\ Exists(j)
                 THEN [row[j] EXCEPT !.cleanupCompleted = TRUE] ELSE row[j]
    /\ \/ UNCHANGED deletable
       \/ a = Reaper /\ (row[j].cleanupCompleted \/ pc[a] = "c_mark")

LEMMA CleanupMoves ==
    ASSUME TypeOK, NEW a \in Coroutine, CleanupStep(a), NEW j \in Job, j = job[a]
    PROVE  CleanupMove(a, j)
<1>1. /\ pc \in [Actor -> WorkerLabel \cup ReaperLabel \cup ClientLabel] /\ a \in Actor
      /\ after[a] \in {"t_store", "end", "w_get", "r_next"}
      /\ raised[a] \in {"none", "error", "cancel"} /\ DOMAIN raised = Coroutine
      /\ row \in [Job -> Row] /\ row[j] \in Row /\ folder \in [Job -> {"none", "live", "recycled", "purged"}]
  BY DEF TypeOK, ControlOK, DataOK, Actor
<1>2. ASSUME NEW l, Continue(a, l) PROVE pc'[a] = l /\ UNCHANGED deletable
  BY <1>1, <1>2 DEF Continue, Goto
<1>3. /\ Return(a, FALSE) => pc'[a] = after[a] /\ UNCHANGED deletable
      /\ Return(a, TRUE) => pc'[a] = after[a] /\ (UNCHANGED deletable \/ a = Reaper)
  BY <1>1 DEF Return, Goto, DeletableAfter
<1>4. CASE CleanupGet(a)
  <2>1. UNCHANGED baidu /\ pc[a] = "c_get"
    BY <1>4 DEF CleanupGet
  <2>2. CASE Return(a, FALSE)
    BY <1>1, <1>3, <2>1, <2>2 DEF CleanupMove, baidu
  <2>3. CASE Return(a, TRUE) /\ row[j].cleanupCompleted
    BY <1>1, <1>3, <2>1, <2>3 DEF CleanupMove, baidu
  <2>4. CASE Continue(a, "c_lock") \/ (Continue(a, "c_meta") /\ ~row[j].tempFsId)
    BY <1>1, <1>2, <2>1, <2>4 DEF CleanupMove, baidu
  <2> QED BY <1>4, <2>2, <2>3, <2>4 DEF CleanupGet
<1>5. CASE LookUpFolder(a)
  BY <1>1, <1>2, <1>5 DEF LookUpFolder, CleanupMove, baidu
<1>6. CASE AcquireForCleanup(a)
  <2>1. UNCHANGED baidu /\ pc[a] = "c_lock"
    BY <1>6 DEF AcquireForCleanup
  <2>2. CASE Continue(a, "c_remove")
    BY <1>1, <1>2, <2>1, <2>2 DEF CleanupMove, baidu
  <2>3. CASE Return(a, FALSE)
    BY <1>1, <1>3, <2>1, <2>3 DEF CleanupMove, baidu
  <2> QED BY <1>6, <2>2, <2>3 DEF AcquireForCleanup
<1>7. CASE RemoveFolder(a)
  <2>1. pc'[a] = "c_purge" /\ pc[a] = "c_remove" /\ UNCHANGED <<row, deletable>>
    BY <1>2, <1>7 DEF RemoveFolder
  <2>2. \/ folder[j] = "live" /\ folder'[j] = "recycled"
           /\ (raised'[a] = "none" => folder'[j] = "recycled")
        \/ folder'[j] = folder[j] /\ raised'[a] = "error"
    BY <1>1, <1>7 DEF RemoveFolder, Recycled
  <2> QED BY <2>1, <2>2 DEF CleanupMove
<1>8. CASE PurgeSucceeds(a)
  <2>1. /\ UNCHANGED <<row, raised>> /\ pc[a] = "c_purge"
        /\ folder'[j] = IF folder[j] = "recycled" THEN "purged" ELSE folder[j]
    BY <1>1, <1>8 DEF PurgeSucceeds
  <2>2. CASE raised[a] = "none"
    BY <1>2, <1>8, <2>1, <2>2 DEF PurgeSucceeds, RemoveRaised, CleanupMove
  <2>3. CASE raised[a] = "error"
    <3>1. Return(a, FALSE)
      BY <1>8, <2>3 DEF PurgeSucceeds, RemoveRaised
    <3> QED BY <1>1, <1>3, <2>1, <3>1 DEF CleanupMove
  <2>4. CASE raised[a] = "cancel"
    <3>1. UNCHANGED deletable /\ pc'[a] \in {"h_cancel", "off"}
      BY <1>1, <1>8, <2>4 DEF PurgeSucceeds, RemoveRaised, Propagate, Goto
    <3> QED BY <2>1, <3>1 DEF CleanupMove
  <2> QED BY <1>1, <2>2, <2>3, <2>4
<1>9. CASE PurgeFails(a)
  BY <1>1, <1>3, <1>9 DEF PurgeFails, CleanupMove
<1>10. CASE MarkCompleted(a)
  BY <1>1, <1>3, <1>10 DEF MarkCompleted, Update, CleanupMove
<1> QED BY <1>4, <1>5, <1>6, <1>7, <1>8, <1>9, <1>10 DEF CleanupStep

(* A step that leaves the folder and the record of its cleanup as they     *)
(* are, and begins nothing that relies on them.                            *)
Quiet(a, j) ==
    /\ OthersKeep(a) /\ \A b \in Coroutine \ {a} : raised'[b] = raised[b]
    /\ folder'[j] = folder[j] /\ row'[j].cleanupCompleted = row[j].cleanupCompleted
    /\ row'[j].tempFsId => row[j].tempFsId
    /\ Exists(j) => Exists(j)'
    /\ a \in Coroutine /\ job'[a] = j =>
          pc'[a] \notin {"c_meta", "c_mark"} /\ (pc'[a] = "c_purge" => raised'[a] # "none")
    /\ a = Reaper /\ job'[a] = j => job[a] = j \/ j \in expiredIds
    /\ j \in deletable' => j \in deletable
    /\ j \in expiredIds' => j \in expiredIds \/ Exists(j)

Kept(j) ==
    /\ Trust(j) => Trust(j)'
    /\ Trust(j) /\ Track(j) /\ "metadata_fault" \notin Allowed => Track(j)'

LEMMA QuietKeeps ==
    ASSUME NEW j \in Job, NEW a \in Actor, Quiet(a, j)
    PROVE  Kept(j)
<1>1. \A b \in Coroutine \ {a} : pc'[b] = pc[b] /\ job'[b] = job[b] /\ raised'[b] = raised[b]
  BY DEF Quiet, OthersKeep, Actor
<1>2. ASSUME Trust(j) PROVE Trust(j)'
  <2>1. \A b \in Coroutine : Removing(b, j)'
    BY <1>1, <1>2 DEF Quiet, Trust, Removing
  <2>2. job'[Reaper] = j => Exists(j)
    BY <1>1, <1>2 DEF Quiet, Trust, Coroutine
  <2> QED BY <1>2, <2>1, <2>2 DEF Quiet, Trust
<1>3. ASSUME Track(j) PROVE Track(j)'
  BY <1>1, <1>3 DEF Quiet, Track
<1> QED BY <1>2, <1>3 DEF Kept

(* The two steps of an import that matter to the folder: it is made, and   *)
(* its identifier is stored.                                               *)
LEMMA ActionKeeps ==
    ASSUME Base, NEW j \in Job, Stage(j), NEW w \in Worker, ActionStep(w) \/ CallFails(w)
    PROVE  Kept(j)
<1>1. ActionEffect(w)
  BY ActionEffects DEF Base
<1>2. /\ w \in Actor /\ w \in Coroutine /\ w # Reaper
      /\ UNCHANGED <<job, raised, expiredIds, deletable>> /\ OthersKeep(w)
  BY <1>1 DEF ActionEffect, Actor, Coroutine
<1>3. row'[j].cleanupCompleted = row[j].cleanupCompleted /\ (Exists(j) => Exists(j)')
  BY <1>1 DEF ActionEffect, Rewritten, Exists, NoRow, JobState, ActiveStates, TERMINAL_JOB_STATES
<1>4. CASE j # job[w]
  <2>1. row'[j] = row[j] /\ folder'[j] = folder[j]
    BY <1>1, <1>4 DEF ActionEffect, Rewritten
  <2> QED BY <1>2, <1>3, <1>4, <2>1, QuietKeeps DEF Quiet
<1>5. CASE j = job[w]
  <2>1. /\ pc'[w] \notin {"c_meta", "c_purge", "c_mark"}
        /\ row'[j].tempFsId = row[j].tempFsId \/ pc[w] = "i_store"
        /\ folder'[j] = folder[j] \/ (pc[w] = "i_mkdir" /\ folder'[j] = "live")
    BY <1>5, ActionImport DEF Base
  <2>2. CASE pc[w] \notin {"i_store", "i_mkdir"}
    BY <1>2, <1>3, <1>5, <2>1, <2>2, QuietKeeps DEF Quiet
  <2>3. CASE pc[w] \in {"i_store", "i_mkdir"}
    <3>1. ImportsW(w, j) /\ Importing(j)
      BY <1>5, <2>3 DEF ImportsW, Importing, Import
    <3>2. Alone(j) /\ NewRow(j) /\ Unknown(j)
      BY <3>1 DEF Stage
    <3>3. /\ row[j].state # "absent" /\ Exists(j) /\ ~row[j].cleanupCompleted
      BY <1>2, <1>5, <3>2 DEF Base, Untouched, NewRow, Exists, NoRow
    <3>4. \A b \in Coroutine : job'[b] = j => b = w
      BY <1>2, <3>1, <3>2 DEF Alone
    <3>5. Trust(j)'
      BY <1>2, <1>3, <2>1, <3>2, <3>3, <3>4 DEF Trust, Removing, Unknown, Coroutine
    <3>6. Track(j)'
      BY <1>2, <1>3, <2>1, <3>3, <3>4 DEF Track
    <3> QED BY <3>5, <3>6 DEF Kept
  <2> QED BY <2>2, <2>3
<1> QED BY <1>4, <1>5

(* The steps of a cleanup: the mutation lock keeps any other removal out.  *)
LEMMA CleanupKeeps ==
    ASSUME Base, MutationExclusive, NEW j \in Job, NEW a \in Coroutine, CleanupStep(a)
    PROVE  Kept(j)
<1>1. CleanupEffect(a) /\ a \in Actor
  BY CleanupEffects DEF Base, Actor
<1>2. /\ \A b \in Coroutine \ {a} : pc'[b] = pc[b] /\ job'[b] = job[b] /\ raised'[b] = raised[b]
      /\ job'[a] \in {job[a], NoJob} /\ UNCHANGED expiredIds
      /\ row \in [Job -> Row] /\ row[j] \in Row
  BY <1>1 DEF CleanupEffect, OthersKeep, Actor, Stays, Returns, Leaves, Base, TypeOK, DataOK
<1>3. CASE j # job[a]
  <2>1. row'[j] = row[j] /\ folder'[j] = folder[j] /\ (j \in deletable' => j \in deletable)
    BY <1>1, <1>2, <1>3 DEF CleanupEffect
  <2>2. job'[a] # j
    BY <1>2, <1>3
  <2> QED BY <1>1, <1>2, <2>1, <2>2, QuietKeeps DEF Quiet, CleanupEffect, Exists
<1>4. CASE j = job[a]
  <2>1. CleanupMove(a, j)
    BY <1>4, CleanupMoves DEF Base
  <2>2. /\ row'[j].tempFsId = row[j].tempFsId /\ row'[j].state = row[j].state
        /\ row'[j].cleanupCompleted <=> row[j].cleanupCompleted \/ (pc[a] = "c_mark" /\ Exists(j))
    BY <1>2, <2>1 DEF CleanupMove, Row
  <2>3. Exists(j)' <=> Exists(j)
    BY <2>2 DEF Exists
  <2>4. \A b \in Coroutine \ {a} : pc[a] \in {"c_remove", "c_purge"} => pc[b] # "c_purge"
    BY DEF MutationExclusive, InLock
  <2>5. ASSUME Trust(j) PROVE Trust(j)'
    <3>1. ASSUME NEW b \in Coroutine \ {a} PROVE Removing(b, j)'
      BY <1>2, <2>1, <2>2, <2>4, <2>5 DEF Trust, Removing, CleanupMove
    <3>2. Removing(a, j)'
      BY <1>4, <2>1, <2>2, <2>5 DEF Trust, Removing, CleanupMove
    <3>3. j \in deletable' => row'[j].cleanupCompleted /\ Exists(j)
      <4>1. a = Reaper => Exists(j)
        BY <1>4, <2>5 DEF Trust
      <4> QED BY <2>1, <2>2, <2>5, <4>1 DEF Trust, CleanupMove
    <3>4. row'[j].tempFsId /\ row'[j].cleanupCompleted => folder'[j] = "purged"
      <4>1. CASE row[j].cleanupCompleted
        BY <2>1, <2>2, <2>5, <4>1 DEF Trust, CleanupMove
      <4>2. CASE pc[a] = "c_mark"
        BY <1>4, <2>1, <2>2, <2>5, <4>2 DEF Trust, Removing, CleanupMove
      <4> QED BY <2>2, <4>1, <4>2
    <3>5. job'[Reaper] = j \/ j \in expiredIds' => Exists(j)
      BY <1>2, <1>4, <2>5 DEF Trust, Coroutine
    <3> QED BY <2>3, <3>1, <3>2, <3>3, <3>4, <3>5 DEF Trust
  <2>6. ASSUME Trust(j), Track(j), "metadata_fault" \notin Allowed PROVE Track(j)'
    <3>1. ASSUME NEW b \in Coroutine \ {a}, job'[b] = j, pc'[b] = "c_mark" PROVE folder'[j] # "live"
      BY <1>2, <2>1, <2>6, <3>1 DEF Track, CleanupMove
    <3>2. job'[a] = j /\ pc'[a] = "c_mark" => folder'[j] # "live"
      <4>1. pc[a] = "c_purge" /\ raised[a] = "none" => folder[j] = "recycled"
        BY <1>4, <2>6 DEF Trust, Removing
      <4> QED BY <2>1, <2>6, <4>1 DEF CleanupMove
    <3>3. folder'[j] = "live" => Exists(j) /\ ~row'[j].cleanupCompleted
      <4>1. folder'[j] = "live" => folder[j] = "live"
        BY <2>1 DEF CleanupMove
      <4> QED BY <1>4, <2>2, <2>6, <4>1 DEF Track
    <3> QED BY <2>3, <3>1, <3>2, <3>3 DEF Track
  <2> QED BY <2>5, <2>6 DEF Kept
<1> QED BY <1>3, <1>4

(* A cancellation in the middle of a removal. *)
LEMMA ThrowKeeps ==
    ASSUME Base, NEW j \in Job, NEW a \in Coroutine, Throw(a)
    PROVE  Kept(j)
<1>1. ThrowEffect(a) /\ a \in Actor /\ raised \in [Coroutine -> {"none", "error", "cancel"}]
      /\ folder \in [Job -> {"none", "live", "recycled", "purged"}]
  BY ThrowEffects DEF Base, TypeOK, DataOK, Actor
<1>2. /\ OthersKeep(a) /\ UNCHANGED <<row, job, expiredIds, deletable>>
      /\ \A b \in Coroutine \ {a} : raised'[b] = raised[b]
      /\ folder'[j] = folder[j] \/ (folder[j] = "live" /\ folder'[j] = "recycled")
      /\ pc'[a] \notin {"c_meta", "c_mark"}
      /\ pc'[a] = "c_purge" => raised'[a] = "cancel"
  <2>1. CASE pc[a] = "c_remove" /\ pc'[a] = "c_purge"
    <3>1. raised' = [raised EXCEPT ![a] = "cancel"]
          /\ folder' \in {folder, [folder EXCEPT ![job[a]] = IF @ = "live" THEN "recycled" ELSE @]}
      BY <1>1, <2>1 DEF ThrowEffect, Leaves, Recycled
    <3> QED BY <1>1, <2>1, <3>1 DEF ThrowEffect
  <2>2. CASE ~(pc[a] = "c_remove" /\ pc'[a] = "c_purge")
    BY <1>1, <2>2 DEF ThrowEffect, Leaves
  <2> QED BY <2>1, <2>2
<1>3. CASE folder'[j] = folder[j]
  BY <1>1, <1>2, <1>3, QuietKeeps DEF Quiet, Exists
<1>4. CASE folder[j] = "live" /\ folder'[j] = "recycled"
  <2>1. \A b \in Coroutine \ {a} : pc'[b] = pc[b] /\ job'[b] = job[b] /\ raised'[b] = raised[b]
    BY <1>2 DEF OthersKeep, Actor
  <2>2. Trust(j) => \A b \in Coroutine : Removing(b, j)'
    BY <1>2, <1>4, <2>1 DEF Trust, Removing
  <2>3. Trust(j) => Trust(j)'
    BY <1>2, <1>4, <2>2 DEF Trust, Exists
  <2>4. Track(j)'
    BY <1>4 DEF Track
  <2> QED BY <2>3, <2>4 DEF Kept
<1> QED BY <1>2, <1>3, <1>4

LEMMA LoopKeeps ==
    ASSUME Base, NEW j \in Job, NEW w \in Worker, TakeAction(w) \/ ActionEnds(w)
    PROVE  Kept(j)
<1>1. /\ w \in Actor /\ w # Reaper /\ OthersKeep(w)
      /\ UNCHANGED <<row, folder, raised, expiredIds, deletable>>
  BY DEF TakeAction, ActionEnds, OthersKeep, Goto, baidu, calls, sweep, Base, TypeOK, ControlOK,
     Actor, Coroutine
<1>2. pc'[w] \in {"i_get", "t_get", "c_get", "w_get"}
  <2>1. CASE TakeAction(w)
    <3>1. Head(queue)[1] \in Action
      BY <2>1 DEF TakeAction, Base, TypeOK, DataOK
    <3> QED BY <1>1, <2>1, <3>1 DEF TakeAction, Goto, FirstLabel, Action, Base, TypeOK, ControlOK
  <2>2. CASE ActionEnds(w)
    BY <1>1, <2>2 DEF ActionEnds, Goto, Base, TypeOK, ControlOK
  <2> QED BY <2>1, <2>2
<1> QED BY <1>1, <1>2, QuietKeeps DEF Quiet, Exists

(* The expiration loop deletes the rows whose cleanup is recorded. *)
LEMMA ReaperKeeps ==
    ASSUME Base, NEW j \in Job, ReaperStep
    PROVE  Kept(j)
<1>1. /\ OthersKeep(Reaper) /\ UNCHANGED <<folder, raised>>
      /\ Reaper \in Actor /\ Reaper \in Coroutine
      /\ pc'[Reaper] \in {"r_next", "c_get", "r_sleep"}
  BY DEF ReaperStep, SelectExpired, CleanNext, DeleteRows, OthersKeep, Goto, baidu, Base,
     TypeOK, ControlOK, Actor, Coroutine
<1>2. CASE SelectExpired \/ CleanNext
  <2>1. /\ UNCHANGED row /\ job'[Reaper] \in {job[Reaper]} \cup expiredIds
        /\ deletable' \subseteq deletable /\ expiredIds' \subseteq expiredIds \cup Expired
    BY <1>1, <1>2 DEF SelectExpired, CleanNext, baidu, Base, TypeOK, ControlOK
  <2> QED BY <1>1, <2>1, QuietKeeps DEF Quiet, Expired, Exists
<1>3. CASE DeleteRows
  <2>1. /\ job'[Reaper] = NoJob /\ expiredIds' = {} /\ deletable' = {}
        /\ row'[j] = IF j \in deletable THEN BlankRow("deleted") ELSE row[j]
    BY <1>1, <1>3 DEF DeleteRows, Base, TypeOK, ControlOK
  <2>2. CASE j \notin deletable
    BY <1>1, <2>1, <2>2, QuietKeeps DEF Quiet, Exists
  <2>3. CASE j \in deletable
    <3>1. ~row'[j].tempFsId /\ ~row'[j].cleanupCompleted
      BY <2>1, <2>3 DEF BlankRow
    <3>2. \A b \in Coroutine : pc'[b] \notin {"c_purge", "c_mark"} \/
                                (pc'[b] = pc[b] /\ job'[b] = job[b])
      BY <1>1 DEF OthersKeep, Actor
    <3>3. Trust(j) => \A b \in Coroutine : Removing(b, j)'
      BY <1>1, <3>1, <3>2 DEF Trust, Removing
    <3>4. Trust(j) => Trust(j)'
      BY <2>1, <3>1, <3>3 DEF Trust
    <3>5. Trust(j) /\ Track(j) => folder[j] # "live"
      BY <2>3 DEF Trust, Track
    <3> QED BY <1>1, <3>4, <3>5 DEF Kept, Track
  <2> QED BY <2>2, <2>3
<1> QED BY <1>2, <1>3 DEF ReaperStep

(* A request changes the flags of a row, or inserts one that nobody knows. *)
LEMMA RequestFolder ==
    ASSUME Base, NEW j \in Job, NEW c \in Client,
           Requests(RequestArrives(c)) \/ Requests(RequestGoesOn(c))
    PROVE  Kept(j)
<1>1. RequestKeeps(c) /\ c \in Actor /\ c \notin Coroutine /\ c # Reaper
  BY RequestEffects DEF Base, Actor, Coroutine
<1>2. CASE ~(InsertRow(c) /\ j = job[c])
  <2>1. /\ row'[j].cleanupCompleted = row[j].cleanupCompleted /\ row'[j].tempFsId = row[j].tempFsId
        /\ Exists(j) => Exists(j)'
    <3>1. CASE InsertRow(c)
      BY <1>2, <3>1 DEF InsertRow, Exists, Base, TypeOK, DataOK
    <3>2. CASE CommitSelection(c) \/ CommitCancel(c)
      BY <3>2, CommitEffects DEF Committed, Exists, NoRow, Base
    <3>3. CASE UNCHANGED row
      BY <3>3 DEF Exists
    <3> QED BY <3>1, <3>2, <3>3 DEF Requests, RequestArrives, RequestGoesOn, Create, ReadForSelection,
               ReadForCancel, Put, DeliverCancel
  <2> QED BY <1>1, <2>1, QuietKeeps DEF Quiet, RequestKeeps
<1>3. CASE InsertRow(c) /\ j = job[c]
  <2>1. row[j].state = "absent" /\ row'[j] = BlankRow("queued_import")
    BY <1>3 DEF InsertRow, Base, Inserting, TypeOK, DataOK
  <2>2. /\ folder[j] = "none" /\ j \notin expiredIds \cup deletable
        /\ \A a \in Coroutine : job[a] # j
    BY <2>1 DEF Base, Untouched
  <2>3. /\ folder'[j] = "none" /\ j \notin expiredIds' \cup deletable'
        /\ \A a \in Coroutine : job'[a] # j
        /\ ~row'[j].tempFsId
    BY <1>1, <2>1, <2>2 DEF RequestKeeps, BlankRow
  <2> QED BY <2>3 DEF Kept, Trust, Track, Removing, Coroutine
<1> QED BY <1>2, <1>3

LEMMA EnvironmentKeeps ==
    ASSUME Base, NEW j \in Job, (\E k \in Job : TimePasses(k)) \/ OrphanLockExpires \/ Stop
    PROVE  Kept(j)
<1>1. UNCHANGED <<folder, expiredIds, deletable, pc, job, raised>>
  BY DEF TimePasses, OrphanLockExpires, Stop, baidu, sweep
<1>2. /\ row'[j].cleanupCompleted = row[j].cleanupCompleted /\ row'[j].tempFsId = row[j].tempFsId
      /\ row'[j].state = row[j].state
  <2>1. row \in [Job -> Row] /\ row[j] \in Row
    BY DEF Base, TypeOK, DataOK
  <2> QED BY <2>1 DEF TimePasses, OrphanLockExpires, Stop, baidu, Row
<1> QED BY <1>1, <1>2 DEF Kept, Trust, Track, Removing, Exists

LEMMA RestartKeeps ==
    ASSUME Base, NEW j \in Job, Stopped \/ Crash \/ Start
    PROVE  Kept(j)
<1>1. \A a \in Actor : job'[a] = NoJob
  BY DEF Stopped, Crash, ProcessEnds, Start, Base, Down
<1>2. UNCHANGED folder /\ expiredIds' = {} /\ deletable' = {}
  BY DEF Stopped, Crash, ProcessEnds, Start, Base, Down, baidu, sweep
<1>3. /\ row'[j].cleanupCompleted = row[j].cleanupCompleted /\ row'[j].tempFsId = row[j].tempFsId
      /\ Exists(j) => Exists(j)'
  <2>1. CASE Stopped \/ Crash
    BY <2>1 DEF Stopped, Crash, ProcessEnds, baidu, Exists
  <2>2. CASE Start
    <3>1. row[j] \in Row /\ Restarted
      BY <2>2, StartEffects DEF Base, TypeOK, DataOK
    <3>2. row'[j] = IF row[j].state \in ActiveStates THEN [row[j] EXCEPT !.state = "failed"] ELSE row[j]
      BY <3>1 DEF Restarted
    <3> QED BY <3>1, <3>2 DEF Row, Exists, NoRow
  <2> QED BY <2>1, <2>2
<1> QED BY <1>1, <1>2, <1>3 DEF Kept, Trust, Track, Removing, Actor, Coroutine

(* Every step keeps what the cleanups and the rows know of the folders. *)
LEMMA StepKeeps ==
    ASSUME Base, MutationExclusive, Staging, [Next]_vars, NEW j \in Job,
           \A k \in Job : ~LateMkdir(k)
    PROVE  Kept(j)
<1>1. Stage(j)
  BY DEF Staging
<1>2. ASSUME NEW w \in Worker, WorkerStep(w) PROVE Kept(j)
  BY <1>1, <1>2, ActionKeeps, LoopKeeps DEF WorkerStep
<1>3. ASSUME NEW a \in Coroutine, CleanupStep(a) \/ Throw(a) PROVE Kept(j)
  BY <1>3, CleanupKeeps, ThrowKeeps
<1>4. ASSUME NEW c \in Client, Requests(RequestArrives(c)) \/ Requests(RequestGoesOn(c))
      PROVE  Kept(j)
  BY <1>4, RequestFolder
<1>5. CASE ReaperStep
  BY <1>5, ReaperKeeps
<1>6. CASE (\E k \in Job : TimePasses(k)) \/ OrphanLockExpires \/ Stop
  BY <1>6, EnvironmentKeeps
<1>7. CASE Stopped \/ Crash \/ Start
  BY <1>7, RestartKeeps
<1>8. CASE UNCHANGED vars
  BY <1>8 DEF vars, Kept, Trust, Track, Removing, Exists
<1> QED BY <1>2, <1>3, <1>4, <1>5, <1>6, <1>7, <1>8 DEF Next

-----------------------------------------------------------------------------
(* A mkdir that was given up finds no folder and no imported job. *)

Late(j) == late[j] = "pending" => folder[j] = "none" /\ ~row[j].tempFsId

LEMMA MkdirGivenUp ==
    ASSUME Base, NEW j \in Job, Stage(j), NEW w \in Worker, job[w] = j, pc[w] = "i_mkdir"
    PROVE  folder[j] = "none" /\ ~row[j].tempFsId
<1>1. ImportsW(w, j) /\ Importing(j)
  BY DEF ImportsW, Importing, Import
<1>2. Alone(j) /\ NewRow(j) /\ Fresh(j)
  BY <1>1 DEF Stage
<1>3. row[j].state # "absent"
  BY DEF Base, Untouched, Coroutine
<1>4. \A v \in Worker : job[v] = j => ~Made(v)
  BY <1>1, <1>2 DEF Alone, Made, Coroutine
<1> QED BY <1>2, <1>3, <1>4 DEF NewRow, Fresh

LEMMA ActionLateness ==
    ASSUME Base, NEW j \in Job, Stage(j), Late(j), NEW w \in Worker, ActionStep(w) \/ CallFails(w)
    PROVE  Late(j)'
<1>1. ActionEffect(w)
  BY ActionEffects DEF Base
<1>2. CASE j # job[w]
  BY <1>1, <1>2 DEF ActionEffect, Rewritten, Late
<1>3. CASE j = job[w] /\ late'[j] # late[j]
  BY <1>3, ActionLate, MkdirGivenUp DEF Base, Late
<1>4. CASE j = job[w] /\ late'[j] = late[j] /\ pc[w] \in {"i_store", "i_mkdir"}
  <2>1. Importing(j)
    BY <1>4 DEF Importing, ImportsW, Import
  <2>2. late[j] = "no"
    BY <2>1 DEF Stage, Fresh
  <2> QED BY <1>4, <2>2 DEF Late
<1>5. CASE j = job[w] /\ late'[j] = late[j] /\ pc[w] \notin {"i_store", "i_mkdir"}
  <2>1. row'[j].tempFsId = row[j].tempFsId /\ folder'[j] = folder[j]
    BY <1>5, ActionImport DEF Base
  <2> QED BY <1>5, <2>1 DEF Late
<1> QED BY <1>2, <1>3, <1>4, <1>5

LEMMA CleanupLateness ==
    ASSUME Base, NEW j \in Job, Stage(j), Late(j), NEW a \in Coroutine, CleanupStep(a) \/ Throw(a)
    PROVE  Late(j)'
<1>1. row[j] \in Row /\ row \in [Job -> Row] /\ folder \in [Job -> {"none", "live", "recycled", "purged"}]
  BY DEF Base, TypeOK, DataOK
<1>2. CASE CleanupStep(a)
  <2>1. CleanupEffect(a)
    BY <1>2, CleanupEffects DEF Base
  <2>2. CASE j # job[a]
    BY <1>1, <2>1, <2>2 DEF CleanupEffect, Late
  <2>3. CASE j = job[a]
    <3>1. CleanupMove(a, j)
      BY <1>2, <2>3, CleanupMoves DEF Base
    <3>2. row'[j].tempFsId = row[j].tempFsId
      BY <1>1, <3>1 DEF CleanupMove, Row
    <3> QED BY <2>1, <3>1, <3>2 DEF CleanupMove, CleanupEffect, Late
  <2> QED BY <2>2, <2>3
<1>3. CASE Throw(a)
  <2>1. ThrowEffect(a)
    BY <1>3, ThrowEffects DEF Base
  <2>2. UNCHANGED row /\ (folder[j] = "none" => folder'[j] = "none")
    BY <1>1, <2>1 DEF ThrowEffect, Recycled
  <2>3. late'[j] = late[j] \/ (pc[a] = "i_mkdir" /\ job[a] = j)
    BY <2>1 DEF ThrowEffect, GivesUp
  <2>4. pc[a] = "i_mkdir" => a \in Worker
    BY DEF Base, TypeOK, ControlOK, ReaperOK, ReaperLabel, Cleanup, Coroutine
  <2> QED BY <2>2, <2>3, <2>4, MkdirGivenUp DEF Late
<1> QED BY <1>2, <1>3

LEMMA RequestLateness ==
    ASSUME Base, NEW j \in Job, Late(j), NEW c \in Client,
           Requests(RequestArrives(c)) \/ Requests(RequestGoesOn(c))
    PROVE  Late(j)'
<1>1. RequestKeeps(c)
  BY RequestEffects DEF Base
<1>2. row'[j].tempFsId => row[j].tempFsId
  <2>1. CASE InsertRow(c)
    BY <2>1 DEF InsertRow, BlankRow, Base, TypeOK, DataOK
  <2>2. CASE CommitSelection(c) \/ CommitCancel(c)
    BY <2>2, CommitEffects DEF Committed, Base
  <2> QED BY <2>1, <2>2 DEF Requests, RequestArrives, RequestGoesOn, Create, ReadForSelection,
             ReadForCancel, Put, DeliverCancel
<1> QED BY <1>1, <1>2 DEF RequestKeeps, Late

LEMMA RestartLateness ==
    ASSUME Base, NEW j \in Job, Stage(j), Late(j), Stopped \/ Crash \/ Start
    PROVE  Late(j)'
<1>1. folder' = folder
  BY DEF Stopped, Crash, ProcessEnds, Start, baidu
<1>2. CASE Stopped
  BY <1>1, <1>2 DEF Stopped, ProcessEnds, baidu, Late
<1>3. CASE Crash
  <2>1. UNCHANGED row
    BY <1>3 DEF Crash, ProcessEnds, baidu
  <2>2. late'[j] = late[j] \/ \E w \in Worker : job[w] = j /\ pc[w] = "i_mkdir"
    BY <1>3 DEF Crash
  <2> QED BY <1>1, <2>1, <2>2, MkdirGivenUp DEF Late
<1>4. CASE Start
  <2>1. row[j] \in Row /\ Restarted
    BY <1>4, StartEffects DEF Base, TypeOK, DataOK
  <2>2. row'[j] = IF row[j].state \in ActiveStates THEN [row[j] EXCEPT !.state = "failed"] ELSE row[j]
    BY <2>1 DEF Restarted
  <2>3. row'[j].tempFsId = row[j].tempFsId
    BY <2>1, <2>2 DEF Row
  <2>4. late' = late
    BY <1>4 DEF Start
  <2> QED BY <1>1, <2>3, <2>4 DEF Late
<1> QED BY <1>2, <1>3, <1>4

LEMMA StepLate ==
    ASSUME Base, Staging, [Next]_vars, NEW j \in Job, Late(j)
    PROVE  Late(j)'
<1>1. Stage(j)
  BY DEF Staging
<1>2. row[j] \in Row /\ row \in [Job -> Row]
  BY DEF Base, TypeOK, DataOK
<1>3. ASSUME NEW w \in Worker, WorkerStep(w) PROVE Late(j)'
  BY <1>1, <1>3, ActionLateness DEF WorkerStep, TakeAction, ActionEnds, baidu, process, Late
<1>4. ASSUME NEW a \in Coroutine, CleanupStep(a) \/ Throw(a) PROVE Late(j)'
  BY <1>1, <1>4, CleanupLateness
<1>5. ASSUME NEW c \in Client, Requests(RequestArrives(c)) \/ Requests(RequestGoesOn(c))
      PROVE  Late(j)'
  BY <1>5, RequestLateness
<1>6. CASE ReaperStep
  BY <1>6 DEF ReaperStep, SelectExpired, CleanNext, DeleteRows, BlankRow, baidu, process, Late
<1>7. ASSUME NEW k \in Job, TimePasses(k) PROVE Late(j)'
  <2>1. row'[j].tempFsId = row[j].tempFsId
    BY <1>2, <1>7 DEF TimePasses, Row
  <2> QED BY <1>7, <2>1 DEF TimePasses, process, Late
<1>8. ASSUME NEW k \in Job, LateMkdir(k) PROVE Late(j)'
  BY <1>8 DEF LateMkdir, Late, Base, TypeOK, DataOK
<1>9. CASE OrphanLockExpires \/ Stop \/ UNCHANGED vars
  BY <1>9 DEF OrphanLockExpires, Stop, baidu, vars, Late
<1>10. CASE Stopped \/ Crash \/ Start
  BY <1>1, <1>10, RestartLateness
<1> QED BY <1>3, <1>4, <1>5, <1>6, <1>7, <1>8, <1>9, <1>10 DEF Next

(* When it is executed, no record of a cleanup relies on the folder. *)
LEMMA LateKeeps ==
    ASSUME Base, NEW j \in Job, Trust(j), Late(j), NEW k \in Job, LateMkdir(k)
    PROVE  Trust(j)'
<1>1. UNCHANGED <<row, pc, job, raised, expiredIds, deletable>>
  BY DEF LateMkdir, sweep
<1>2. folder'[j] = folder[j] \/ (folder[j] = "none" /\ ~row[j].tempFsId)
  BY DEF LateMkdir, Late, Base, TypeOK, DataOK
<1>3. \A a \in Coroutine : Removing(a, j)'
  BY <1>1, <1>2 DEF Trust, Removing
<1> QED BY <1>1, <1>2, <1>3 DEF Trust, Exists

LEMMA TrustAtStart == Init => \A j \in Job : Trust(j) /\ Track(j) /\ Late(j)
<1> SUFFICES ASSUME Init, NEW j \in Job PROVE Trust(j) /\ Track(j) /\ Late(j)
  OBVIOUS
<1>1. /\ \A a \in Actor : job[a] # j
      /\ folder[j] = "none" /\ ~row[j].tempFsId /\ expiredIds = {} /\ deletable = {}
      /\ late[j] = "no"
  BY DEF Init, BlankRow
<1> QED BY <1>1 DEF Trust, Track, Removing, Late, Actor, Coroutine

(* cleanup_completed of an imported job tells the truth, whichever of the  *)
(* awaits fails or is cancelled and wherever the process dies: its copy is *)
(* gone from Baidu and from the recycle bin.  For any number of jobs,      *)
(* workers and requests, if no page expires while its job is in use.       *)
THEOREM CleanupTold == "late_expiry" \notin Allowed => (Spec => []CleanupTruthful)
<1> SUFFICES ASSUME "late_expiry" \notin Allowed PROVE Spec => []CleanupTruthful
  OBVIOUS
<1> DEFINE Trusted == \A j \in Job : Trust(j) /\ Late(j)
<1>1. Init => Trusted
  BY TrustAtStart
<1>2. Base /\ MutationExclusive /\ Staging /\ Trusted /\ [Next]_vars => Trusted'
  BY StepKeeps, StepLate, LateKeeps DEF Kept
<1>3. Trusted => CleanupTruthful
  BY DEF Trust, CleanupTruthful
<1>4. Spec => []Staging
  BY ImportIsAlone
<1> QED BY <1>1, <1>2, <1>3, <1>4, BaseInvariant, MutationIsExclusive, PTL DEF Spec

(* Its exception in LiveFolderTracked: the empty folder of such a mkdir. *)
Tracked(j) == Trust(j) /\ Late(j) /\ (late[j] = "executed" \/ Track(j))

LEMMA LateChanges ==
    ASSUME Base, [Next]_vars, NEW j \in Job
    PROVE  late'[j] = late[j] \/ LateMkdir(j) \/ \E w \in Worker : job[w] = j /\ pc[w] = "i_mkdir"
<1>1. ASSUME NEW w \in Worker, WorkerStep(w), late'[j] # late[j] PROVE job[w] = j /\ pc[w] = "i_mkdir"
  BY <1>1, ActionLate DEF WorkerStep, TakeAction, ActionEnds, process, Base
<1>2. ASSUME NEW a \in Coroutine, CleanupStep(a) \/ Throw(a), late'[j] # late[j]
      PROVE  a \in Worker /\ job[a] = j /\ pc[a] = "i_mkdir"
  <2>1. pc[a] = "i_mkdir" /\ job[a] = j
    BY <1>2 DEF CleanupStep, Throw, GivesUp, process
  <2> QED BY <2>1 DEF Base, TypeOK, ControlOK, ReaperOK, ReaperLabel, Cleanup, Coroutine
<1>3. ASSUME NEW c \in Client, Requests(RequestArrives(c)) \/ Requests(RequestGoesOn(c))
      PROVE  UNCHANGED late
  BY <1>3 DEF Requests, process
<1>4. ASSUME NEW k \in Job, LateMkdir(k), k # j PROVE late'[j] = late[j]
  BY <1>4 DEF LateMkdir, Base, TypeOK, DataOK
<1>5. CASE Crash
  BY <1>5 DEF Crash
<1>6. CASE ReaperStep \/ (\E k \in Job : TimePasses(k)) \/ OrphanLockExpires \/ Stop \/ Stopped
           \/ Start \/ UNCHANGED vars
  BY <1>6 DEF ReaperStep, SelectExpired, CleanNext, DeleteRows, TimePasses, OrphanLockExpires, Stop,
     Stopped, Start, process, vars
<1> QED BY <1>1, <1>2, <1>3, <1>4, <1>5, <1>6 DEF Next

LEMMA StepTracks ==
    ASSUME Base, MutationExclusive, Staging, [Next]_vars, "metadata_fault" \notin Allowed,
           NEW j \in Job, Tracked(j)
    PROVE  Tracked(j)'
<1>1. Trust(j)' /\ Late(j)'
  BY StepKeeps, StepLate, LateKeeps DEF Tracked, Kept
<1>2. CASE late[j] = "executed"
  <2>1. ~LateMkdir(j)
    BY <1>2 DEF LateMkdir
  <2>2. ASSUME NEW w \in Worker, job[w] = j, pc[w] = "i_mkdir" PROVE FALSE
    <3>1. Importing(j)
      BY <2>2 DEF Importing, ImportsW, Import
    <3> QED BY <1>2, <3>1 DEF Staging, Stage, Fresh
  <2>3. late'[j] = "executed"
    BY <1>2, <2>1, <2>2, LateChanges
  <2> QED BY <1>1, <2>3 DEF Tracked
<1>3. CASE Track(j) /\ \A k \in Job : ~LateMkdir(k)
  BY <1>1, <1>3, StepKeeps DEF Tracked, Kept
<1>4. ASSUME Track(j), NEW k \in Job, LateMkdir(k) PROVE Tracked(j)'
  <2>1. CASE k = j
    BY <1>1, <1>4, <2>1 DEF LateMkdir, Tracked, Base, TypeOK, DataOK
  <2>2. CASE k # j
    <3>1. folder'[j] = folder[j] /\ UNCHANGED <<row, pc, job>>
      BY <1>4, <2>2 DEF LateMkdir, Base, TypeOK, DataOK
    <3> QED BY <1>1, <1>4, <3>1 DEF Tracked, Track, Exists
  <2> QED BY <2>1, <2>2
<1> QED BY <1>2, <1>3, <1>4 DEF Tracked

(* A folder at Baidu has a row that asks for its removal, so that the      *)
(* expiration loop comes back to it, or it is the empty one of a mkdir     *)
(* that was given up and executed late: for any number of jobs, workers    *)
(* and requests, if no page expires while its job is in use and no error   *)
(* of the look-up is taken for a folder that does not exist.               *)
THEOREM FoldersTracked ==
    "late_expiry" \notin Allowed /\ "metadata_fault" \notin Allowed => (Spec => []LiveFolderTracked)
<1> SUFFICES ASSUME "late_expiry" \notin Allowed, "metadata_fault" \notin Allowed
             PROVE  Spec => []LiveFolderTracked
  OBVIOUS
<1> DEFINE AllTracked == \A j \in Job : Tracked(j)
<1>1. Init => AllTracked
  BY TrustAtStart DEF Tracked
<1>2. Base /\ MutationExclusive /\ Staging /\ AllTracked /\ [Next]_vars => AllTracked'
  BY StepTracks
<1>3. AllTracked => LiveFolderTracked
  BY DEF Tracked, Track, LiveFolderTracked
<1>4. Spec => []Staging
  BY ImportIsAlone
<1> QED BY <1>1, <1>2, <1>3, <1>4, BaseInvariant, MutationIsExclusive, PTL DEF Spec
=============================================================================
