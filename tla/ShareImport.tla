---------------------------- MODULE ShareImport ----------------------------
(***************************************************************************)
(* The import of shares into the one Baidu account: _import_job with its   *)
(* retries and its cleanup (services/jobs.py), down to the calls of        *)
(* BaiduPCSClient (baidu_pcs_client/client.py) and what Baidu does with    *)
(* them.  JobService treats an import as one call; here several imports    *)
(* share the account's space and its mutation lock, a call may fail before *)
(* it is executed or after, and a call nobody waits for any more may still *)
(* be executed.                                                            *)
(*                                                                         *)
(* Taken from Baidu: a transfer puts the whole share into the folder or    *)
(* nothing, and is refused when the folder is not there, holds it already, *)
(* or the space is used up.  Left out: which fields the session's pages    *)
(* carry, messages, and errors of the database.                            *)
(***************************************************************************)
EXTENDS Naturals, Sequences, FiniteSets, SequencesExt, Subsequence

CONSTANTS
    Job, NoJob,
    Root, Entry,    \* the share's own folder, and what is below it
    Listing,        \* the entries of each directory, in the order Baidu lists them
    Size,           \* bytes of the share of each job
    Capacity, Reserve,  \* the account's bytes; settings.baidu_reserve_gib
    MaxRetries,     \* len(_IMPORT_RETRY_DELAYS)
    ScanWidth       \* list_tree's concurrency

Directory == DOMAIN Listing

ASSUME JobAssumption == IsFiniteSet(Job) /\ NoJob \notin Job
ASSUME TreeAssumption ==
    /\ IsFiniteSet(Entry) /\ Root \in Directory /\ Root \notin Entry
    /\ Directory \subseteq Entry \cup {Root} /\ Listing \in [Directory -> Seq(Entry)]
(* A folder lists its entries once, and every entry is below the root. *)
ASSUME ListingAssumption ==
    /\ \A d, e \in Directory : \A i \in DOMAIN Listing[d], k \in DOMAIN Listing[e] :
          Listing[d][i] = Listing[e][k] => d = e /\ i = k
    /\ \A S \in SUBSET (Entry \cup {Root}) :
          Root \in S /\ (\A d \in S \cap Directory : ToSet(Listing[d]) \subseteq S) => Entry \subseteq S
ASSUME SizeAssumption ==
    /\ Size \in [Job -> Nat] /\ Capacity \in Nat /\ Reserve \in Nat
    /\ MaxRetries \in Nat /\ ScanWidth \in Nat

VARIABLES
    folder, content,   \* /ProxyJobs/<id> at Baidu, and whether the share is in it
    late,              \* the calls on it that nobody waits for, still to be executed
    lock,              \* _baidu_mutation_lock
    pc,                \* the await each import is about to finish
    attempt, error,    \* of _import_share_with_retries; what the cleanup's calls raised
    pending, found,    \* list_tree's directories to scan and its result
    handling,          \* the action has ended, the worker's handler cleans up
    cancelRequested, cleaned, outcome   \* of the job's row

remote == <<folder, content, late>>
session == <<attempt, error>>
scan == <<pending, found>>
vars == <<remote, lock, pc, session, scan, handling, cancelRequested, cleaned, outcome>>

Goto(j, label) == pc' = [pc EXCEPT ![j] = label]
Unlock(j) == lock' = IF lock = j THEN NoJob ELSE lock

-----------------------------------------------------------------------------
(* The account *)

Used == {j \in Job : content[j] /\ folder[j] \in {"live", "recycled"}}
Bytes(jobs) == SumFunctionOnSet(Size, jobs)
Free == IF Bytes(Used) <= Capacity THEN Capacity - Bytes(Used) ELSE 0

Accepts(j) == folder[j] = "live" /\ ~content[j] /\ Size[j] <= Free
Transferred(j) == content' = [content EXCEPT ![j] = @ \/ Accepts(j)] /\ UNCHANGED folder
Created(j) == folder' = [folder EXCEPT ![j] = "live"] /\ UNCHANGED content

(* A call that was given up reaches Baidu after all. *)
LateCall(j) ==
    /\ late[j] # {}
    /\ \/ "mkdir" \in late[j] /\ Created(j)
       \/ "transfer" \in late[j] /\ Transferred(j)
       \/ UNCHANGED <<folder, content>>
    /\ late' = [late EXCEPT ![j] = {}]
    /\ UNCHANGED <<lock, pc, session, scan, handling, cancelRequested, cleaned, outcome>>

(* permanently_delete finds the folder in the recycle bin, if it is there. *)
Purged(j) ==
    /\ folder' = [folder EXCEPT ![j] = IF @ = "recycled" THEN "purged" ELSE @]
    /\ content' = [content EXCEPT ![j] = @ /\ folder[j] # "recycled"]

GivesUpCall(j) == late' = [late EXCEPT ![j] = @ \cup ({pc[j]} \cap {"mkdir", "transfer"})]

-----------------------------------------------------------------------------
(* Failure, cancellation *)

(* A coroutine that has ended has no local variables left. *)
Locals(j, directories, entries) ==
    /\ attempt' = [attempt EXCEPT ![j] = 0] /\ error' = [error EXCEPT ![j] = "none"]
    /\ pending' = [pending EXCEPT ![j] = directories]
    /\ found' = [found EXCEPT ![j] = entries]

(* The handlers of _worker: _fail_job or _set_cancelled, then the cleanup. *)
Leave(j, end) ==
    /\ Goto(j, "c_lookup") /\ Unlock(j) /\ GivesUpCall(j) /\ Locals(j, <<>>, <<>>)
    /\ handling' = [handling EXCEPT ![j] = TRUE]
    /\ outcome' = [outcome EXCEPT ![j] = end]

Fail(j) == Leave(j, "failed") /\ UNCHANGED <<folder, content>>

Quit(j) ==
    /\ outcome' = [outcome EXCEPT ![j] = "cancelled"] /\ Unlock(j)
    /\ UNCHANGED <<remote, session, scan, handling>>

Proceed(j, label) ==
    Goto(j, label) /\ UNCHANGED <<remote, lock, session, scan, handling, outcome>>

(* cancel commits, and then cancels the task if it still runs. *)
RequestCancel(j) ==
    /\ pc[j] # "idle" /\ outcome[j] = "none" /\ ~cancelRequested[j]
    /\ cancelRequested' = [cancelRequested EXCEPT ![j] = TRUE]
    /\ UNCHANGED <<remote, lock, pc, session, scan, handling, cleaned, outcome>>

DeliverCancel(j) ==
    /\ cancelRequested[j] /\ pc[j] # "end" /\ ~handling[j]
    /\ UNCHANGED <<cancelRequested, cleaned>>
    /\ \/ /\ pc[j] # "c_remove" /\ Leave(j, "cancelled")
          /\ UNCHANGED <<folder, content>> \/ (pc[j] = "c_purge" /\ Purged(j))
       \/ /\ pc[j] = "c_remove" /\ Goto(j, "c_purge")
          /\ error' = [error EXCEPT ![j] = "cancel"]
          /\ folder' \in {folder, [folder EXCEPT ![j] = "recycled"]}
          /\ UNCHANGED <<content, late, lock, attempt, scan, handling, outcome>>

-----------------------------------------------------------------------------
(* _import_job *)

mutant_ReserveLeft(j) == Free + Size[j] >= Reserve
(* With the share in the account, unlike the first check. *)
ReserveLeft(j) == Free >= Reserve

CheckQuota(j) ==
    /\ pc[j] = "idle"
    /\ \/ Free > Reserve /\ Proceed(j, "lock")
       \/ Fail(j)

Acquire(j, from, label) ==
    /\ pc[j] = from /\ lock = NoJob /\ lock' = j /\ Goto(j, label)
    /\ UNCHANGED <<remote, session, scan, handling, outcome>>

CheckCancelled(j) ==
    /\ pc[j] \in {"check", "check2"}
    /\ IF cancelRequested[j]
       THEN Goto(j, IF pc[j] = "check" THEN "end" ELSE "c_lookup") /\ Quit(j)
       ELSE Proceed(j, IF pc[j] = "check" THEN "mkdir" ELSE "scan")

(* A call is executed and answered, or it is given up and may come late. *)
Mkdir(j) ==
    /\ pc[j] = "mkdir"
    /\ \/ /\ Created(j) /\ Goto(j, "session")
          /\ UNCHANGED <<late, lock, session, scan, handling, outcome>>
       \/ Fail(j)

-----------------------------------------------------------------------------
(* _import_share_with_retries and import_share *)

Raised(j, e) ==
    /\ error' = [error EXCEPT ![j] = e] /\ Goto(j, "relist")
    /\ UNCHANGED <<folder, content, lock, attempt, scan, handling, outcome>>

Errors == {"temporary", "final"}

(* The share's page, its code and its list come before the transfer.       *)
OpenSession(j) ==
    /\ pc[j] = "session"
    /\ \/ Proceed(j, "transfer")
       \/ \E e \in Errors : Raised(j, e) /\ UNCHANGED late

Imported(j) ==
    /\ Goto(j, "check2") /\ Unlock(j) /\ Locals(j, <<Root>>, <<>>)
    /\ UNCHANGED <<late, handling, outcome>>

Transfer(j) ==
    /\ pc[j] = "transfer"
    /\ \/ Accepts(j) /\ Transferred(j) /\ Imported(j)
       \/ \E e \in Errors : Raised(j, e) /\ GivesUpCall(j)

mutant_AttemptsLeft(j) == attempt[j] <= MaxRetries
AttemptsLeft(j) == attempt[j] < MaxRetries

mutant_NextAttempt(j) == attempt[j]
NextAttempt(j) == attempt[j] + 1

(* list_directory; its own failure counts as an empty folder. *)
Relist(j) ==
    /\ pc[j] = "relist"
    /\ \/ content[j] /\ folder[j] = "live" /\ Imported(j) /\ UNCHANGED <<folder, content>>
       \/ /\ error[j] = "temporary" /\ AttemptsLeft(j)
          /\ attempt' = [attempt EXCEPT ![j] = NextAttempt(j)] /\ Goto(j, "session")
          /\ UNCHANGED <<remote, lock, error, scan, handling, outcome>>
       \/ ~(error[j] = "temporary" /\ AttemptsLeft(j)) /\ Fail(j)

-----------------------------------------------------------------------------
(* list_tree, the second quota check, the items *)

Width(j) == IF ScanWidth > Len(pending[j]) THEN Len(pending[j])
            ELSE IF ScanWidth = 0 THEN 1 ELSE ScanWidth

(* batch = [pending.pop() for _ in range(batch_size)] *)
Batch(j) == [i \in 1..Width(j) |-> pending[j][Len(pending[j]) - i + 1]]
Children(j) == FlattenSeq([i \in 1..Width(j) |-> Listing[Batch(j)[i]]])

mutant_Remaining(j) == Filtered(Children(j), Directory)
Remaining(j) ==
    SubSeq(pending[j], 1, Len(pending[j]) - Width(j)) \o Filtered(Children(j), Directory)

ScanBatch(j) ==
    /\ pc[j] = "scan" /\ pending[j] # <<>>
    /\ \/ /\ folder[j] = "live" /\ content[j]
          /\ found' = [found EXCEPT ![j] = @ \o Children(j)]
          /\ pending' = [pending EXCEPT ![j] = Remaining(j)]
          /\ UNCHANGED <<remote, lock, pc, session, handling, outcome>>
       \/ Fail(j)

CheckQuotaAgain(j) ==
    /\ pc[j] = "scan" /\ pending[j] = <<>>
    /\ \/ found[j] # <<>> /\ ReserveLeft(j) /\ Proceed(j, "store")
       \/ Fail(j)

StoreItems(j) ==
    /\ pc[j] = "store" /\ Goto(j, "end")
    /\ outcome' = [outcome EXCEPT ![j] = "offered"]
    /\ UNCHANGED <<remote, lock, session, scan, handling>>

ImportStep(j) ==
    /\ UNCHANGED <<cancelRequested, cleaned>>
    /\ \/ CheckQuota(j) \/ Acquire(j, "lock", "check") \/ CheckCancelled(j)
       \/ Mkdir(j) \/ OpenSession(j) \/ Transfer(j) \/ Relist(j)
       \/ ScanBatch(j) \/ CheckQuotaAgain(j) \/ StoreItems(j)

-----------------------------------------------------------------------------
(* _cleanup_remote, in the action or in the worker's handler *)

(* Any BaiduError of metadata_fs_id is taken for a folder that is not      *)
(* there.                                                                  *)
LookUp(j) ==
    /\ pc[j] = "c_lookup"
    /\ \/ Proceed(j, IF folder[j] = "live" THEN "c_lock" ELSE "c_mark")
       \/ /\ Goto(j, "c_mark") /\ error' = [error EXCEPT ![j] = "lookup"]
          /\ UNCHANGED <<remote, lock, attempt, scan, handling, outcome>>

(* Its error, or answer lost, does not keep permanently_delete from being  *)
(* called: the finally clause.                                             *)
RemoveFolder(j) ==
    /\ pc[j] = "c_remove" /\ Goto(j, "c_purge")
    /\ \E e \in {"none", "final"}, f \in {"live", "recycled"} :
          /\ e = "none" => f = "recycled"
          /\ folder' = [folder EXCEPT ![j] = f] /\ error' = [error EXCEPT ![j] = e]
    /\ UNCHANGED <<content, late, lock, attempt, scan, handling, outcome>>

mutant_RemoveRaised(j) == "none"
RemoveRaised(j) == error[j]

Purge(j) ==
    /\ pc[j] = "c_purge" /\ Unlock(j)
    /\ \/ /\ Purged(j)
          /\ Goto(j, [none |-> "c_mark", final |-> "end", cancel |-> "c_lookup"][RemoveRaised(j)])
          /\ handling' = [handling EXCEPT ![j] = @ \/ RemoveRaised(j) = "cancel"]
       \/ /\ Purged(j) \/ UNCHANGED <<folder, content>>
          /\ Goto(j, "end") /\ UNCHANGED handling
    /\ UNCHANGED <<late, session, scan, outcome>>

MarkCompleted(j) ==
    /\ pc[j] = "c_mark" /\ Goto(j, "end") /\ cleaned' = [cleaned EXCEPT ![j] = TRUE]
    /\ UNCHANGED <<remote, lock, session, scan, handling, outcome>>

CleanupStep(j) ==
    /\ UNCHANGED cancelRequested
    /\ \/ MarkCompleted(j)
       \/ /\ UNCHANGED cleaned
          /\ LookUp(j) \/ Acquire(j, "c_lock", "c_remove") \/ RemoveFolder(j) \/ Purge(j)

-----------------------------------------------------------------------------
Init ==
    /\ folder = [j \in Job |-> "none"] /\ content = [j \in Job |-> FALSE]
    /\ late = [j \in Job |-> {}] /\ lock = NoJob /\ pc = [j \in Job |-> "idle"]
    /\ attempt = [j \in Job |-> 0] /\ error = [j \in Job |-> "none"]
    /\ pending = [j \in Job |-> <<>>] /\ found = [j \in Job |-> <<>>]
    /\ handling = [j \in Job |-> FALSE] /\ cancelRequested = [j \in Job |-> FALSE]
    /\ cleaned = [j \in Job |-> FALSE] /\ outcome = [j \in Job |-> "none"]

Next == \E j \in Job :
    \/ ImportStep(j) \/ CleanupStep(j)
    \/ RequestCancel(j) \/ DeliverCancel(j) \/ LateCall(j)

Spec == Init /\ [][Next]_vars
=============================================================================
