-------------------------- MODULE ImportProperties --------------------------
(***************************************************************************)
(* What the imports of shares promise about the account and the items      *)
(* that are offered for selection.                                         *)
(***************************************************************************)
EXTENDS ShareImport

ImportLabel == {"idle", "lock", "check", "mkdir", "session", "transfer", "relist",
                "check2", "scan", "store", "end"}
CleanupLabel == {"c_lookup", "c_lock", "c_remove", "c_purge", "c_mark"}
InLock == {"check", "mkdir", "session", "transfer", "relist", "c_remove", "c_purge"}

(* The types of an import; it holds the mutation lock exactly at the       *)
(* awaits inside its two sections, and retries at most MaxRetries times.   *)
TypeOK ==
    /\ folder \in [Job -> {"none", "live", "recycled", "purged"}]
    /\ content \in [Job -> BOOLEAN] /\ late \in [Job -> SUBSET {"mkdir", "transfer"}]
    /\ pc \in [Job -> ImportLabel \cup CleanupLabel]
    /\ \A j \in Job : pc[j] \in InLock <=> lock = j
    /\ attempt \in [Job -> 0..MaxRetries]
    /\ error \in [Job -> Errors \cup {"none", "cancel", "lookup"}]
    /\ handling \in [Job -> BOOLEAN]
    /\ pending \in [Job -> Seq(Directory)] /\ found \in [Job -> Seq(Entry)]
    /\ cancelRequested \in [Job -> BOOLEAN] /\ cleaned \in [Job -> BOOLEAN]
    /\ outcome \in [Job -> {"none", "offered", "failed", "cancelled"}]

Offered == {j \in Job : outcome[j] = "offered"}

(* A job that is offered for selection offers the whole share: its content *)
(* is at Baidu and every entry of it was listed once, though answers were  *)
(* lost, the transfer was tried again, or the folder is scanned several    *)
(* directories at a time (jobs.py 277-301, 321-343; client.py 104-117).    *)
ImportedWhole == \A j \in Offered :
    /\ content[j] /\ folder[j] = "live"
    /\ Len(found[j]) = Cardinality(Entry) /\ ToSet(found[j]) = Entry

(* However the quota checks, imports and removals of several jobs          *)
(* interleave, the shares that are offered leave the reserve free          *)
(* (jobs.py 268-271, 298-300).                                             *)
ReserveKept == Offered # {} => Bytes(Offered) + Reserve <= Capacity

(* A cleanup that is recorded as done left no content of the share in the  *)
(* account, even if Baidu executes a transfer after the import has given   *)
(* it up, or the removal fails or is cancelled halfway.  The exception is  *)
(* a failed look-up, which the cleanup takes for a folder that is not      *)
(* there and records as done (jobs.py 510-530).                            *)
NothingLeftBehind == \A j \in Job :
    cleaned[j] /\ error[j] # "lookup" => ~(content[j] /\ folder[j] = "live")

(* Every call has a timeout, and asyncio.Lock is FIFO.                     *)
Fairness == \A j \in Job : SF_vars(ImportStep(j)) /\ SF_vars(CleanupStep(j))
FairSpec == Spec /\ Fairness

(* An import that has begun ends: its items are offered, or its cleanup    *)
(* has been tried, however often calls fail.                               *)
ImportEnds == \A j \in Job : pc[j] # "idle" ~> pc[j] = "end"
=============================================================================
