------------------------ MODULE SelectionProperties ------------------------
(***************************************************************************)
(* What a selection promises about the row of the job and about the file   *)
(* that is published for it.                                               *)
(***************************************************************************)
EXTENDS ItemSelection

Index == 1..Len(files)

(* The types of the row, the requests and the transfer; no more links are  *)
(* resolved at a time than the semaphore has permits.                      *)
TypeOK ==
    /\ state \in {"awaiting_selection", "queued_transfer", "transferring",
                  "completed", "failed"}
    /\ output \in Name \cup {"none"} /\ total \in Nat /\ selected \subseteq Item
    /\ queued \in 0..Cardinality(Client)
    /\ pc \in [Client -> {"idle", "items", "commit", "put"}]
    /\ \A c \in Client : /\ chosen[c] \subseteq Item /\ loaded[c].selected \subseteq Item
                         /\ loaded[c].output \in Name \cup {"none"}
                         /\ loaded[c].total \in Nat
    /\ worker \in {"idle", "locating", "streaming"} /\ files \in Seq(FilesOf(Item))
    /\ zipped \in BOOLEAN /\ name \in Name \cup {"none"}
    /\ waiting \in Seq(Index) /\ running \subseteq Index
    /\ semaphore \in Nat
    /\ worker = "locating" => semaphore + Cardinality(running) <= Permits
    /\ links \in [Index -> Item \cup {NoItem}] /\ Len(archive) <= Len(files)

(* The row describes one selection: the items below a chosen directory are *)
(* selected with it, total_bytes is the size of the selected files, and    *)
(* the name of anything but a single file ends in ".zip" (jobs.py 169-196, *)
(* as test_jobs.py 199-205 has it).                                        *)
SelectionConsistent == state # "awaiting_selection" =>
    /\ FilesOf(selected) # {} /\ total = Bytes(selected)
    /\ output \in {OutputOf(selected, requested) : requested \in Name}
    /\ \A d \in selected \cap Directory, item \in Item : Under(item, d) => item \in selected

(* What is published is what was selected: each selected file once, with   *)
(* the content of its own links though these arrive in any order, as it is *)
(* when it is a single file and else in a ZIP under a name that says so.   *)
(* The name is chosen by select_items and the form by _transfer_job, each  *)
(* from the items it reads.  A single file may have a name in ".zip" too   *)
(* (jobs.py 182-191, 350-376, 411-430; client.py 169-187).                 *)
PublishedAsSelected ==
    published # NotPublished /\ state = "completed" =>
        /\ ToSet(published.entries) = {[entry |-> f, content |-> f] : f \in FilesOf(selected)}
        /\ Len(published.entries) = Cardinality(FilesOf(selected))
        /\ published.zipped <=> ~SingleFile(selected)
        /\ published.zipped => published.name = "zip"

(* Each link has a timeout; the event loop runs what is ready.  Requests,  *)
(* and failures, are not obliged to happen.                                *)
FairSpec == Spec /\ WF_vars(TransferStep)

(* A transfer that is queued ends, however few links are resolved at a     *)
(* time.                                                                   *)
TransferEnds == queued > 0 ~> state \in {"completed", "failed"}
=============================================================================
