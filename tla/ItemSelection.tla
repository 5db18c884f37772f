--------------------------- MODULE ItemSelection ---------------------------
(***************************************************************************)
(* What a job transfers: select_items writes the chosen items, the name    *)
(* and the size of the output (services/jobs.py), and _transfer_job, later *)
(* and in another task, resolves the links of the selected files, several  *)
(* at a time (BaiduPCSClient.locate_many), and streams one file or a ZIP   *)
(* of them (services/streams.py).                                          *)
(*                                                                         *)
(* A session of the ORM writes the attributes that differ from what it     *)
(* loaded, and nothing else, when it commits; it holds no lock before.     *)
(* Names are reduced to whether they end in ".zip".  Progress and          *)
(* cancellation are left out; JobService has the life of the job.          *)
(***************************************************************************)
EXTENDS Naturals, Sequences, FiniteSets, SequencesExt, Subsequence

CONSTANTS
    Item,         \* the items of the job, as stored by the import
    ByPath,       \* Job.items: their sequence in the order of relative_path
    Path,         \* relative_path of each, as a sequence of names
    Directory,    \* the items that are directories
    Size,         \* size_bytes of each
    Client,       \* concurrent requests
    Connections,  \* locate_many's concurrency
    NoItem

ASSUME ItemAssumption ==
    /\ IsFiniteSet(Item) /\ NoItem \notin Item /\ Directory \subseteq Item
    /\ ByPath \in Seq(Item) /\ ToSet(ByPath) = Item /\ Len(ByPath) = Cardinality(Item)
    /\ Path \in [Item -> Seq(STRING)] /\ Size \in [Item -> Nat]
ASSUME ConnectionsAssumption == Connections \in Nat
ASSUME ClientAssumption == IsFiniteSet(Client)

VARIABLES
    state, output, total,  \* of the job's row: its state, output_name, total_bytes
    selected,              \* JobItem.selected
    queued,                \* transfers of the job in the queue
    pc, loaded, chosen,    \* of each request: what its session loaded and will commit
    worker, files, zipped, name,  \* _transfer_job's files, its form, the name it read
    waiting, running, semaphore, links,  \* locate_many: not started, started, answers
    archive, published     \* the entries streamed so far, and the finished upload

row == <<state, output, total, selected>>
requests == <<pc, loaded, chosen>>
locating == <<waiting, running, semaphore, links>>
transfer == <<worker, files, zipped, name, archive, published>>
vars == <<row, queued, requests, locating, transfer>>

-----------------------------------------------------------------------------
(* The choice *)

(* PurePosixPath.is_relative_to *)
Under(item, directory) == IsPrefix(Path[directory], Path[item])

(* What is below a chosen directory is forgotten. *)
mutant_Chosen(ids, all) == {item \in Item : all \/ item \in ids}

Chosen(ids, all) ==
    {item \in Item : \/ all \/ item \in ids
                     \/ \E d \in ids \cap Directory : Under(item, d)}

FilesOf(items) == items \ Directory
Bytes(items) == SumFunctionOnSet(Size, FilesOf(items))

SingleFile(items) == Cardinality(FilesOf(items)) = 1 /\ items \subseteq FilesOf(items)

(* The name asked for, or that of the single file, ends in ".zip" or not;  *)
(* it gets ".zip" unless a single file is selected, and never loses it.    *)
Name == {"plain", "zip"}
OutputOf(items, requested) == IF SingleFile(items) THEN requested ELSE "zip"

-----------------------------------------------------------------------------
(* select_items *)

Goto(c, label) == pc' = [pc EXCEPT ![c] = label]

LoadJob(c) ==
    /\ pc[c] = "idle" /\ state = "awaiting_selection"
    /\ loaded' = [loaded EXCEPT ![c].output = output, ![c].total = total]
    /\ Goto(c, "items") /\ UNCHANGED <<row, queued, chosen, locating, transfer>>

(* selectinload, and the computation; a choice without a file is refused. *)
LoadItems(c, ids, all) ==
    /\ pc[c] = "items"
    /\ IF FilesOf(Chosen(ids, all)) = {}
       THEN Goto(c, "idle") /\ UNCHANGED <<loaded, chosen>>
       ELSE /\ Goto(c, "commit") /\ chosen' = [chosen EXCEPT ![c] = Chosen(ids, all)]
            /\ loaded' = [loaded EXCEPT ![c].selected = selected]
    /\ UNCHANGED <<row, queued, locating, transfer>>

Written(new, old, current) == IF new # old THEN new ELSE current

Commit(c) ==
    /\ pc[c] = "commit" /\ Goto(c, "put") /\ state' = "queued_transfer"
    /\ selected' = {item \in Item :
           Written(item \in chosen[c], item \in loaded[c].selected, item \in selected)}
    /\ \E requested \in Name :
          output' = Written(OutputOf(chosen[c], requested), loaded[c].output, output)
    /\ total' = Written(Bytes(chosen[c]), loaded[c].total, total)
    /\ UNCHANGED <<queued, loaded, chosen, locating, transfer>>

Put(c) ==
    /\ pc[c] = "put" /\ Goto(c, "idle") /\ queued' = queued + 1
    /\ UNCHANGED <<row, loaded, chosen, locating, transfer>>

-----------------------------------------------------------------------------
(* _transfer_job *)

AsZip(items) == Cardinality(FilesOf(items)) > 1 \/ items \cap Directory # {}

SelectedFiles == Filtered(ByPath, FilesOf(selected))

Permits == IF Connections = 0 THEN 1 ELSE Connections

Take ==
    /\ worker = "idle" /\ queued > 0 /\ queued' = queued - 1
    /\ files' = SelectedFiles /\ zipped' = AsZip(selected) /\ name' = output
    /\ state' = "transferring" /\ worker' = "locating"
    /\ waiting' = [i \in 1..Len(SelectedFiles) |-> i] /\ running' = {}
    /\ semaphore' = Permits
    /\ links' = [i \in 1..Len(SelectedFiles) |-> NoItem] /\ archive' = <<>>
    /\ UNCHANGED <<output, total, selected, requests, published>>

(* All links at once. *)
mutant_Free == TRUE
Free == semaphore > 0

(* asyncio.Semaphore: its waiters are served in the order they came. *)
StartLocate ==
    /\ worker = "locating" /\ waiting # <<>> /\ Free /\ semaphore' = semaphore - 1
    /\ running' = running \cup {Head(waiting)} /\ waiting' = Tail(waiting)
    /\ UNCHANGED <<row, queued, requests, links, transfer>>

(* The permit is not given back. *)
mutant_Released == semaphore
Released == semaphore + 1

(* The answers are kept in the order they arrive. *)
mutant_AnswerPlace(i) == CHOOSE k \in DOMAIN links :
    links[k] = NoItem /\ \A l \in DOMAIN links : links[l] = NoItem => k <= l
(* asyncio.gather keeps the order of its arguments. *)
AnswerPlace(i) == i

EndLocate(i) ==
    /\ worker = "locating" /\ i \in running
    /\ running' = running \ {i} /\ semaphore' = Released
    /\ links' = [links EXCEPT ![AnswerPlace(i)] = files[i]]
    /\ UNCHANGED <<row, queued, requests, waiting, transfer>>

(* The first error is raised; the answers of the others are not awaited.   *)
(* _fail_job ends the job; so does an upload that fails.                   *)
TransferFails ==
    /\ worker \in {"locating", "streaming"} /\ worker' = "idle" /\ state' = "failed"
    /\ waiting' = <<>> /\ running' = {}
    /\ UNCHANGED <<output, total, selected, queued, requests, semaphore, links, files,
                   zipped, name, archive, published>>

(* zip(files, locations, strict=True) *)
OpenStream ==
    /\ worker = "locating" /\ waiting = <<>> /\ running = {} /\ worker' = "streaming"
    /\ UNCHANGED <<row, queued, requests, locating, files, zipped, name, archive, published>>

(* One file of the stream; its name in the archive and whose links it used. *)
StreamFile ==
    LET i == Len(archive) + 1
    IN  /\ worker = "streaming" /\ i <= Len(files)
        /\ archive' = Append(archive, [entry |-> files[i], content |-> links[i]])
        /\ UNCHANGED <<row, queued, requests, locating, worker, files, zipped, name, published>>

Publish ==
    /\ worker = "streaming" /\ Len(archive) = Len(files)
    /\ worker' = "idle" /\ state' = "completed"
    /\ published' = [name |-> name, zipped |-> zipped, entries |-> archive]
    /\ UNCHANGED <<output, total, selected, queued, requests, locating, files,
                   zipped, name, archive>>

-----------------------------------------------------------------------------
NotPublished == [name |-> "none", zipped |-> FALSE, entries |-> <<>>]

Init ==
    /\ state = "awaiting_selection" /\ output = "none" /\ total = 0 /\ selected = {}
    /\ queued = 0 /\ pc = [c \in Client |-> "idle"]
    /\ loaded = [c \in Client |-> [output |-> "none", total |-> 0, selected |-> {}]]
    /\ chosen = [c \in Client |-> {}]
    /\ worker = "idle" /\ files = <<>> /\ zipped = FALSE /\ name = "none"
    /\ waiting = <<>> /\ running = {} /\ semaphore = 0 /\ links = <<>>
    /\ archive = <<>> /\ published = NotPublished

RequestStep(c) ==
    LoadJob(c) \/ Commit(c) \/ Put(c) \/ \E ids \in SUBSET Item, all \in BOOLEAN : LoadItems(c, ids, all)
TransferStep ==
    Take \/ StartLocate \/ (\E i \in running : EndLocate(i)) \/ OpenStream \/ StreamFile \/ Publish

Next == (\E c \in Client : RequestStep(c)) \/ TransferStep \/ TransferFails

Spec == Init /\ [][Next]_vars
=============================================================================
