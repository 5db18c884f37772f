-------------------------- MODULE SelectionProofs --------------------------
(***************************************************************************)
(* Proofs about ItemSelection: the types, for any number of requests, and, *)
(* as long as two requests do not overlap, what the row says of the        *)
(* selection and what is published for it.                                 *)
(***************************************************************************)
EXTENDS SelectionProperties, DataProofs

USE ItemAssumption, ConnectionsAssumption, ClientAssumption

-----------------------------------------------------------------------------
(* The selected files in order *)

(* The sequence s lists the elements of S. *)
Lists(s, S) ==
    /\ s \in Seq(S) /\ Len(s) = Cardinality(S)
    /\ \A x \in S : \E i \in 1..Len(s) : s[i] = x

(* _transfer_job's files are the selected ones, each of them once. *)
LEMMA SelectedFilesListed ==
    ASSUME selected \subseteq Item
    PROVE  IsFiniteSet(FilesOf(selected)) /\ Lists(SelectedFiles, FilesOf(selected))
<1> DEFINE S == FilesOf(selected)
           n == Len(ByPath)
           f == SelectedFiles
<1>1. S \in SUBSET Item /\ IsFiniteSet(S)
  <2>1. S \in SUBSET Item
    BY DEF FilesOf
  <2> QED BY <2>1, FS_Subset
<1>2. n \in Nat /\ ByPath \in [1..n -> Item] /\ DOMAIN ByPath = 1..n
      /\ \A x \in Item : \E i \in 1..n : ByPath[i] = x
  BY DEF ToSet
<1>3. ByPath \in Injection(1..n, Item)
  <2>1. ByPath \in Surjection(1..n, Item)
    BY <1>2 DEF Surjection
  <2>2. IsFiniteSet(1..n) /\ Cardinality(1..n) = n /\ n = Cardinality(Item)
    BY <1>2, IntervalSize
  <2> HIDE DEF n
  <2> QED BY <2>1, <2>2, FS_Surjection
<1>4. \A i, j \in DOMAIN ByPath : ByPath[i] = ByPath[j] => i = j
  BY <1>2, <1>3 DEF Injection, IsInjective
<1>5. f = Filtered(ByPath, S)
  BY DEF SelectedFiles
<1>6. {ByPath[i] : i \in DOMAIN ByPath} \cap S = S
  BY <1>1, <1>2
<1> HIDE DEF S, f
<1>7. /\ f \in Seq(S) /\ {f[i] : i \in DOMAIN f} = S
      /\ \A i, j \in DOMAIN f : f[i] = f[j] => i = j
  <2> DEFINE q == Filtered(ByPath, S)
  <2>1. /\ q \in Seq(S) /\ {q[i] : i \in DOMAIN q} = {ByPath[i] : i \in DOMAIN ByPath} \cap S
        /\ \A i, j \in DOMAIN q : q[i] = q[j] => i = j
    <3>1. ByPath \in Seq(Item)
      OBVIOUS
    <3>2. /\ q \in Seq(Item) /\ q \in Seq(S)
          /\ {q[i] : i \in DOMAIN q} = {ByPath[i] : i \in DOMAIN ByPath} \cap S
          /\ (\A i, j \in DOMAIN ByPath : ByPath[i] = ByPath[j] => i = j) =>
                 \A i, j \in DOMAIN q : q[i] = q[j] => i = j
      BY ONLY <3>1, FilteredIs
    <3> QED BY <1>4, <3>2
  <2> HIDE DEF q
  <2> QED BY <1>5, <1>6, <2>1 DEF q
<1>8. DOMAIN f = 1..Len(f) /\ Len(f) \in Nat
  BY <1>7
<1>9. \A x \in S : \E i \in 1..Len(f) : f[i] = x
  BY <1>7, <1>8
<1>10. Len(f) = Cardinality(S)
  <2>1. f \in [1..Len(f) -> S]
    BY <1>7, <1>8
  <2>2. f \in Surjection(1..Len(f), S) /\ f \in Injection(1..Len(f), S)
    BY <1>7, <1>8, <1>9, <2>1 DEF Surjection, Injection, IsInjective
  <2>3. IsFiniteSet(1..Len(f)) /\ Cardinality(1..Len(f)) = Len(f)
    BY <1>8, IntervalSize
  <2>4. f \in Bijection(1..Len(f), S)
    BY <2>2 DEF Bijection
  <2>5. ExistsBijection(1..Len(f), S)
    BY <2>4 DEF ExistsBijection
  <2> QED BY <2>3, <2>5, FS_Bijection
<1> QED BY <1>1, <1>7, <1>9, <1>10 DEF Lists, f, S

-----------------------------------------------------------------------------
(* Types, for any number of requests *)

Busy == {c \in Client : pc[c] # "idle"}

(* A request queues at most one transfer: none can start once one has      *)
(* committed. *)
Demand ==
    /\ queued + Cardinality(Busy) <= Cardinality(Client)
    /\ state = "awaiting_selection" =>
           queued = 0 /\ worker = "idle" /\ \A c \in Client : pc[c] # "put"

Form == Name \cup {"none"}
Loaded == [output : Form, total : Nat, selected : SUBSET Item]
Entry == [entry : Item, content : Item \cup {NoItem}]

Typed ==
    /\ TypeOK /\ Demand
    /\ loaded \in [Client -> Loaded] /\ chosen \in [Client -> SUBSET Item]
    /\ archive \in Seq(Entry)

LEMMA BusyChanges ==
    ASSUME pc \in [Client -> {"idle", "items", "commit", "put"}], NEW c \in Client
    PROVE  /\ IsFiniteSet(Busy) /\ Cardinality(Busy) \in Nat /\ Cardinality(Client) \in Nat
           /\ Cardinality(Busy) <= Cardinality(Client)
           /\ pc[c] # "idle" => /\ Cardinality(Busy) > 0
                                /\ Cardinality(Busy \ {c}) = Cardinality(Busy) - 1
<1>1. Busy \in SUBSET Client
  BY DEF Busy
<1>2. IsFiniteSet(Busy) /\ Cardinality(Busy) <= Cardinality(Client)
  BY <1>1, FS_Subset
<1>3. Cardinality(Busy) \in Nat /\ Cardinality(Client) \in Nat
  BY <1>2, FS_CardinalityType
<1>4. ASSUME pc[c] # "idle"
      PROVE  Cardinality(Busy) > 0 /\ Cardinality(Busy \ {c}) = Cardinality(Busy) - 1
  <2>1. c \in Busy /\ Busy # {}
    BY <1>4 DEF Busy
  <2>2. Cardinality(Busy) # 0
    BY <1>2, <2>1, FS_EmptySet
  <2>3. Cardinality(Busy \ {c}) = Cardinality(Busy) - 1
    BY <1>2, <2>1, FS_RemoveElement
  <2> QED BY <1>3, <2>2, <2>3
<1> QED BY <1>2, <1>3, <1>4

LEMMA BytesType ==
    ASSUME NEW items, items \subseteq Item
    PROVE  Bytes(items) \in Nat
<1>1. FilesOf(items) \in SUBSET Item
  BY DEF FilesOf
<1>2. IsFiniteSet(FilesOf(items))
  BY <1>1, FS_Subset
<1> QED BY <1>1, <1>2, SumType DEF Bytes

(* What select_items changes in what it has loaded. *)
LEMMA RecordChanges ==
    ASSUME NEW r \in Loaded, NEW o, NEW t, NEW s
    PROVE  /\ [r EXCEPT !.output = o, !.total = t]
                  = [output |-> o, total |-> t, selected |-> r.selected]
           /\ [r EXCEPT !.selected = s]
                  = [output |-> r.output, total |-> r.total, selected |-> s]
<1> DEFINE x == [r EXCEPT !.output = o, !.total = t]
           y == [r EXCEPT !.selected = s]
           K == {"output", "total", "selected"}
<1>1. DOMAIN r = K
  BY DEF Loaded
<1>2. /\ x = [k \in K |-> x[k]] /\ x.output = o /\ x.total = t /\ x.selected = r.selected
  BY <1>1
<1>3. /\ y = [k \in K |-> y[k]] /\ y.selected = s /\ y.output = r.output /\ y.total = r.total
  BY <1>1
<1> HIDE DEF x, y
<1>4. x = [output |-> o, total |-> t, selected |-> r.selected]
  BY <1>2
<1>5. y = [output |-> r.output, total |-> r.total, selected |-> s]
  BY <1>3
<1> QED BY <1>4, <1>5 DEF x, y

LEMMA TypedInit == ASSUME Init PROVE Typed
<1>1. Busy = {} /\ Cardinality(Busy) = 0 /\ Cardinality(Client) \in Nat
  BY FS_EmptySet, FS_CardinalityType DEF Init, Busy
<1>2. Demand
  BY <1>1 DEF Init, Demand
<1>3. loaded \in [Client -> Loaded] /\ chosen \in [Client -> SUBSET Item] /\ archive \in Seq(Entry)
  BY DEF Init, Loaded, Form
<1>4. TypeOK
  <2>1. Index = {} /\ links \in [{} -> Item \cup {NoItem}] /\ waiting \in Seq(Index)
        /\ running \subseteq Index
    BY DEF Init, Index
  <2>2. files \in Seq(FilesOf(Item)) /\ Len(archive) <= Len(files)
    BY DEF Init
  <2>3. queued \in 0..Cardinality(Client)
    BY <1>1 DEF Init
  <2> QED BY <2>1, <2>2, <2>3 DEF Init, TypeOK
<1> QED BY <1>2, <1>3, <1>4 DEF Typed

LEMMA RequestTyped ==
    ASSUME Typed, NEW c \in Client, RequestStep(c)
    PROVE  Typed'
<1>1. pc \in [Client -> {"idle", "items", "commit", "put"}]
  BY DEF Typed, TypeOK
<1>2. /\ Cardinality(Busy) \in Nat /\ Cardinality(Client) \in Nat
      /\ pc[c] # "idle" => /\ Cardinality(Busy) > 0
                           /\ Cardinality(Busy \ {c}) = Cardinality(Busy) - 1
  BY <1>1, BusyChanges
<1>3. CASE LoadJob(c)
  <2>1. /\ pc' = [pc EXCEPT ![c] = "items"] /\ pc' \in [Client -> {"idle", "items", "commit", "put"}]
        /\ loaded' = [loaded EXCEPT ![c].output = output, ![c].total = total]
        /\ UNCHANGED <<row, queued, chosen, locating, transfer>>
    BY <1>1, <1>3 DEF LoadJob, Goto
  <2>2. loaded' \in [Client -> Loaded]
    <3> DEFINE r == [output |-> output, total |-> total, selected |-> loaded[c].selected]
    <3>1. \A d \in Client : loaded[d] \in Loaded
      BY DEF Typed
    <3>2. r \in Loaded
      BY <3>1 DEF Loaded, Form, Typed, TypeOK
    <3>3. DOMAIN loaded = Client /\ DOMAIN loaded[c] = {"output", "total", "selected"}
      BY <3>1 DEF Typed, Loaded
    <3>4. loaded'[c] = r
      BY <2>1, <3>1, <3>3, RecordChanges DEF Loaded
    <3>5. loaded' = [d \in Client |-> loaded'[d]] /\ \A d \in Client \ {c} : loaded'[d] = loaded[d]
      BY <2>1, <3>3
    <3>6. \A d \in Client : loaded'[d] \in Loaded
      BY <3>1, <3>2, <3>4, <3>5
    <3> QED BY <3>5, <3>6
  <2>3. Demand'
    <3>1. Cardinality(Busy') \in Nat /\ Cardinality(Busy') <= Cardinality(Client)
      <4>1. Busy' \in SUBSET Client
        BY DEF Busy
      <4> QED BY <4>1, FS_Subset, FS_CardinalityType
    <3>2. queued' = 0 /\ worker' = "idle" /\ \A d \in Client : pc'[d] # "put"
      BY <1>1, <1>3, <2>1 DEF LoadJob, Typed, Demand, transfer
    <3> QED BY <1>2, <3>1, <3>2 DEF Demand
  <2>4. TypeOK'
    BY <2>1, <2>2 DEF Typed, TypeOK, Loaded, Form, row, locating, transfer, Index
  <2> QED BY <2>1, <2>2, <2>3, <2>4 DEF Typed, transfer
<1>4. CASE \E ids \in SUBSET Item, all \in BOOLEAN : LoadItems(c, ids, all)
  <2>1. PICK ids \in SUBSET Item, all \in BOOLEAN : LoadItems(c, ids, all)
    BY <1>4
  <2>2. Chosen(ids, all) \in SUBSET Item
    BY DEF Chosen
  <2>3. /\ pc[c] = "items" /\ pc' \in [Client -> {"idle", "items", "commit", "put"}]
        /\ \A d \in Client \ {c} : pc'[d] = pc[d]
        /\ pc'[c] \in {"idle", "commit"}
    BY <1>1, <2>1 DEF LoadItems, Goto
  <2>4. loaded' \in [Client -> Loaded] /\ chosen' \in [Client -> SUBSET Item]
    <3> DEFINE new == Chosen(ids, all)
    <3>1. new \in SUBSET Item /\ selected \in SUBSET Item
      BY <2>2 DEF Typed, TypeOK
    <3> HIDE DEF new
    <3>2. \/ UNCHANGED <<loaded, chosen>>
          \/ /\ chosen' = [chosen EXCEPT ![c] = new]
             /\ loaded' = [loaded EXCEPT ![c].selected = selected]
      BY <2>1 DEF LoadItems, new
    <3>3. CASE UNCHANGED <<loaded, chosen>>
      BY <3>3 DEF Typed
    <3>4. CASE /\ chosen' = [chosen EXCEPT ![c] = new]
               /\ loaded' = [loaded EXCEPT ![c].selected = selected]
      <4> DEFINE r == [output |-> loaded[c].output, total |-> loaded[c].total, selected |-> selected]
      <4>1. \A d \in Client : loaded[d] \in Loaded
        BY DEF Typed
      <4>2. r \in Loaded
        BY <3>1, <4>1 DEF Loaded
      <4>3. loaded'[c] = r
        BY <3>4, <4>1, RecordChanges DEF Typed
      <4>4. chosen' \in [Client -> SUBSET Item]
        BY <3>1, <3>4 DEF Typed
      <4>5. loaded' = [d \in Client |-> loaded'[d]] /\ \A d \in Client \ {c} : loaded'[d] = loaded[d]
        BY <3>4 DEF Typed
      <4>6. \A d \in Client : loaded'[d] \in Loaded
        BY <4>1, <4>2, <4>3, <4>5
      <4> QED BY <4>4, <4>5, <4>6
    <3> QED BY <3>2, <3>3, <3>4
  <2>5. Demand'
    <3>1. Busy' \in SUBSET Busy
      BY <2>3 DEF Busy
    <3>2. IsFiniteSet(Busy)
      BY <1>1, BusyChanges
    <3>3. Cardinality(Busy') <= Cardinality(Busy) /\ Cardinality(Busy') \in Nat
      BY <3>1, <3>2, FS_Subset, FS_CardinalityType
    <3>4. queued \in Nat /\ UNCHANGED <<state, queued, worker>>
      BY <2>1 DEF LoadItems, row, transfer, Typed, TypeOK
    <3>5. queued + Cardinality(Busy) <= Cardinality(Client)
          /\ (state = "awaiting_selection" =>
                  queued = 0 /\ worker = "idle" /\ \A d \in Client : pc[d] # "put")
      BY DEF Typed, Demand
    <3>6. queued' + Cardinality(Busy') <= Cardinality(Client)
      BY <1>2, <3>3, <3>4, <3>5
    <3>7. state' = "awaiting_selection" =>
              queued' = 0 /\ worker' = "idle" /\ \A d \in Client : pc'[d] # "put"
      BY <2>3, <3>4, <3>5
    <3> QED BY <3>6, <3>7 DEF Demand
  <2>6. UNCHANGED <<row, queued, locating, transfer>>
    BY <2>1 DEF LoadItems
  <2>7. TypeOK'
    BY <2>3, <2>4, <2>6 DEF Typed, TypeOK, Loaded, Form, row, locating, transfer, Index
  <2> QED BY <2>4, <2>5, <2>6, <2>7 DEF Typed, transfer
<1>5. CASE Commit(c)
  <2>1. /\ pc[c] = "commit" /\ pc' = [pc EXCEPT ![c] = "put"]
        /\ pc' \in [Client -> {"idle", "items", "commit", "put"}]
        /\ UNCHANGED <<queued, loaded, chosen, locating, transfer>>
    BY <1>1, <1>5 DEF Commit, Goto
  <2>2. selected' \subseteq Item /\ state' = "queued_transfer"
    BY <1>5 DEF Commit
  <2>3. chosen[c] \subseteq Item /\ loaded[c] \in Loaded
    BY DEF Typed
  <2>4. total' \in Nat
    BY <1>5, <2>3, BytesType DEF Commit, Written, Typed, TypeOK
  <2>5. output' \in Form
    BY <1>5 DEF Commit, Written, OutputOf, Name, Form, Typed, TypeOK
  <2>6. Demand'
    <3>1. Busy' = Busy
      BY <1>1, <2>1 DEF Busy
    <3> QED BY <2>1, <2>2, <3>1 DEF Typed, Demand
  <2>7. TypeOK'
    BY <2>1, <2>2, <2>4, <2>5 DEF Typed, TypeOK, Form, locating, transfer, Index
  <2> QED BY <2>1, <2>6, <2>7 DEF Typed, transfer
<1>6. CASE Put(c)
  <2>1. /\ pc[c] = "put" /\ pc' = [pc EXCEPT ![c] = "idle"] /\ queued' = queued + 1
        /\ pc' \in [Client -> {"idle", "items", "commit", "put"}]
        /\ UNCHANGED <<row, loaded, chosen, locating, transfer>>
    BY <1>1, <1>6 DEF Put, Goto
  <2>2. Busy' = Busy \ {c}
    BY <1>1, <2>1 DEF Busy
  <2>3. queued' + Cardinality(Busy') <= Cardinality(Client) /\ queued' \in 0..Cardinality(Client)
    BY <1>2, <2>1, <2>2 DEF Typed, Demand, TypeOK
  <2>4. Demand'
    BY <2>1, <2>3 DEF Typed, Demand, row, transfer
  <2>5. TypeOK'
    BY <2>1, <2>3 DEF Typed, TypeOK, row, locating, transfer, Index
  <2> QED BY <2>1, <2>4, <2>5 DEF Typed, transfer
<1> QED BY <1>3, <1>4, <1>5, <1>6 DEF RequestStep

LEMMA TransferTyped ==
    ASSUME Typed, TransferStep \/ TransferFails
    PROVE  Typed'
<1>1. Permits \in Nat /\ Cardinality(Busy) \in Nat /\ Cardinality(Client) \in Nat
      /\ queued \in Nat /\ queued + Cardinality(Busy) <= Cardinality(Client)
  <2>1. Busy \in SUBSET Client
    BY DEF Busy
  <2> QED BY <2>1, FS_Subset, FS_CardinalityType DEF Permits, Typed, Demand, TypeOK
<1>2. \A x \in FilesOf(Item) : x \in Item
  BY DEF FilesOf
<1>3. CASE Take
  <2> DEFINE f == SelectedFiles
             n == Len(f)
  <2>1. f \in Seq(FilesOf(Item)) /\ n \in Nat /\ DOMAIN f = 1..n
    <3>1. f \in Seq(FilesOf(selected))
      BY SelectedFilesListed DEF Typed, TypeOK, Lists
    <3> QED BY <3>1 DEF Typed, TypeOK, FilesOf
  <2> HIDE DEF f
  <2>2. /\ worker = "idle" /\ queued > 0 /\ queued' = queued - 1 /\ files' = f
        /\ zipped' = AsZip(selected) /\ name' = output /\ state' = "transferring"
        /\ worker' = "locating" /\ waiting' = [i \in 1..n |-> i] /\ running' = {}
        /\ semaphore' = Permits /\ links' = [i \in 1..n |-> NoItem] /\ archive' = <<>>
        /\ UNCHANGED <<output, total, selected, requests, published>>
    BY <1>3 DEF Take, f
  <2>3. Index' = 1..n
    BY <2>2 DEF Index
  <2>4. waiting' \in Seq(Index') /\ links' \in [Index' -> Item \cup {NoItem}]
    BY <2>1, <2>2, <2>3
  <2>5. queued' \in 0..Cardinality(Client) /\ Busy' = Busy
    BY <1>1, <2>2 DEF requests, Busy
  <2>6. Demand'
    BY <1>1, <2>2, <2>5 DEF Demand
  <2>7. Cardinality(running') = 0 /\ Len(archive') <= Len(files')
    BY <2>1, <2>2, FS_EmptySet
  <2>8. TypeOK'
    BY <1>1, <2>1, <2>2, <2>4, <2>5, <2>7 DEF Typed, TypeOK, AsZip, requests
  <2> QED BY <2>2, <2>6, <2>8 DEF Typed, requests
<1>4. CASE StartLocate
  <2>1. /\ worker = "locating" /\ waiting # <<>> /\ Free /\ semaphore' = semaphore - 1
        /\ running' = running \cup {Head(waiting)} /\ waiting' = Tail(waiting)
        /\ UNCHANGED <<row, queued, requests, links, transfer>>
    BY <1>4 DEF StartLocate
  <2>2. waiting \in Seq(Index) /\ running \subseteq Index /\ IsFiniteSet(running)
    <3>1. Index \in SUBSET (1..Len(files)) /\ IsFiniteSet(1..Len(files))
      BY FS_Interval DEF Index, Typed, TypeOK
    <3> QED BY <3>1, FS_Subset DEF Typed, TypeOK
  <2>3. Head(waiting) \in Index /\ Tail(waiting) \in Seq(Index)
    BY <2>1, <2>2
  <2>4. semaphore' + Cardinality(running') <= Permits /\ semaphore' \in Nat
    <3>1. Cardinality(running') <= Cardinality(running) + 1 /\ Cardinality(running) \in Nat
          /\ Cardinality(running') \in Nat
      <4> DEFINE h == Head(waiting)
      <4>1. IsFiniteSet(running \cup {h}) /\ Cardinality(running) \in Nat
        BY <2>2, FS_AddElement, FS_CardinalityType
      <4>2. Cardinality(running \cup {h}) =
                IF h \in running THEN Cardinality(running) ELSE Cardinality(running) + 1
        BY <2>2, FS_AddElement
      <4> QED BY <2>1, <4>1, <4>2
    <3>2. semaphore \in Nat /\ semaphore > 0 /\ semaphore + Cardinality(running) <= Permits
      BY <2>1 DEF Typed, TypeOK, Free
    <3> QED BY <1>1, <2>1, <3>1, <3>2
  <2>5. Demand'
    BY <2>1 DEF Typed, Demand, Busy, row, requests, transfer
  <2>6. TypeOK'
    BY <2>1, <2>2, <2>3, <2>4 DEF Typed, TypeOK, Index, row, requests, transfer
  <2> QED BY <2>1, <2>5, <2>6 DEF Typed, requests, transfer
<1>5. CASE \E i \in running : EndLocate(i)
  <2>1. PICK i \in running : EndLocate(i)
    BY <1>5
  <2>2. /\ worker = "locating" /\ running' = running \ {i} /\ semaphore' = semaphore + 1
        /\ links' = [links EXCEPT ![i] = files[i]]
        /\ UNCHANGED <<row, queued, requests, waiting, transfer>>
    BY <2>1 DEF EndLocate, Released, AnswerPlace
  <2>3. running \subseteq Index /\ IsFiniteSet(running) /\ i \in Index
    <3>1. Index \in SUBSET (1..Len(files)) /\ IsFiniteSet(1..Len(files))
      BY FS_Interval DEF Index, Typed, TypeOK
    <3> QED BY <3>1, FS_Subset DEF Typed, TypeOK
  <2>4. files[i] \in Item
    BY <1>2, <2>3 DEF Index, Typed, TypeOK
  <2>5. semaphore' + Cardinality(running') <= Permits /\ semaphore' \in Nat
    <3>1. Cardinality(running') = Cardinality(running) - 1 /\ Cardinality(running) \in Nat
      BY <2>2, <2>3, FS_RemoveElement, FS_CardinalityType
    <3>2. semaphore \in Nat /\ semaphore + Cardinality(running) <= Permits
      BY <2>2 DEF Typed, TypeOK
    <3> QED BY <1>1, <2>2, <3>1, <3>2
  <2>6. Demand'
    BY <2>2 DEF Typed, Demand, Busy, row, requests, transfer
  <2>7. links' \in [Index -> Item \cup {NoItem}]
    BY <2>2, <2>4 DEF Typed, TypeOK
  <2>8. TypeOK'
    BY <2>2, <2>3, <2>5, <2>7 DEF Typed, TypeOK, Index, row, requests, transfer
  <2> QED BY <2>2, <2>6, <2>8 DEF Typed, requests, transfer
<1>6. CASE OpenStream
  <2>1. Demand'
    BY <1>6 DEF OpenStream, Typed, Demand, Busy, row, requests
  <2>2. TypeOK'
    BY <1>6 DEF OpenStream, Typed, TypeOK, Index, row, requests, locating
  <2> QED BY <1>6, <2>1, <2>2 DEF OpenStream, Typed, requests
<1>7. CASE StreamFile
  <2> DEFINE i == Len(archive) + 1
             e == [entry |-> files[i], content |-> links[i]]
  <2>1. /\ worker = "streaming" /\ i <= Len(files) /\ archive' = Append(archive, e)
        /\ UNCHANGED <<row, queued, requests, locating, worker, files, zipped, name, published>>
    BY <1>7 DEF StreamFile
  <2>2. i \in 1..Len(files)
    BY <2>1 DEF Typed
  <2>3. e \in Entry
    BY <1>2, <2>2 DEF Entry, Typed, TypeOK, Index
  <2> HIDE DEF e
  <2>4. archive' \in Seq(Entry) /\ Len(archive') = i
    BY <2>1, <2>3 DEF Typed
  <2>5. Demand'
    BY <2>1 DEF Typed, Demand, Busy, row, requests
  <2> HIDE DEF i
  <2>6. TypeOK'
    BY <2>1, <2>4 DEF Typed, TypeOK, Index, row, requests, locating
  <2> QED BY <2>1, <2>4, <2>5, <2>6 DEF Typed, requests
<1>8. CASE Publish
  <2>1. Demand'
    BY <1>8 DEF Publish, Typed, Demand, Busy, requests
  <2>2. TypeOK'
    BY <1>8 DEF Publish, Typed, TypeOK, Index, requests, locating
  <2> QED BY <1>8, <2>1, <2>2 DEF Publish, Typed, requests
<1>9. CASE TransferFails
  <2>1. Demand'
    BY <1>9 DEF TransferFails, Typed, Demand, Busy, requests
  <2>2. TypeOK'
    BY <1>9 DEF TransferFails, Typed, TypeOK, Index, requests
  <2> QED BY <1>9, <2>1, <2>2 DEF TransferFails, Typed, requests
<1> QED BY <1>3, <1>4, <1>5, <1>6, <1>7, <1>8, <1>9 DEF TransferStep

LEMMA TypedStep == ASSUME Typed, [Next]_vars PROVE Typed'
<1>1. CASE UNCHANGED vars
  <2>1. TypeOK' /\ Demand'
    BY <1>1 DEF vars, row, requests, locating, transfer, Typed, TypeOK, Index, Demand, Busy
  <2> QED BY <1>1, <2>1 DEF vars, requests, transfer, Typed
<1> QED BY <1>1, RequestTyped, TransferTyped DEF Next

THEOREM TypedInvariant == Spec => []Typed
  BY TypedInit, TypedStep, PTL DEF Spec

(* Whatever requests overlap, the row, the requests and the transfer have  *)
(* their types: a request queues at most one transfer, total_bytes is a    *)
(* number, and no more links are resolved at a time than the semaphore has *)
(* permits (client.py 174-187). *)
THEOREM SelectionTyped == Spec => []TypeOK
<1>1. Typed => TypeOK
  BY DEF Typed
<1> QED BY <1>1, TypedInvariant, PTL

-----------------------------------------------------------------------------
(* One selection at a time *)

(* The page of a job sends a selection and waits for the answer.  Run      *)
(* selection_merged shows what two requests at a time may write. *)
OneAtATime == \A c, d \in Client : pc[c] # "idle" /\ pc[d] # "idle" => c = d

(* A choice names what is below its directories. *)
Whole(items) ==
    /\ items \subseteq Item /\ FilesOf(items) # {}
    /\ \A d \in items \cap Directory, item \in Item : Under(item, d) => item \in items

(* A request that has read the row will find it as it was. *)
Current ==
    /\ \A c \in Client : pc[c] \in {"items", "commit"} =>
           /\ state = "awaiting_selection"
           /\ loaded[c].output = output /\ loaded[c].total = total
    /\ \A c \in Client : pc[c] = "commit" => loaded[c].selected = selected /\ Whole(chosen[c])

(* The transfer under way is that of the selection; every link is found,   *)
(* asked for or still to be asked for, at the place of its file. *)
Underway ==
    /\ worker # "idle" =>
           Lists(files, FilesOf(selected)) /\ name = output /\ (zipped <=> AsZip(selected))
    /\ worker = "locating" =>
           /\ archive = <<>>
           /\ \A i \in Index : \/ links[i] = files[i] \/ i \in running
                               \/ \E k \in 1..Len(waiting) : waiting[k] = i
    /\ worker = "streaming" =>
           /\ \A i \in Index : links[i] = files[i]
           /\ \A i \in 1..Len(archive) : archive[i] = [entry |-> files[i], content |-> files[i]]

(* A published file is that of the selection, whatever happened since. *)
Matches == published # NotPublished =>
    /\ state # "awaiting_selection"
    /\ ToSet(published.entries) = {[entry |-> f, content |-> f] : f \in FilesOf(selected)}
    /\ Len(published.entries) = Cardinality(FilesOf(selected))
    /\ published.zipped <=> ~SingleFile(selected)
    /\ published.zipped => published.name = "zip"

Coherent == SelectionConsistent /\ Current /\ Underway /\ Matches

LEMMA UnderTransitive ==
    ASSUME NEW a \in Item, NEW b \in Item, NEW c \in Item, Under(a, b), Under(b, c)
    PROVE  Under(a, c)
<1> DEFINE p == Path[a]
           q == Path[b]
           r == Path[c]
<1>1. p \in Seq(STRING) /\ q \in Seq(STRING) /\ r \in Seq(STRING)
  OBVIOUS
<1>2. /\ Len(q) <= Len(p) /\ SubSeq(q, 1, Len(q)) = SubSeq(p, 1, Len(q))
      /\ Len(r) <= Len(q) /\ SubSeq(r, 1, Len(r)) = SubSeq(q, 1, Len(r))
  BY DEF Under, IsPrefix
<1> HIDE DEF p, q, r
<1>3. Len(p) \in Nat /\ Len(q) \in Nat /\ Len(r) \in Nat /\ Len(r) <= Len(p)
  BY <1>1, <1>2
<1>4. \A i \in 1..Len(q) : q[i] = p[i]
  <2> SUFFICES ASSUME NEW i \in 1..Len(q) PROVE q[i] = p[i]
    OBVIOUS
  <2>1. SubSeq(q, 1, Len(q))[i] = q[i] /\ SubSeq(p, 1, Len(q))[i] = p[i]
    BY <1>1, <1>2, <1>3
  <2> QED BY <1>2, <2>1
<1>5. SubSeq(q, 1, Len(r)) = SubSeq(p, 1, Len(r))
  <2>1. \A i \in 1..Len(r) : q[i] = p[i]
    BY <1>2, <1>3, <1>4
  <2>2. SubSeq(q, 1, Len(r)) = [i \in 1..Len(r) |-> q[i]]
    BY <1>1, <1>2, <1>3
  <2>3. SubSeq(p, 1, Len(r)) = [i \in 1..Len(r) |-> p[i]]
    BY <1>1, <1>2, <1>3
  <2> QED BY <2>1, <2>2, <2>3
<1> QED BY <1>2, <1>3, <1>5 DEF Under, IsPrefix, p, q, r

LEMMA ChosenWhole ==
    ASSUME NEW ids \in SUBSET Item, NEW all \in BOOLEAN, FilesOf(Chosen(ids, all)) # {}
    PROVE  Whole(Chosen(ids, all))
<1>1. ASSUME NEW d \in Chosen(ids, all) \cap Directory, NEW item \in Item, Under(item, d)
      PROVE  item \in Chosen(ids, all)
  <2>1. CASE all \/ d \in ids
    BY <1>1, <2>1 DEF Chosen
  <2>2. CASE \E e \in ids \cap Directory : Under(d, e)
    <3>1. PICK e \in ids \cap Directory : Under(d, e)
      BY <2>2
    <3>2. Under(item, e)
      BY <1>1, <3>1, UnderTransitive DEF Chosen
    <3> QED BY <3>1, <3>2 DEF Chosen
  <2> QED BY <2>1, <2>2 DEF Chosen
<1> QED BY <1>1 DEF Whole, Chosen

LEMMA CoherentInit == ASSUME Init PROVE Coherent
  BY DEF Init, Coherent, SelectionConsistent, Current, Underway, Matches

(* The row that an undisturbed request writes is that of its choice. *)
LEMMA CommitWrites ==
    ASSUME Typed, Coherent, NEW c \in Client, Commit(c)
    PROVE  /\ selected' = chosen[c]
           /\ output' \in {OutputOf(chosen[c], requested) : requested \in Name}
           /\ total' = Bytes(chosen[c])
<1>1. /\ pc[c] = "commit" /\ loaded[c].selected = selected /\ loaded[c].output = output
      /\ loaded[c].total = total /\ chosen[c] \subseteq Item
  BY DEF Commit, Coherent, Current, Typed
<1> QED BY <1>1 DEF Commit, Written

LEMMA CoherentRequest ==
    ASSUME Typed, Coherent, OneAtATime, NEW c \in Client, RequestStep(c)
    PROVE  Coherent'
<1>1. pc \in [Client -> {"idle", "items", "commit", "put"}] /\ DOMAIN loaded = Client
  BY DEF Typed, TypeOK
<1>2. CASE LoadJob(c)
  <2>1. /\ state = "awaiting_selection" /\ pc[c] = "idle" /\ pc' = [pc EXCEPT ![c] = "items"]
        /\ loaded' = [loaded EXCEPT ![c].output = output, ![c].total = total]
        /\ UNCHANGED <<row, queued, chosen, locating, transfer>>
    BY <1>2 DEF LoadJob, Goto
  <2>2. \A d \in Client \ {c} : pc'[d] = pc[d] /\ loaded'[d] = loaded[d]
    BY <1>1, <2>1
  <2>3. pc'[c] = "items" /\ loaded'[c].output = output /\ loaded'[c].total = total
    <3>1. loaded[c] \in Loaded
      BY DEF Typed
    <3>2. loaded'[c] = [output |-> output, total |-> total, selected |-> loaded[c].selected]
      BY <1>1, <2>1, <3>1, RecordChanges
    <3> QED BY <1>1, <2>1, <3>2
  <2>4. Current'
    BY <2>1, <2>2, <2>3 DEF Coherent, Current, row, Whole
  <2> QED BY <2>1, <2>4 DEF Coherent, SelectionConsistent, Underway, Matches, Index, row, locating, transfer
<1>3. CASE \E ids \in SUBSET Item, all \in BOOLEAN : LoadItems(c, ids, all)
  <2>1. PICK ids \in SUBSET Item, all \in BOOLEAN : LoadItems(c, ids, all)
    BY <1>3
  <2> DEFINE new == Chosen(ids, all)
  <2>2. FilesOf(new) # {} => Whole(new)
    BY ChosenWhole
  <2> HIDE DEF new
  <2>3. /\ pc[c] = "items" /\ UNCHANGED <<row, queued, locating, transfer>>
        /\ \/ pc' = [pc EXCEPT ![c] = "idle"] /\ UNCHANGED <<loaded, chosen>>
           \/ /\ pc' = [pc EXCEPT ![c] = "commit"] /\ chosen' = [chosen EXCEPT ![c] = new]
              /\ loaded' = [loaded EXCEPT ![c].selected = selected] /\ Whole(new)
    BY <2>1, <2>2 DEF LoadItems, Goto, new
  <2>4. Current'
    <3>1. CASE pc' = [pc EXCEPT ![c] = "idle"] /\ UNCHANGED <<loaded, chosen>>
      BY <1>1, <2>3, <3>1 DEF Coherent, Current, row, Whole
    <3>2. CASE /\ pc' = [pc EXCEPT ![c] = "commit"] /\ chosen' = [chosen EXCEPT ![c] = new]
               /\ loaded' = [loaded EXCEPT ![c].selected = selected] /\ Whole(new)
      <4>1. loaded[c] \in Loaded /\ DOMAIN chosen = Client
        BY DEF Typed
      <4>2. loaded'[c] = [output |-> loaded[c].output, total |-> loaded[c].total, selected |-> selected]
        BY <1>1, <3>2, <4>1, RecordChanges
      <4>3. chosen'[c] = new /\ pc'[c] = "commit" /\ loaded'[c].selected = selected
            /\ loaded'[c].output = loaded[c].output /\ loaded'[c].total = loaded[c].total
        BY <1>1, <3>2, <4>1, <4>2
      <4>4. \A d \in Client \ {c} : pc'[d] = pc[d] /\ loaded'[d] = loaded[d] /\ chosen'[d] = chosen[d]
        BY <1>1, <3>2, <4>1
      <4>5. UNCHANGED <<state, output, total, selected>>
        BY <2>3 DEF row
      <4>6. \A d \in Client \ {c} :
                /\ pc'[d] \in {"items", "commit"} =>
                       /\ state' = "awaiting_selection"
                       /\ loaded'[d].output = output' /\ loaded'[d].total = total'
                /\ pc'[d] = "commit" => loaded'[d].selected = selected' /\ Whole(chosen'[d])
        BY <4>4, <4>5 DEF Coherent, Current
      <4>7. state = "awaiting_selection" /\ loaded[c].output = output /\ loaded[c].total = total
        BY <2>3 DEF Coherent, Current
      <4>8. Whole(chosen'[c])
        BY <3>2, <4>3
      <4> QED BY <4>3, <4>5, <4>6, <4>7, <4>8 DEF Current
    <3> QED BY <2>3, <3>1, <3>2
  <2> QED BY <2>3, <2>4 DEF Coherent, SelectionConsistent, Underway, Matches, Index, row, locating, transfer
<1>4. CASE Commit(c)
  <2>1. /\ pc[c] = "commit" /\ pc' = [pc EXCEPT ![c] = "put"] /\ state' = "queued_transfer"
        /\ UNCHANGED <<queued, loaded, chosen, locating, transfer>>
    BY <1>4 DEF Commit, Goto
  <2>2. \A d \in Client : pc'[d] \in {"idle", "put"}
    <3>1. \A d \in Client \ {c} : pc[d] = "idle" /\ pc'[d] = pc[d]
      BY <1>1, <2>1 DEF OneAtATime
    <3> QED BY <1>1, <2>1, <3>1
  <2>3. state = "awaiting_selection" /\ worker = "idle" /\ published = NotPublished /\ Whole(chosen[c])
    BY <2>1 DEF Coherent, Current, Matches, Typed, Demand
  <2>4. SelectionConsistent'
    BY <1>4, <2>3, CommitWrites DEF SelectionConsistent, Whole
  <2>5. Current' /\ Underway' /\ Matches'
    BY <2>1, <2>2, <2>3 DEF Current, Underway, Matches, transfer
  <2> QED BY <2>4, <2>5 DEF Coherent
<1>5. CASE Put(c)
  <2>1. /\ pc' = [pc EXCEPT ![c] = "idle"]
        /\ UNCHANGED <<row, loaded, chosen, locating, transfer>>
    BY <1>5 DEF Put, Goto
  <2>2. Current'
    BY <1>1, <2>1 DEF Coherent, Current, row, Whole
  <2> QED BY <2>1, <2>2 DEF Coherent, SelectionConsistent, Underway, Matches, Index, row, locating, transfer
<1> QED BY <1>2, <1>3, <1>4, <1>5 DEF RequestStep

(* Once the last file is streamed, the file that is published is that of   *)
(* the selection. *)
LEMMA PublishMatches ==
    ASSUME Typed, Coherent, Publish
    PROVE  Matches'
<1> DEFINE S == FilesOf(selected)
           E(f) == [entry |-> f, content |-> f]
           n == Len(files)
<1>1. /\ worker = "streaming" /\ Len(archive) = n /\ state' = "completed"
      /\ published' = [name |-> name, zipped |-> zipped, entries |-> archive]
      /\ selected' = selected /\ state # "awaiting_selection"
  BY DEF Publish, Typed, Demand
<1>2. Lists(files, S) /\ name = output /\ (zipped <=> AsZip(selected))
  BY <1>1 DEF Coherent, Underway
<1>3. archive \in Seq(Entry) /\ DOMAIN archive = 1..n /\ n \in Nat
  BY <1>1, <1>2 DEF Typed, Lists
<1>4. \A i \in 1..n : archive[i] = E(files[i])
  BY <1>1 DEF Coherent, Underway
<1>5. S # {} /\ S \subseteq Item /\ (~SingleFile(selected) => output = "zip")
  BY <1>1 DEF Coherent, SelectionConsistent, OutputOf, Typed, TypeOK, FilesOf
<1>6. n = Cardinality(S) /\ n # 0
  <2>1. IsFiniteSet(S)
    BY <1>5, FS_Subset
  <2> QED BY <1>2, <1>5, <2>1, FS_EmptySet DEF Lists
<1>7. ToSet(archive) = {E(f) : f \in S}
  <2>1. \A i \in 1..n : files[i] \in S
    BY <1>2 DEF Lists
  <2>2. ToSet(archive) \subseteq {E(f) : f \in S}
    BY <1>3, <1>4, <2>1 DEF ToSet
  <2>3. \A f \in S : \E i \in 1..n : archive[i] = E(f)
    BY <1>2, <1>4 DEF Lists
  <2>4. {E(f) : f \in S} \subseteq ToSet(archive)
    BY <1>3, <2>3 DEF ToSet
  <2> QED BY <2>2, <2>4
<1>8. (zipped <=> ~SingleFile(selected)) /\ (zipped => name = "zip")
  <2>1. AsZip(selected) <=> (n > 1 \/ selected \cap Directory # {})
    BY <1>6 DEF AsZip
  <2>2. SingleFile(selected) <=> (n = 1 /\ selected \cap Directory = {})
    BY <1>5, <1>6 DEF SingleFile, FilesOf, Typed, TypeOK
  <2>3. n > 1 <=> n # 1
    BY <1>3, <1>6
  <2> QED BY <1>2, <1>5, <2>1, <2>2, <2>3
<1> QED BY <1>1, <1>6, <1>7, <1>8 DEF Matches

LEMMA CoherentTransfer ==
    ASSUME Typed, Coherent, TransferStep \/ TransferFails
    PROVE  Coherent'
<1>1. \/ worker # "idle" \/ queued # 0
  <2>1. queued \in Nat
    BY DEF Typed, TypeOK
  <2> QED BY <2>1 DEF TransferStep, TransferFails, Take, StartLocate, EndLocate, OpenStream, StreamFile, Publish
<1>2. state # "awaiting_selection" /\ \A c \in Client : pc[c] \notin {"items", "commit"}
  BY <1>1 DEF Typed, Demand, Coherent, Current
<1>3. /\ UNCHANGED <<output, total, selected, requests>> /\ state' # "awaiting_selection"
  BY <1>2 DEF TransferStep, TransferFails, Take, StartLocate, EndLocate, OpenStream, StreamFile,
              Publish, row
<1>4. SelectionConsistent' /\ Current'
  BY <1>2, <1>3 DEF Coherent, SelectionConsistent, Current, requests
<1>5. published' = published => Matches'
  BY <1>3 DEF Coherent, Matches
<1>6. CASE Take
  <2> DEFINE f == SelectedFiles
             n == Len(f)
  <2>1. /\ files' = f /\ worker' = "locating" /\ archive' = <<>> /\ waiting' = [i \in 1..n |-> i]
        /\ zipped' = AsZip(selected) /\ name' = output /\ published' = published
    BY <1>6 DEF Take
  <2>2. Lists(f, FilesOf(selected))
    BY SelectedFilesListed DEF Typed, TypeOK
  <2>3. AsZip(selected) \in BOOLEAN /\ n \in Nat
    BY <2>2 DEF AsZip, Lists
  <2> HIDE DEF f
  <2>4. Index' = 1..n /\ Len(waiting') = n /\ \A i \in 1..n : waiting'[i] = i
    BY <2>1, <2>3 DEF Index
  <2>5. FilesOf(selected') = FilesOf(selected) /\ (zipped' <=> AsZip(selected'))
    BY <1>3, <2>1
  <2>6. Underway'
    BY <1>3, <2>1, <2>2, <2>4, <2>5 DEF Underway
  <2> QED BY <1>4, <1>5, <2>1, <2>6 DEF Coherent
<1>7. CASE StartLocate
  <2>1. /\ worker = "locating" /\ waiting \in Seq(Index) /\ waiting # <<>>
        /\ running' = running \cup {Head(waiting)} /\ waiting' = Tail(waiting)
        /\ UNCHANGED <<links, worker, files, zipped, name, archive, published>>
    BY <1>7 DEF StartLocate, Typed, TypeOK, transfer
  <2>2. Index' = Index /\ selected' = selected /\ output' = output
    BY <1>3, <2>1 DEF Index
  <2>3. ASSUME NEW k \in 1..Len(waiting), waiting[k] \notin running'
        PROVE  \E l \in 1..Len(waiting') : waiting'[l] = waiting[k]
    <3>1. k # 1
      BY <2>1, <2>3
    <3>2. k - 1 \in 1..Len(waiting') /\ waiting'[k - 1] = waiting[k]
      BY <2>1, <3>1
    <3> QED BY <3>2
  <2>4. \A i \in Index : \/ links[i] = files[i] \/ i \in running
                         \/ \E k \in 1..Len(waiting) : waiting[k] = i
    BY <2>1 DEF Coherent, Underway
  <2>5. \A i \in Index' : \/ links'[i] = files'[i] \/ i \in running'
                          \/ \E l \in 1..Len(waiting') : waiting'[l] = i
    <3> SUFFICES ASSUME NEW i \in Index, links[i] # files[i], i \notin running'
                 PROVE  \E l \in 1..Len(waiting') : waiting'[l] = i
      BY <2>1, <2>2
    <3>1. PICK k \in 1..Len(waiting) : waiting[k] = i
      BY <2>1, <2>4
    <3> QED BY <2>3, <3>1
  <2>6. Underway'
    BY <2>1, <2>2, <2>5 DEF Coherent, Underway
  <2> QED BY <1>4, <1>5, <2>1, <2>6 DEF Coherent
<1>8. CASE \E i \in running : EndLocate(i)
  <2>1. PICK i \in running : EndLocate(i)
    BY <1>8
  <2>2. /\ worker = "locating" /\ running' = running \ {i} /\ links' = [links EXCEPT ![i] = files[i]]
        /\ UNCHANGED <<waiting, worker, files, zipped, name, archive, published>>
    BY <2>1 DEF EndLocate, AnswerPlace, transfer
  <2>3. Index' = Index /\ selected' = selected /\ output' = output
    BY <1>3, <2>2 DEF Index
  <2>4. \A j \in Index : links'[j] = IF j = i THEN files[j] ELSE links[j]
    BY <2>2 DEF Typed, TypeOK
  <2>5. \A j \in Index' : \/ links'[j] = files'[j] \/ j \in running'
                          \/ \E k \in 1..Len(waiting') : waiting'[k] = j
    BY <2>2, <2>3, <2>4 DEF Coherent, Underway
  <2>6. Underway'
    BY <2>2, <2>3, <2>5 DEF Coherent, Underway
  <2> QED BY <1>4, <1>5, <2>2, <2>6 DEF Coherent
<1>9. CASE OpenStream
  <2>1. /\ worker = "locating" /\ waiting = <<>> /\ running = {} /\ worker' = "streaming"
        /\ UNCHANGED <<locating, files, zipped, name, archive, published>>
    BY <1>9 DEF OpenStream
  <2>2. Index' = Index /\ selected' = selected /\ output' = output /\ Len(waiting) = 0
    BY <1>3, <2>1 DEF Index
  <2>3. archive = <<>> /\ \A i \in Index : links[i] = files[i]
    BY <2>1, <2>2 DEF Coherent, Underway
  <2>4. Underway'
    BY <2>1, <2>2, <2>3 DEF Coherent, Underway, locating
  <2> QED BY <1>4, <1>5, <2>1, <2>4 DEF Coherent
<1>10. CASE StreamFile
  <2> DEFINE i == Len(archive) + 1
             e == [entry |-> files[i], content |-> links[i]]
  <2>1. /\ worker = "streaming" /\ i <= Len(files) /\ archive' = Append(archive, e)
        /\ UNCHANGED <<locating, worker, files, zipped, name, published>>
    BY <1>10 DEF StreamFile
  <2>2. Index' = Index /\ selected' = selected /\ output' = output /\ i \in Index
    BY <1>3, <2>1 DEF Index, Typed
  <2>3. e = [entry |-> files[i], content |-> files[i]]
    BY <2>1, <2>2 DEF Coherent, Underway
  <2> HIDE DEF e
  <2>4. \A k \in 1..Len(archive') : archive'[k] = [entry |-> files[k], content |-> files[k]]
    BY <2>1, <2>3 DEF Typed, Coherent, Underway
  <2> HIDE DEF i
  <2>5. Underway'
    BY <2>1, <2>2, <2>4 DEF Coherent, Underway, locating
  <2> QED BY <1>4, <1>5, <2>1, <2>5 DEF Coherent
<1>11. CASE Publish
  <2>1. Underway'
    BY <1>11 DEF Publish, Underway
  <2> QED BY <1>4, <1>11, <2>1, PublishMatches DEF Coherent
<1>12. CASE TransferFails
  <2>1. Underway' /\ published' = published
    BY <1>12 DEF TransferFails, Underway
  <2> QED BY <1>4, <1>5, <2>1 DEF Coherent
<1> QED BY <1>6, <1>7, <1>8, <1>9, <1>10, <1>11, <1>12 DEF TransferStep

LEMMA CoherentStep ==
    ASSUME Typed, Coherent, OneAtATime, [Next]_vars
    PROVE  Coherent'
<1>1. CASE UNCHANGED vars
  BY <1>1 DEF vars, row, requests, locating, transfer, Coherent, SelectionConsistent, Current,
              Underway, Matches, Index, Whole
<1> QED BY <1>1, CoherentRequest, CoherentTransfer DEF Next

(* As long as two selections do not overlap, what is published fits the    *)
(* row, and the row fits one selection. *)
THEOREM CoherentInvariant == Spec /\ []OneAtATime => []Coherent
  BY CoherentInit, CoherentStep, TypedInvariant, PTL DEF Spec

(* As long as two selections do not overlap, the row describes one: items  *)
(* below a chosen directory are selected with it, total_bytes is the size  *)
(* of the selected files, and the name of anything but a single file ends  *)
(* in ".zip" (jobs.py 155-197). *)
THEOREM RowFitsSelection == Spec /\ []OneAtATime => []SelectionConsistent
<1>1. Coherent => SelectionConsistent
  BY DEF Coherent
<1> QED BY <1>1, CoherentInvariant, PTL

(* As long as two selections do not overlap, what is published is what was *)
(* selected: each file once, with the content of its own links in whatever *)
(* order these arrive, a single file as it is, anything else in a ZIP      *)
(* whose name says so (jobs.py 350-430; client.py 169-187). *)
THEOREM PublishedFitsSelection == Spec /\ []OneAtATime => []PublishedAsSelected
<1>1. Coherent => PublishedAsSelected
  BY DEF Coherent, Matches, PublishedAsSelected
<1> QED BY <1>1, CoherentInvariant, PTL
=============================================================================
