---------------------------- MODULE UploadProofs ----------------------------
(***************************************************************************)
(* Theorems of BuzzUpload for every size of the stream, its chunks and the *)
(* parts, and every number of connections, retries and faults.             *)
(***************************************************************************)
EXTENDS UploadProperties, DataProofs, SequenceTheorems, TLAPS

USE UploadAssumption

LastPart == (Total + PartSize - 1) \div PartSize

Label == {"create", "read", "cut", "poll", "slot", "confirm", "drain",
          "last_poll", "complete", "unwind", "end"}

(* The types of what the argument is about; progress plays no part in it.  *)
Typed ==
    /\ pc \in Label /\ published \in BOOLEAN
    /\ read \in 0..Total /\ buffer \in Seq(Nat) /\ cut \in 0..LastPart
    /\ content \in [Parts -> Seq(Nat)] /\ stored \in [Parts -> Seq(Nat)]
    /\ task \in [Parts -> {"none", "running", "done", "failed", "cancelling", "cancelled"}]
    /\ inflight \subseteq Parts /\ completed \subseteq Parts

-----------------------------------------------------------------------------
(* What _parts has cut.  The buffer holds the positions read last; all     *)
(* before them are in full parts, but for the one after which none comes.  *)
Buffered ==
    /\ Len(buffer) <= read
    /\ \A i \in 1..Len(buffer) : buffer[i] = read - Len(buffer) + i - 1
    /\ \/ read - Len(buffer) = cut * PartSize
       \/ read = Total /\ buffer = << >> /\ cut = LastPart

Sliced == \A k \in Parts : k <= cut => content[k] = Slice(k)

(* The buffer is never a part and a chunk long.                            *)
Short ==
    /\ pc \in {"create", "read"} => Len(buffer) < PartSize
    /\ Len(buffer) < PartSize + MaxChunk

CutInv == Buffered /\ Sliced /\ Short

-----------------------------------------------------------------------------
(* The tasks of the parts: those that run are in flight, none of them has  *)
(* been cancelled within the try block, and what is done is stored.        *)
Tasks ==
    /\ \A k \in Parts : k > cut => task[k] = "none"
    /\ \A k \in Parts : task[k] \in {"running", "cancelling"} => k \in inflight
    /\ \A k \in Parts : task[k] \in {"cancelling", "cancelled"} => pc \in {"unwind", "end"}
    /\ pc = "unwind" => \A k \in Parts : task[k] # "running"
    /\ pc = "end" => \A k \in Parts : task[k] \notin {"running", "cancelling"}
    /\ \A k \in Parts : task[k] = "done" => stored[k] = content[k]

(* A part is in hand exactly between its cut and its submission.           *)
Hand ==
    /\ pc = "create" => cut = 0
    /\ pc \in {"poll", "slot"} => InHand
    /\ pc \in {"create", "read", "cut", "drain", "last_poll", "complete"} => ~InHand

(* No part is lost between the stream and the confirmation, and the parts  *)
(* confirmed without one in hand are the last.                             *)
Kept == pc \notin {"unwind", "end"} =>
    /\ \A k \in Parts : k <= cut => \/ k \in inflight \cup completed \/ task[k] = "done"
                                    \/ k = cut /\ InHand
    /\ pc # "confirm" => completed = {}
    /\ pc = "confirm" => \A k \in completed : task[k] \in {"done", "failed"}
    /\ pc = "confirm" /\ ~InHand => cut = LastPart /\ \A k \in inflight : task[k] = "done"
    /\ pc \in {"drain", "last_poll", "complete"} => cut = LastPart
    /\ pc \in {"last_poll", "complete"} => inflight = {}

Whole == published => pc = "end" /\ cut = LastPart /\ \A k \in Parts : task[k] = "done"

Bounded == Cardinality(inflight) <= Concurrency

IInv == Typed /\ CutInv /\ Tasks /\ Hand /\ Kept /\ Whole /\ Bounded

-----------------------------------------------------------------------------
(* Division by a positive number, as the provers need it. *)
LEMMA DivBounds ==
    ASSUME NEW a \in Nat, NEW b \in Nat \ {0}
    PROVE  a \div b \in Nat /\ b * (a \div b) <= a /\ a < b * (a \div b) + b
  BY SMTT(20)

(* Products with the part size grow by at least one part at a time. *)
LEMMA Grows ==
    ASSUME NEW a \in Nat, NEW b \in Nat, a < b
    PROVE  a * PartSize \in Nat /\ b * PartSize \in Nat /\ a * PartSize + PartSize <= b * PartSize
<1>1. (a + 1) * PartSize <= b * PartSize
  OBVIOUS
<1> QED BY <1>1

(* The last part is the first to reach the end of the stream. *)
LEMMA LastFacts ==
    /\ LastPart \in Nat /\ Parts = 1..LastPart
    /\ \A c \in Nat : c * PartSize < Total => c + 1 <= LastPart
    /\ \A c \in Nat : c * PartSize < Total /\ Total <= c * PartSize + PartSize => c + 1 = LastPart
    /\ \A c \in Nat : c * PartSize = Total => c = LastPart
<1> DEFINE l == LastPart
<1>1. Total + PartSize - 1 \in Nat
  OBVIOUS
<1>2. /\ l \in Nat /\ PartSize * l <= Total + PartSize - 1
      /\ Total + PartSize - 1 < PartSize * l + PartSize
  BY <1>1, DivBounds DEF LastPart
<1> HIDE DEF l
<1>3. Total <= l * PartSize /\ l * PartSize < Total + PartSize
  BY <1>2
<1>4. ASSUME NEW c \in Nat, c * PartSize < Total
      PROVE  c + 1 <= l
  <2>1. c = l \/ l < c \/ c < l
    BY <1>2
  <2> QED BY <1>2, <1>3, <1>4, <2>1, Grows
<1>5. ASSUME NEW c \in Nat, c * PartSize < Total, Total <= c * PartSize + PartSize
      PROVE  c + 1 = l
  <2>1. c + 1 = l \/ l <= c \/ c + 1 < l
    BY <1>2
  <2>2. (c + 1) * PartSize = c * PartSize + PartSize
    OBVIOUS
  <2>3. c + 1 <= l
    BY <1>4, <1>5
  <2>4. ~(c + 1 < l)
    <3>1. c + 1 < l => (c + 1) * PartSize + PartSize <= l * PartSize
      BY <1>2, Grows
    <3> QED BY <1>2, <1>3, <1>5, <2>2, <3>1
  <2> QED BY <1>2, <2>1, <2>3, <2>4
<1>6. ASSUME NEW c \in Nat, c * PartSize = Total
      PROVE  c = l
  <2>1. c < l => c * PartSize + PartSize <= l * PartSize
    BY <1>2, Grows
  <2>2. l < c => l * PartSize + PartSize <= c * PartSize
    BY <1>2, Grows
  <2>3. c * PartSize \in Nat /\ l * PartSize \in Nat
    BY <1>2
  <2> QED BY <1>2, <1>3, <1>6, <2>1, <2>2, <2>3
<1>7. l = LastPart /\ Parts = 1..l
  BY DEF l, LastPart, Parts
<1> QED BY <1>2, <1>4, <1>5, <1>6, <1>7
-----------------------------------------------------------------------------
(* A part that begins at position f is full, or ends with the stream. *)
LEMMA SliceIs ==
    ASSUME NEW k \in Parts, NEW f \in Nat, f = (k - 1) * PartSize, NEW m \in Nat,
           \/ f + PartSize <= Total /\ m = PartSize
           \/ ~(f + PartSize <= Total) /\ m = Total - f
    PROVE  /\ Slice(k) \in Seq(Nat) /\ Len(Slice(k)) = m
           /\ \A i \in 1..m : Slice(k)[i] = f + i - 1
<1>1. /\ f + PartSize <= Total => Slice(k) = [i \in 1..PartSize |-> f + i - 1]
      /\ ~(f + PartSize <= Total) => Slice(k) = [i \in 1..(Total - f) |-> f + i - 1]
  BY Zenon DEF Slice
<1>2. Slice(k) = [i \in 1..m |-> f + i - 1]
  BY <1>1, Zenon
<1>3. \A i \in 1..m : f + i - 1 \in Nat
  OBVIOUS
<1>4. Slice(k) \in Seq(Nat) /\ Len(Slice(k)) = m
  BY <1>2, <1>3
<1> QED BY <1>2, <1>4

(* Cutting the first n bytes off the buffer: a full part, or what is left  *)
(* at the end of the stream.                                               *)
LEMMA CutFacts ==
    ASSUME Typed, CutInv, NEW n \in Nat \ {0}, n <= Len(buffer), CutPart(n),
           n = PartSize \/ (read = Total /\ n = Len(buffer) /\ n < PartSize)
    PROVE  /\ cut + 1 \in Parts /\ cut' = cut + 1
           /\ buffer' \in Seq(Nat) /\ Len(buffer') = Len(buffer) - n
           /\ content' \in [Parts -> Seq(Nat)]
           /\ Buffered' /\ Sliced'
<1> DEFINE first == cut * PartSize
<1>1. /\ read \in Nat /\ read <= Total /\ cut \in Nat /\ Len(buffer) \in Nat
      /\ buffer \in Seq(Nat) /\ first \in Nat
  BY LastFacts DEF Typed
<1>2. read - Len(buffer) = first
  <2>1. buffer # << >>
    BY <1>1
  <2> QED BY <2>1 DEF CutInv, Buffered
<1>3. (cut + 1) * PartSize = first + PartSize
  BY <1>1
<1> HIDE DEF first
<1>4. cut + 1 \in Parts
  <2>1. first < Total
    BY <1>1, <1>2
  <2>2. first = cut * PartSize
    BY DEF first
  <2> QED BY <1>1, <2>1, <2>2, LastFacts
<1>5. /\ buffer' \in Seq(Nat) /\ Len(buffer') = Len(buffer) - n
      /\ \A i \in 1..(Len(buffer) - n) : buffer'[i] = buffer[n + i]
  <2>1. \A i \in (n + 1)..Len(buffer) : buffer[i] \in Nat
    BY <1>1
  <2>2. n + 1 \in Int /\ Len(buffer) \in Int
    BY <1>1
  <2> DEFINE rest == SubSeq(buffer, n + 1, Len(buffer))
  <2>3. /\ rest \in Seq(Nat)
        /\ Len(rest) = IF n + 1 <= Len(buffer) THEN Len(buffer) - (n + 1) + 1 ELSE 0
        /\ \A i \in 1..(Len(buffer) - (n + 1) + 1) : rest[i] = buffer[n + 1 + i - 1]
    BY <2>1, <2>2, SubSeqProperties
  <2>4. buffer' = rest
    BY DEF CutPart
  <2> HIDE DEF rest
  <2> QED BY <1>1, <2>3, <2>4
<1>6. /\ SubSeq(buffer, 1, n) \in Seq(Nat) /\ Len(SubSeq(buffer, 1, n)) = n
      /\ \A i \in 1..n : SubSeq(buffer, 1, n)[i] = first + i - 1
  <2>1. \A i \in 1..n : buffer[i] \in Nat /\ buffer[i] = first + i - 1
    BY <1>1, <1>2 DEF CutInv, Buffered
  <2> DEFINE part == SubSeq(buffer, 1, n)
  <2>2. /\ part \in Seq(Nat) /\ Len(part) = IF 1 <= n THEN n - 1 + 1 ELSE 0
        /\ \A i \in 1..(n - 1 + 1) : part[i] = buffer[1 + i - 1]
    BY <2>1, SubSeqProperties
  <2> HIDE DEF part
  <2>3. /\ part \in Seq(Nat) /\ Len(part) = n
        /\ \A i \in 1..n : part[i] = first + i - 1
    BY <1>1, <2>1, <2>2
  <2> QED BY <2>3 DEF part
<1>7. /\ content' \in [Parts -> Seq(Nat)] /\ content'[cut + 1] = SubSeq(buffer, 1, n)
      /\ \A k \in Parts \ {cut + 1} : content'[k] = content[k]
      /\ cut' = cut + 1 /\ read' = read
  BY <1>4, <1>6 DEF CutPart, Typed
<1>8. SubSeq(buffer, 1, n) = Slice(cut + 1)
  <2>1. \/ first + PartSize <= Total /\ n = PartSize
        \/ ~(first + PartSize <= Total) /\ n = Total - first
    BY <1>1, <1>2
  <2>2. PICK k \in Parts : k = cut + 1
    BY <1>4
  <2>3. first = (k - 1) * PartSize
    <3>1. k - 1 = cut
      BY <1>1, <2>2
    <3> QED BY <3>1, Zenon DEF first
  <2>4. /\ Slice(k) \in Seq(Nat) /\ Len(Slice(k)) = n
        /\ \A i \in 1..n : Slice(k)[i] = first + i - 1
    BY <1>1, <2>1, <2>3, SliceIs
  <2>5. SubSeq(buffer, 1, n) = Slice(k)
    BY <1>6, <2>4, SeqEqual
  <2> QED BY <2>2, <2>5
<1>9. Sliced'
  <2> SUFFICES ASSUME NEW k \in Parts, k <= cut + 1 PROVE content'[k] = Slice(k)
    BY <1>7 DEF Sliced
  <2>1. k = cut + 1 \/ (k <= cut /\ k # cut + 1)
    BY <1>1, LastFacts
  <2> QED BY <1>7, <1>8, <2>1 DEF CutInv, Sliced
<1>10. Buffered'
  <2>0. Len(buffer) <= read /\ \A i \in 1..Len(buffer) : buffer[i] = read - Len(buffer) + i - 1
    BY DEF CutInv, Buffered
  <2>1. Len(buffer') <= read' /\ \A i \in 1..Len(buffer') : buffer'[i] = read' - Len(buffer') + i - 1
    <3> SUFFICES ASSUME NEW i \in 1..(Len(buffer) - n)
                 PROVE  buffer'[i] = read - (Len(buffer) - n) + i - 1
      BY <1>1, <1>5, <1>7, <2>0
    <3>1. n + i \in 1..Len(buffer)
      BY <1>1
    <3>2. buffer'[i] = read - Len(buffer) + (n + i) - 1
      BY <1>5, <2>0, <3>1
    <3> QED BY <1>1, <3>2
  <2>2. n = PartSize => read' - Len(buffer') = cut' * PartSize
    <3>1. n = PartSize => read - (Len(buffer) - n) = first + PartSize
      BY <1>1, <1>2
    <3> QED BY <1>3, <1>5, <1>7, <3>1
  <2>3. n # PartSize => read' = Total /\ buffer' = << >> /\ cut' = LastPart
    <3>1. n # PartSize => first < Total /\ Total <= first + PartSize
      BY <1>1, <1>2
    <3>2. n # PartSize => cut + 1 = LastPart
      BY <1>1, <3>1, LastFacts DEF first
    <3> QED BY <1>1, <1>5, <1>7, <3>2
  <2> QED BY <2>1, <2>2, <2>3 DEF Buffered
<1> QED BY <1>4, <1>5, <1>7, <1>9, <1>10

(* A chunk extends the buffer. *)
LEMMA ReadFacts ==
    ASSUME Typed, CutInv, ReadChunk
    PROVE  /\ read' \in 0..Total /\ buffer' \in Seq(Nat) /\ CutInv'
<1>1. PICK n \in 1..MaxChunk :
         /\ read + n <= Total /\ read' = read + n
         /\ buffer' = buffer \o [i \in 1..n |-> read + i - 1]
  BY DEF ReadChunk
<1> DEFINE chunk == [i \in 1..n |-> read + i - 1]
<1>2. read \in Nat /\ buffer \in Seq(Nat) /\ Len(buffer) \in Nat /\ n \in Nat \ {0}
  BY DEF Typed
<1>3. chunk \in Seq(Nat) /\ Len(chunk) = n /\ \A i \in 1..n : chunk[i] = read + i - 1
  BY <1>2
<1> HIDE DEF chunk
<1>4. /\ buffer' \in Seq(Nat) /\ Len(buffer') = Len(buffer) + n
      /\ \A i \in 1..(Len(buffer) + n) :
            buffer'[i] = IF i <= Len(buffer) THEN buffer[i] ELSE chunk[i - Len(buffer)]
  <2>1. buffer' = buffer \o chunk
    BY <1>1 DEF chunk
  <2> QED BY <1>2, <1>3, <2>1, ConcatProperties
<1>5. UNCHANGED <<content, cut>> /\ pc = "read" /\ pc' = "cut"
  BY DEF ReadChunk, Goto
<1>6. Buffered'
  <2>1. \A i \in 1..Len(buffer') : buffer'[i] = read' - Len(buffer') + i - 1
    <3> SUFFICES ASSUME NEW i \in 1..(Len(buffer) + n)
                 PROVE  buffer'[i] = read - Len(buffer) + i - 1
      <4>1. read' - Len(buffer') = read - Len(buffer)
        BY <1>1, <1>2, <1>4
      <4> QED BY <1>4, <4>1
    <3>1. CASE i <= Len(buffer)
      <4>1. i \in 1..Len(buffer) /\ buffer'[i] = buffer[i]
        BY <1>2, <1>4, <3>1
      <4>2. \A j \in 1..Len(buffer) : buffer[j] = read - Len(buffer) + j - 1
        BY DEF CutInv, Buffered
      <4> QED BY <4>1, <4>2
    <3>2. CASE ~(i <= Len(buffer))
      <4>1. i - Len(buffer) \in 1..n
        BY <1>2, <3>2
      <4>2. buffer'[i] = read + (i - Len(buffer)) - 1
        BY <1>3, <1>4, <3>2, <4>1
      <4> QED BY <1>2, <4>2
    <3> QED BY <3>1, <3>2
  <2>2. read - Len(buffer) = cut * PartSize
    BY <1>1, <1>2 DEF CutInv, Buffered
  <2> QED BY <1>1, <1>2, <1>4, <1>5, <2>1, <2>2 DEF CutInv, Buffered
<1>7. Short' /\ Sliced'
  BY <1>2, <1>4, <1>5 DEF CutInv, Short, Sliced, Slice
<1> QED BY <1>1, <1>2, <1>4, <1>6, <1>7 DEF CutInv
(* What leaves the source alone keeps what is said of it. *)
LEMMA CutKept ==
    ASSUME CutInv, UNCHANGED source,
           pc' \in {"create", "read"} => pc' = pc \/ Len(buffer) < PartSize
    PROVE  CutInv'
BY DEF CutInv, Buffered, Sliced, Slice, Short, source

-----------------------------------------------------------------------------
(* A step of a part's request keeps the invariant. *)
LEMMA PartInv ==
    ASSUME IInv, NEW k \in Parts, PartStep(k)
    PROVE  IInv'
<1>1. UNCHANGED <<pc, source, inflight, completed, published>>
  BY DEF PartStep, SendBytes, PartSucceeds, PartFails, PartCancelled
<1>2. UNCHANGED <<read, buffer, content, cut>>
  BY <1>1 DEF source
<1>3. /\ task[k] \in {"running", "cancelling"}
      /\ task' = [task EXCEPT ![k] = task'[k]] /\ stored' \in [Parts -> Seq(Nat)]
      /\ \A j \in Parts \ {k} : stored'[j] = stored[j]
      /\ \/ task[k] = "running" /\ task'[k] = "done" /\ stored'[k] = content[k]
         \/ task[k] = "running" /\ task'[k] \in {"running", "failed"}
         \/ task[k] = "cancelling" /\ task'[k] = "cancelled"
  BY DEF PartStep, SendBytes, PartSucceeds, PartFails, PartCancelled, Store, IInv, Typed
<1>4. Typed'
  BY <1>1, <1>2, <1>3 DEF IInv, Typed
<1>5. CutInv'
  BY <1>1, CutKept DEF IInv
<1>6. \A j \in Parts \ {k} : task'[j] = task[j]
  BY <1>3 DEF IInv, Typed
<1>7. InHand' <=> InHand
  <2>1. cut > 0 => cut \in Parts
    BY LastFacts DEF IInv, Typed
  <2> QED BY <1>2, <1>3, <1>6, <2>1 DEF InHand
<1>8. Tasks'
  BY <1>1, <1>2, <1>3, <1>6 DEF IInv, Tasks
<1>9. Hand'
  BY <1>1, <1>2, <1>7 DEF IInv, Hand
<1>10. Kept'
  <2> SUFFICES ASSUME pc \notin {"unwind", "end"} PROVE Kept'
    BY <1>1 DEF Kept
  <2>1. Kept /\ task[k] = "running" /\ (task'[k] = "done" \/ task'[k] \in {"running", "failed"})
    BY <1>3 DEF IInv, Tasks
  <2>2. \A j \in Parts : j <= cut =>
            j \in inflight \cup completed \/ task'[j] = "done" \/ (j = cut /\ InHand)
    <3> SUFFICES ASSUME NEW j \in Parts, j <= cut
                 PROVE  j \in inflight \cup completed \/ task'[j] = "done" \/ (j = cut /\ InHand)
      OBVIOUS
    <3>1. j \in inflight \cup completed \/ task[j] = "done" \/ (j = cut /\ InHand)
      BY <2>1 DEF Kept
    <3> QED BY <1>6, <2>1, <3>1
  <2>3. pc = "confirm" => k \notin completed
    BY <2>1 DEF Kept
  <2>4. pc = "confirm" /\ ~InHand => cut = LastPart /\ \A j \in inflight : task'[j] = "done"
    BY <1>6, <2>1 DEF IInv, Typed, Kept
  <2> QED BY <1>1, <1>2, <1>6, <1>7, <2>1, <2>2, <2>3, <2>4 DEF IInv, Typed, Kept
<1>11. Whole' /\ Bounded'
  BY <1>1, <1>2, <1>3, <1>6 DEF IInv, Whole, Bounded
<1> QED BY <1>4, <1>5, <1>8, <1>9, <1>10, <1>11 DEF IInv

(* The finally clause takes over with what is in flight. *)
LEMMA UnwindInv ==
    ASSUME IInv, pc # "end", NEW how, Unwind(how),
           UNCHANGED <<source, inflight, completed, published>>
    PROVE  IInv'
<1>1. /\ pc' = "unwind" /\ UNCHANGED stored
      /\ UNCHANGED <<read, buffer, content, cut>>
      /\ task' = [k \in Parts |-> IF k \in inflight /\ task[k] = "running"
                                  THEN "cancelling" ELSE task[k]]
  BY DEF Unwind, source
<1>2. Typed'
  BY <1>1 DEF IInv, Typed, Label
<1>3. CutInv'
  BY <1>1, CutKept DEF IInv
<1>4. \A k \in Parts : task'[k] # "running" /\ (task'[k] = task[k] \/
                              (task'[k] = "cancelling" /\ task[k] = "running" /\ k \in inflight))
  BY <1>1 DEF IInv, Tasks, Typed
<1>5. Tasks'
  BY <1>1, <1>4 DEF IInv, Tasks
<1>6. Hand' /\ Kept'
  BY <1>1 DEF Hand, Kept
<1>7. Whole' /\ Bounded'
  BY <1>1 DEF IInv, Whole, Bounded
<1> QED BY <1>2, <1>3, <1>5, <1>6, <1>7 DEF IInv

(* A step of upload that leaves the tasks and the source alone: to say so  *)
(* of a label, one has to show what is particular to it.                   *)
LEMMA MoveInv ==
    ASSUME IInv, pc \notin {"unwind", "end"}, pc' \in Label \ {"create", "unwind", "end"},
           UNCHANGED <<source, task, stored, inflight, published>>,
           completed' \subseteq Parts, Hand', Kept',
           pc' = "read" => Len(buffer) < PartSize
    PROVE  IInv'
<1>1. UNCHANGED <<read, buffer, content, cut>>
  BY DEF source
<1>2. Typed'
  BY <1>1 DEF IInv, Typed
<1>3. CutInv'
  BY CutKept DEF IInv
<1>4. Tasks'
  BY <1>1 DEF IInv, Tasks
<1>5. Whole' /\ Bounded'
  BY <1>1 DEF IInv, Whole, Bounded
<1> QED BY <1>2, <1>3, <1>4, <1>5 DEF IInv

(* The end of upload outside the try block: nothing runs. *)
LEMMA EndInv ==
    ASSUME IInv, pc \in {"create", "last_poll", "complete"}, pc' = "end",
           UNCHANGED <<source, task, stored, inflight, completed>>,
           published' = published \/ (pc = "complete" /\ published' \in BOOLEAN)
    PROVE  IInv'
<1>1. UNCHANGED <<read, buffer, content, cut>>
  BY DEF source
<1>2. \A k \in Parts : task[k] \notin {"running", "cancelling"}
  <2>1. CASE pc = "create"
    BY <2>1, LastFacts DEF IInv, Tasks, Hand
  <2>2. CASE pc # "create"
    BY <2>2 DEF IInv, Tasks, Kept
  <2> QED BY <2>1, <2>2
<1>3. pc = "complete" => cut = LastPart /\ \A k \in Parts : task[k] = "done"
  BY LastFacts DEF IInv, Kept, Hand, Typed
<1>4. Typed' /\ CutInv'
  BY <1>1, CutKept DEF IInv, Typed, Label
<1>5. Tasks'
  BY <1>1, <1>2 DEF IInv, Tasks
<1>6. Hand' /\ Kept' /\ Bounded'
  BY DEF Hand, Kept, IInv, Bounded
<1>7. Whole'
  BY <1>1, <1>3 DEF IInv, Whole
<1> QED BY <1>4, <1>5, <1>6, <1>7 DEF IInv

-----------------------------------------------------------------------------
(* The steps of upload. *)

LEMMA CreateInv == ASSUME IInv, Create PROVE IInv'
<1>1. pc = "create" /\ UNCHANGED <<source, task, stored, inflight, completed, published>>
  BY DEF Create
<1>2. CASE Goto("read")
  <2>1. pc' = "read" /\ UNCHANGED <<read, buffer, content, cut>>
    BY <1>1, <1>2 DEF Goto, source
  <2>2. completed' \subseteq Parts /\ Hand' /\ Kept'
    BY <1>1, <2>1 DEF IInv, Typed, Hand, Kept, InHand
  <2>3. Len(buffer) < PartSize
    BY <1>1 DEF IInv, CutInv, Short
  <2> QED BY <1>1, <2>1, <2>2, <2>3, MoveInv DEF Label
<1>3. CASE End("failed")
  BY <1>1, <1>3, EndInv DEF End
<1> QED BY <1>2, <1>3 DEF Create

LEMMA ReadInv == ASSUME IInv, ReadChunk PROVE IInv'
<1>1. /\ pc = "read" /\ pc' = "cut"
      /\ UNCHANGED <<content, cut, task, stored, inflight, completed, published>>
  BY DEF ReadChunk, Goto, requests
<1>2. read' \in 0..Total /\ buffer' \in Seq(Nat) /\ CutInv'
  BY ReadFacts DEF IInv
<1>3. Typed'
  BY <1>1, <1>2 DEF IInv, Typed, Label
<1>4. Tasks' /\ Hand' /\ Kept' /\ Whole' /\ Bounded'
  BY <1>1 DEF IInv, Tasks, Hand, Kept, InHand, Whole, Bounded
<1> QED BY <1>2, <1>3, <1>4 DEF IInv

(* A part that was cut is in hand. *)
LEMMA CutInHand ==
    ASSUME IInv, pc \in {"cut", "read"}, NEW n \in Nat \ {0}, n <= Len(buffer), CutPart(n),
           n = PartSize \/ (read = Total /\ n = Len(buffer) /\ n < PartSize),
           pc' = "poll", UNCHANGED <<task, stored, inflight, completed, published>>
    PROVE  IInv'
<1>1. /\ cut + 1 \in Parts /\ cut' = cut + 1
      /\ buffer' \in Seq(Nat) /\ Len(buffer') = Len(buffer) - n
      /\ content' \in [Parts -> Seq(Nat)]
      /\ Buffered' /\ Sliced'
  BY CutFacts DEF IInv
<1>2. /\ cut \in Nat /\ Len(buffer) \in Nat /\ UNCHANGED read
      /\ \A k \in Parts \ {cut + 1} : content'[k] = content[k]
  BY LastFacts DEF IInv, Typed, CutPart
<1>3. Short'
  BY <1>1, <1>2 DEF IInv, CutInv, Short
<1>4. task[cut + 1] = "none"
  BY <1>1, <1>2 DEF IInv, Tasks
<1>5. Typed'
  BY <1>1, <1>2, LastFacts DEF IInv, Typed, Label
<1>6. Tasks'
  <2>1. \A k \in Parts : k > cut' => task'[k] = "none"
    BY <1>1, <1>2, LastFacts DEF IInv, Tasks
  <2>2. \A k \in Parts : task[k] = "done" => k # cut + 1
    BY <1>4
  <2> QED BY <1>2, <2>1, <2>2 DEF IInv, Tasks
<1>7. InHand'
  BY <1>1, <1>2, <1>4 DEF InHand
<1>8. Hand'
  BY <1>7 DEF Hand
<1>9. Kept'
  <2>1. ~InHand
    BY DEF IInv, Hand
  <2>2. \A k \in Parts : k <= cut + 1 => k = cut + 1 \/ k <= cut
    BY <1>2, LastFacts
  <2> QED BY <1>1, <1>7, <2>1, <2>2 DEF IInv, Kept
<1>10. Whole' /\ Bounded'
  BY DEF IInv, Whole, Bounded
<1> QED BY <1>1, <1>3, <1>5, <1>6, <1>8, <1>9, <1>10 DEF IInv, CutInv

LEMMA NextPartInv == ASSUME IInv, NextPart PROVE IInv'
<1>1. UNCHANGED <<task, stored, inflight, completed, published>> /\ pc \in {"cut", "read"}
  BY DEF NextPart, requests
<1>2. Len(buffer) \in Nat /\ buffer \in Seq(Nat) /\ completed \subseteq Parts
  BY DEF IInv, Typed
<1>3. CASE pc = "cut" /\ Len(buffer) >= PartSize /\ CutPart(PartSize) /\ Goto("poll")
  BY <1>1, <1>2, <1>3, CutInHand DEF Goto
<1>4. CASE pc = "cut" /\ Len(buffer) < PartSize /\ Goto("read") /\ UNCHANGED source
  <2>1. pc' = "read" /\ UNCHANGED <<read, buffer, content, cut>>
    BY <1>4 DEF Goto, source
  <2>2. Hand' /\ Kept'
    BY <1>1, <1>4, <2>1 DEF IInv, Hand, Kept, InHand
  <2> QED BY <1>1, <1>2, <1>4, <2>1, <2>2, MoveInv DEF Label
<1>5. CASE pc = "read" /\ read = Total /\ buffer # << >> /\ CutPart(Len(buffer)) /\ Goto("poll")
  <2>1. Len(buffer) \in Nat \ {0}
    BY <1>2, <1>5
  <2>2. Len(buffer) < PartSize /\ pc' = "poll"
    BY <1>5 DEF IInv, CutInv, Short, Goto
  <2> QED BY <1>1, <1>5, <2>1, <2>2, CutInHand
<1>6. CASE pc = "read" /\ read = Total /\ buffer = << >> /\ Goto("drain") /\ UNCHANGED source
  <2>1. pc' = "drain" /\ UNCHANGED <<read, buffer, content, cut>>
    BY <1>6 DEF Goto, source
  <2>2. cut = LastPart
    <3>1. cut \in Nat /\ Len(buffer) = 0
      BY <1>6, LastFacts DEF IInv, Typed
    <3>2. cut * PartSize \in Nat
      BY <3>1
    <3>3. cut * PartSize = Total \/ cut = LastPart
      BY <1>6, <3>1, <3>2 DEF IInv, CutInv, Buffered
    <3> QED BY <3>1, <3>3, LastFacts
  <2>3. Hand' /\ Kept'
    BY <1>1, <1>6, <2>1, <2>2 DEF IInv, Hand, Kept, InHand
  <2> QED BY <1>1, <1>2, <1>6, <2>1, <2>3, MoveInv DEF Label
<1> QED BY <1>3, <1>4, <1>5, <1>6 DEF NextPart

LEMMA PollInv == ASSUME IInv, Poll PROVE IInv'
<1>1. pc = "poll" /\ UNCHANGED <<source, inflight, completed, published>>
  BY DEF Poll
<1>2. CASE Unwind("cancelled")
  BY <1>1, <1>2, UnwindInv
<1>3. CASE Goto("slot") /\ UNCHANGED requests
  <2>1. pc' = "slot" /\ UNCHANGED <<task, stored, cut>>
    BY <1>1, <1>3 DEF Goto, requests, source
  <2>2. completed' \subseteq Parts /\ Hand' /\ Kept'
    BY <1>1, <2>1 DEF IInv, Typed, Hand, Kept, InHand
  <2> QED BY <1>1, <2>1, <2>2, MoveInv DEF Label
<1> QED BY <1>2, <1>3 DEF Poll

(* What is in flight is a finite set, and so is every part of it. *)
LEMMA FlightFinite ==
    ASSUME Typed
    PROVE  /\ IsFiniteSet(inflight) /\ Cardinality(inflight) \in Nat
           /\ \A S \in SUBSET inflight : Cardinality(S) \in Nat
                                         /\ Cardinality(S) <= Cardinality(inflight)
<1>1. IsFiniteSet(Parts)
  BY LastFacts, FS_Interval
<1>2. IsFiniteSet(inflight)
  BY <1>1, FS_Subset DEF Typed
<1> QED BY <1>2, FS_Subset, FS_CardinalityType

LEMMA SubmitInv == ASSUME IInv, Submit PROVE IInv'
<1>1. /\ pc = "slot" /\ pc' = "cut" /\ InHand
      /\ UNCHANGED <<read, buffer, content, cut, stored, completed, published>>
      /\ task' = [task EXCEPT ![cut] = "running"] /\ inflight' = inflight \cup {cut}
  BY DEF Submit, Goto, source, IInv, Hand
<1>2. cut \in Parts /\ task[cut] = "none"
  BY <1>1, LastFacts DEF IInv, Typed, InHand
<1>3. task'[cut] = "running" /\ \A k \in Parts \ {cut} : task'[k] = task[k]
  BY <1>1, <1>2 DEF IInv, Typed
<1>4. Typed'
  BY <1>1, <1>2 DEF IInv, Typed, Label
<1>5. CutInv'
  BY <1>1, CutKept DEF IInv, source
<1>6. Tasks'
  <2>1. \A k \in Parts : k > cut => k # cut
    BY LastFacts DEF IInv, Typed
  <2> QED BY <1>1, <1>3, <2>1 DEF IInv, Tasks
<1>7. Hand'
  BY <1>1, <1>3 DEF Hand, InHand
<1>8. Kept'
  BY <1>1, <1>3 DEF IInv, Kept
<1>9. Bounded'
  <2>1. Cardinality(inflight) < Concurrency /\ Cardinality(inflight) \in Nat /\ IsFiniteSet(inflight)
    BY FlightFinite DEF IInv, Submit, SlotFree
  <2>2. Cardinality(inflight \cup {cut}) =
           IF cut \in inflight THEN Cardinality(inflight) ELSE Cardinality(inflight) + 1
    BY <2>1, FS_AddElement
  <2> QED BY <1>1, <2>1, <2>2 DEF Bounded
<1>10. Whole'
  BY <1>1 DEF IInv, Whole
<1> QED BY <1>4, <1>5, <1>6, <1>7, <1>8, <1>9, <1>10 DEF IInv

LEMMA WaitInv == ASSUME IInv, WaitForOne PROVE IInv'
<1>1. /\ pc = "slot" /\ pc' = "confirm" /\ InHand
      /\ UNCHANGED <<read, buffer, content, cut, task, stored, published>>
      /\ completed' = Ended /\ inflight' = inflight \ Ended
  BY DEF WaitForOne, Goto, source, requests, IInv, Hand
<1>2. InHand'
  BY <1>1 DEF InHand
<1>3. Typed'
  BY <1>1 DEF IInv, Typed, Label, Ended
<1>4. CutInv'
  BY <1>1, CutKept DEF IInv, source
<1>5. Tasks'
  BY <1>1 DEF IInv, Tasks, Ended
<1>6. Hand'
  BY <1>1 DEF Hand
<1>7. Kept'
  BY <1>1, <1>2 DEF IInv, Kept, Ended
<1>8. Bounded'
  <2>1. /\ Cardinality(inflight \ Ended) <= Cardinality(inflight)
        /\ Cardinality(inflight \ Ended) \in Nat /\ Cardinality(inflight) \in Nat
    BY FlightFinite DEF IInv
  <2> QED BY <1>1, <2>1 DEF IInv, Bounded
<1>9. Whole'
  BY <1>1 DEF IInv, Whole
<1> QED BY <1>3, <1>4, <1>5, <1>6, <1>7, <1>8, <1>9 DEF IInv

LEMMA DrainInv == ASSUME IInv, Drain PROVE IInv'
<1>1. pc = "drain" /\ UNCHANGED <<source, inflight, published>>
  BY DEF Drain
<1>2. CASE AllDone /\ completed' = inflight /\ Goto("confirm") /\ UNCHANGED requests
  <2>1. pc' = "confirm" /\ UNCHANGED <<task, stored, cut>>
    BY <1>1, <1>2 DEF Goto, requests, source
  <2>2. completed' \subseteq Parts /\ Hand' /\ Kept'
    BY <1>1, <1>2, <2>1 DEF IInv, Typed, Hand, Kept, InHand, AllDone
  <2> QED BY <1>1, <2>1, <2>2, MoveInv DEF Label
<1>3. CASE Unwind("failed") /\ UNCHANGED completed
  BY <1>1, <1>3, UnwindInv
<1> QED BY <1>2, <1>3 DEF Drain

LEMMA ConfirmInv == ASSUME IInv, Confirm PROVE IInv'
<1>1. pc = "confirm" /\ UNCHANGED <<source, inflight, published>>
  BY DEF Confirm
<1>2. PICK k \in completed :
         \/ task[k] = "failed" /\ Unwind("failed") /\ UNCHANGED completed
         \/ /\ task[k] # "failed" /\ completed' = completed \ {k}
            /\ UNCHANGED <<pc, requests>>
  BY DEF Confirm
<1>3. CASE Unwind("failed") /\ UNCHANGED completed
  BY <1>1, <1>3, UnwindInv
<1>4. CASE task[k] # "failed" /\ completed' = completed \ {k} /\ UNCHANGED <<pc, requests>>
  <2>1. pc' = "confirm" /\ UNCHANGED <<task, stored, cut>>
    BY <1>1, <1>4 DEF requests, source
  <2>2. completed' \subseteq Parts /\ Hand' /\ Kept'
    BY <1>1, <1>4, <2>1 DEF IInv, Typed, Hand, Kept, InHand
  <2> QED BY <1>1, <2>1, <2>2, MoveInv DEF Label
<1> QED BY <1>2, <1>3, <1>4

(* Back to the part in hand, or out of the try block with nothing left. *)
LEMMA ConfirmedInv == ASSUME IInv, Confirmed PROVE IInv'
<1>1. /\ pc = "confirm" /\ completed = {}
      /\ UNCHANGED <<source, task, stored, completed, published>>
  BY DEF Confirmed, requests
<1>2. UNCHANGED <<read, buffer, content, cut>>
  BY <1>1 DEF source
<1>3. CASE InHand /\ Goto("slot") /\ UNCHANGED inflight
  <2>1. pc' = "slot"
    BY <1>3 DEF Goto
  <2>2. completed' \subseteq Parts /\ Hand' /\ Kept'
    BY <1>1, <1>2, <1>3, <2>1 DEF IInv, Typed, Hand, Kept, InHand
  <2> QED BY <1>1, <1>3, <2>1, <2>2, MoveInv DEF Label
<1>4. CASE ~InHand /\ inflight' = {} /\ Goto("last_poll")
  <2>1. pc' = "last_poll" /\ ~InHand'
    BY <1>1, <1>2, <1>4 DEF Goto, InHand
  <2>2. cut = LastPart /\ \A k \in Parts : k <= cut => task[k] = "done"
    BY <1>1, <1>4 DEF IInv, Kept
  <2>3. \A k \in Parts : task[k] = "done"
    BY <2>2, LastFacts
  <2>4. Typed'
    BY <1>1, <1>2, <1>4, <2>1 DEF IInv, Typed, Label
  <2>5. CutInv'
    BY <1>1, <2>1, CutKept DEF IInv
  <2>6. Tasks'
    BY <1>1, <1>2, <2>1, <2>3 DEF IInv, Tasks
  <2>7. Hand' /\ Kept'
    BY <1>1, <1>2, <1>4, <2>1, <2>2 DEF Hand, Kept
  <2>8. Bounded'
    BY <1>4, FS_EmptySet DEF Bounded
  <2>9. Whole'
    BY <1>1 DEF IInv, Whole
  <2> QED BY <2>4, <2>5, <2>6, <2>7, <2>8, <2>9 DEF IInv
<1> QED BY <1>3, <1>4 DEF Confirmed

LEMMA LastPollInv == ASSUME IInv, LastPoll PROVE IInv'
<1>1. pc = "last_poll" /\ UNCHANGED <<source, task, stored, inflight, completed, published>>
  BY DEF LastPoll, requests
<1>2. CASE End("cancelled")
  BY <1>1, <1>2, EndInv DEF End
<1>3. CASE Goto("complete")
  <2>1. pc' = "complete" /\ UNCHANGED cut
    BY <1>1, <1>3 DEF Goto, source
  <2>2. completed' \subseteq Parts /\ Hand' /\ Kept'
    BY <1>1, <2>1 DEF IInv, Typed, Hand, Kept, InHand
  <2> QED BY <1>1, <2>1, <2>2, MoveInv DEF Label
<1> QED BY <1>2, <1>3 DEF LastPoll

LEMMA CompleteInv == ASSUME IInv, Complete PROVE IInv'
<1>1. /\ pc = "complete" /\ pc' = "end" /\ published' \in BOOLEAN
      /\ UNCHANGED <<source, task, stored, inflight, completed>>
  BY DEF Complete, End
<1> QED BY <1>1, EndInv

LEMMA UnwoundInv == ASSUME IInv, Unwound PROVE IInv'
<1>1. /\ pc = "unwind" /\ Quiet /\ pc' = "end" /\ inflight' = {}
      /\ UNCHANGED <<read, buffer, content, cut, task, stored, completed, published>>
  BY DEF Unwound, source, requests
<1>2. \A k \in Parts : task[k] \notin {"running", "cancelling"}
  BY <1>1 DEF IInv, Tasks, Quiet
<1>3. Typed' /\ CutInv'
  BY <1>1, CutKept DEF IInv, Typed, Label, source
<1>4. Tasks'
  BY <1>1, <1>2 DEF IInv, Tasks
<1>5. Hand' /\ Kept' /\ Whole'
  BY <1>1 DEF Hand, Kept, IInv, Whole
<1>6. Bounded'
  BY <1>1, FS_EmptySet DEF Bounded
<1> QED BY <1>3, <1>4, <1>5, <1>6 DEF IInv

-----------------------------------------------------------------------------
(* A cancellation, at whichever await it comes. *)
LEMMA CancelInv == ASSUME IInv, CancelTask PROVE IInv'
<1>1. UNCHANGED <<source, inflight, completed>>
  BY DEF CancelTask
<1>2. CASE pc \in {"create", "last_poll", "complete"}
  <2>1. /\ pc' = "end" /\ UNCHANGED <<task, stored>>
        /\ published' = published \/ (pc = "complete" /\ published' \in BOOLEAN)
    BY <1>2 DEF CancelTask, End, requests
  <2> QED BY <1>1, <1>2, <2>1, EndInv
<1>3. CASE pc \notin {"create", "last_poll", "complete"}
  <2>1. pc # "end" /\ Unwind("cancelled") /\ UNCHANGED published
    BY <1>3 DEF CancelTask
  <2> QED BY <1>1, <2>1, UnwindInv
<1> QED BY <1>2, <1>3

(* A step that changes none of the variables of the argument. *)
LEMMA IdleInv ==
    ASSUME IInv, UNCHANGED <<pc, source, task, stored, inflight, completed, published>>
    PROVE  IInv'
<1>1. UNCHANGED <<read, buffer, content, cut>>
  BY DEF source
<1>2. Typed' /\ CutInv'
  BY <1>1, CutKept DEF IInv, Typed
<1>3. Tasks' /\ Hand' /\ Kept' /\ Whole' /\ Bounded'
  BY <1>1 DEF IInv, Tasks, Hand, Kept, InHand, Whole, Bounded
<1> QED BY <1>2, <1>3 DEF IInv

LEMMA InitInv == Init => IInv
<1> SUFFICES ASSUME Init PROVE IInv
  OBVIOUS
<1>1. Typed
  <2>1. << >> \in Seq(Nat)
    OBVIOUS
  <2>2. content \in [Parts -> Seq(Nat)] /\ stored \in [Parts -> Seq(Nat)] /\ buffer \in Seq(Nat)
    BY <2>1 DEF Init
  <2>3. read \in 0..Total /\ cut \in 0..LastPart
    BY LastFacts DEF Init
  <2> QED BY <2>2, <2>3 DEF Init, Typed, Label
<1>2. CutInv
  <2>1. Buffered
    BY DEF Init, Buffered
  <2>2. Sliced
    BY LastFacts DEF Init, Sliced
  <2>3. Short
    BY DEF Init, Short
  <2> QED BY <2>1, <2>2, <2>3 DEF CutInv
<1>3. Tasks /\ Hand /\ Whole
  BY DEF Init, Tasks, Hand, InHand, Whole
<1>4. Kept
  BY LastFacts DEF Init, Kept
<1>5. Bounded
  BY FS_EmptySet DEF Init, Bounded
<1> QED BY <1>1, <1>2, <1>3, <1>4, <1>5 DEF IInv

LEMMA StepInv == IInv /\ [Next]_vars => IInv'
<1> SUFFICES ASSUME IInv, [Next]_vars PROVE IInv'
  OBVIOUS
<1>1. CASE \E k \in Parts : PartStep(k)
  BY <1>1, PartInv
<1>2. CASE SourceFails
  <2>1. pc = "read" /\ Unwind("failed") /\ UNCHANGED <<source, inflight, completed, published>>
    BY <1>2 DEF SourceFails
  <2> QED BY <2>1, UnwindInv
<1>3. CASE UploadStep /\ ~SourceFails
  BY <1>3, CreateInv, ReadInv, NextPartInv, PollInv, SubmitInv, WaitInv, DrainInv,
     ConfirmInv, ConfirmedInv, LastPollInv, CompleteInv, UnwoundInv DEF UploadStep
<1>4. CASE RequestCancel
  BY <1>4, IdleInv DEF RequestCancel, requests
<1>5. CASE CancelTask
  BY <1>5, CancelInv
<1>6. CASE UNCHANGED vars
  BY <1>6, IdleInv DEF vars, requests
<1> QED BY <1>1, <1>2, <1>3, <1>4, <1>5, <1>6 DEF Next

(* The invariant of the whole argument.                                    *)
THEOREM UploadInvariant == Spec => []IInv
<1> QED BY InitInv, StepInv, PTL DEF Spec

(***************************************************************************)
(* Buzzheavier is told that an upload is complete only when it stores      *)
(* every part as the slice of the stream it stands for: each byte once and *)
(* in its place, however the stream was chunked and whatever requests      *)
(* failed, were sent again or lost their answer.                           *)
(***************************************************************************)
THEOREM UploadWhole == Spec => []PublishedWhole
<1>1. IInv => PublishedWhole
  <2> SUFFICES ASSUME IInv, published, NEW k \in Parts PROVE stored[k] = Slice(k)
    BY DEF PublishedWhole
  <2>1. cut = LastPart /\ task[k] = "done"
    BY DEF IInv, Whole
  <2>2. stored[k] = content[k]
    BY <2>1 DEF IInv, Tasks
  <2>3. content[k] = Slice(k)
    BY <2>1, LastFacts DEF IInv, CutInv, Sliced
  <2> QED BY <2>2, <2>3
<1> QED BY <1>1, UploadInvariant, PTL

(***************************************************************************)
(* At most part_concurrency requests run at a time, those that are being   *)
(* cancelled included, and the buffer of _parts stays below a part and a   *)
(* chunk.                                                                  *)
(***************************************************************************)
THEOREM UploadBounded == Spec => []MemoryBound
<1>1. IInv => MemoryBound
  <2> SUFFICES ASSUME IInv PROVE MemoryBound
    OBVIOUS
  <2> DEFINE busy == {k \in Parts : task[k] \in {"running", "cancelling"}}
  <2>1. busy \subseteq inflight
    BY DEF IInv, Tasks
  <2>2. /\ Cardinality(busy) \in Nat /\ Cardinality(inflight) \in Nat
        /\ Cardinality(busy) <= Cardinality(inflight)
    BY <2>1, FlightFinite DEF IInv
  <2>3. Cardinality(inflight) <= Concurrency
    BY DEF IInv, Bounded
  <2>4. Len(buffer) < PartSize + MaxChunk
    BY DEF IInv, CutInv, Short
  <2>5. Cardinality(busy) <= Concurrency
    <3> HIDE DEF busy
    <3> QED BY <2>2, <2>3
  <2> QED BY <2>4, <2>5 DEF MemoryBound
<1> QED BY <1>1, UploadInvariant, PTL

(***************************************************************************)
(* However upload ends, by returning, by an error of the source or of a    *)
(* part, or by a cancellation, none of its requests is still running.      *)
(***************************************************************************)
THEOREM UploadQuiet == Spec => []NothingLeftSending
<1>1. IInv => NothingLeftSending
  BY DEF IInv, Tasks, NothingLeftSending
<1> QED BY <1>1, UploadInvariant, PTL

-----------------------------------------------------------------------------
(* The progress of the upload.  Every byte that is counted belongs to a    *)
(* part that was cut: to its progress while it is not confirmed, to        *)
(* confirmed from then on, never to both.                                  *)
Cuts == [k \in Parts |-> Len(content[k])]

Settled == {k \in Parts : /\ task[k] = "done" /\ k \notin completed
                          /\ k \notin inflight \/ (pc = "confirm" /\ ~InHand)}

Progress == SumFunction(partProgress)

(* What is sent, and counted, of a part is not more than the part.         *)
Sends ==
    /\ sent \in [Parts -> Nat] /\ partProgress \in [Parts -> Nat]
    /\ \A k \in Parts : sent[k] <= Len(content[k]) /\ partProgress[k] <= Len(content[k])

(* The parts are what was read and is not in the buffer any more.          *)
Shares ==
    /\ \A k \in Parts : k > cut => content[k] = << >>
    /\ SumFunction(Cuts) + Len(buffer) = read

(* What is confirmed are the parts that were, and none of them twice.      *)
Counted ==
    /\ pc = "confirm" /\ InHand => completed \cap inflight = {}
    /\ pc \notin {"unwind", "end"} =>
          /\ confirmed = SumFunctionOnSet(Cuts, Settled)
          /\ \A k \in Settled : partProgress[k] = 0

Within ==
    /\ confirmed \in Nat /\ reported \in Nat
    /\ reported <= confirmed + Progress /\ confirmed + Progress <= Total

ProgressInv == Sends /\ Shares /\ Counted /\ Within

LEMMA PartsFinite == IsFiniteSet(Parts)
  BY LastFacts, FS_Interval

(* Parts that count in full, and others that count in part, are not more   *)
(* than all parts in full.                                                 *)
LEMMA CountedOnce ==
    ASSUME NEW c \in [Parts -> Nat], NEW p \in [Parts -> Nat], NEW S \in SUBSET Parts,
           \A k \in Parts : p[k] <= c[k], \A k \in S : p[k] = 0
    PROVE  /\ SumFunctionOnSet(c, S) \in Nat /\ SumFunction(p) \in Nat /\ SumFunction(c) \in Nat
           /\ SumFunctionOnSet(c, S) + SumFunction(p) <= SumFunction(c)
<1> DEFINE R == Parts \ S
<1>1. IsFiniteSet(Parts) /\ IsFiniteSet(S) /\ IsFiniteSet(R) /\ R \in SUBSET Parts
  BY PartsFinite, FS_Subset
<1>2. /\ SumFunction(p) = SumFunctionOnSet(p, S) + SumFunctionOnSet(p, R)
      /\ SumFunction(c) = SumFunctionOnSet(c, S) + SumFunctionOnSet(c, R)
  <2>1. SumFunction(p) = SumFunctionOnSet(p, Parts) /\ SumFunction(c) = SumFunctionOnSet(c, Parts)
    BY DEF SumFunction
  <2> QED BY <1>1, <2>1, SumSplit
<1> HIDE DEF R
<1>3. SumFunctionOnSet(p, S) = 0
  BY <1>1, SumZero
<1>4. SumFunctionOnSet(p, R) <= SumFunctionOnSet(c, R)
  BY <1>1, SumLeq
<1>5. /\ SumFunctionOnSet(c, S) \in Nat /\ SumFunctionOnSet(c, R) \in Nat
      /\ SumFunctionOnSet(p, R) \in Nat
  BY <1>1, SumType
<1> QED BY <1>2, <1>3, <1>4, <1>5

LEMMA CutsType == ASSUME Typed PROVE Cuts \in [Parts -> Nat]
  <1>1. \A k \in Parts : Len(content[k]) \in Nat
    BY DEF Typed
  <1> QED BY <1>1 DEF Cuts

(* A step that counts nothing, and takes no part into or out of those that *)
(* are settled.                                                            *)
LEMMA QuietProgress ==
    ASSUME Typed, ProgressInv, UNCHANGED <<read, buffer, content, cut, partProgress, confirmed>>,
           UNCHANGED reported,
           sent' \in [Parts -> Nat], \A k \in Parts : sent'[k] <= Len(content[k]),
           pc' = "confirm" /\ InHand' => completed' \cap inflight' = {},
           pc' \notin {"unwind", "end"} => pc \notin {"unwind", "end"} /\ Settled' = Settled
    PROVE  ProgressInv'
<1>1. Cuts' = Cuts /\ Progress' = Progress
  BY DEF Cuts, Progress
<1>2. Sends' /\ Shares' /\ Within'
  BY <1>1 DEF ProgressInv, Sends, Shares, Within
<1>3. Counted'
  BY <1>1 DEF ProgressInv, Counted
<1> QED BY <1>2, <1>3 DEF ProgressInv

(* Bytes are sent, and counted unless an earlier attempt got as far.       *)
LEMMA SendProgress ==
    ASSUME IInv, ProgressInv, NEW k \in Parts, SendBytes(k)
    PROVE  ProgressInv' /\ reported' >= reported
<1>1. /\ task[k] = "running" /\ pc \notin {"unwind", "end"}
      /\ UNCHANGED <<pc, read, buffer, content, cut, task, inflight, completed, confirmed>>
  BY DEF SendBytes, source, IInv, Tasks
<1>2. PICK n \in 1..MaxChunk : sent[k] + n <= Len(content[k]) /\ sent' = [sent EXCEPT ![k] = @ + n]
  BY DEF SendBytes
<1>3. Sends /\ Typed /\ Len(content[k]) \in Nat
  BY DEF ProgressInv, IInv, Typed
<1>4. sent' \in [Parts -> Nat] /\ \A j \in Parts : sent'[j] <= Len(content[j])
  BY <1>2, <1>3 DEF Sends
<1>5. /\ Furthest(k) \in Nat /\ Furthest(k) <= Len(content[k]) /\ partProgress[k] <= Furthest(k)
      /\ partProgress' = [partProgress EXCEPT ![k] = Furthest(k)]
  BY <1>3, <1>4 DEF SendBytes, Furthest, Sends
<1>6. Sends'
  BY <1>1, <1>3, <1>4, <1>5 DEF Sends
<1>7. Cuts' = Cuts /\ Settled' = Settled /\ Cuts \in [Parts -> Nat] /\ k \notin Settled
  BY <1>1, <1>3, CutsType DEF Cuts, Settled, InHand
<1>8. Shares'
  BY <1>1, <1>7 DEF ProgressInv, Shares
<1>9. \A j \in Settled : partProgress'[j] = 0
  BY <1>1, <1>3, <1>5, <1>7 DEF ProgressInv, Counted, Sends, Settled
<1>10. Counted'
  BY <1>1, <1>7, <1>9 DEF ProgressInv, Counted, InHand
<1>11. Progress \in Nat /\ Progress' \in Nat /\ Progress <= Progress'
  <2>1. /\ partProgress \in [Parts -> Nat] /\ partProgress' \in [Parts -> Nat]
        /\ \A j \in Parts \ {k} : partProgress[j] = partProgress'[j]
        /\ partProgress[k] \in Nat /\ partProgress'[k] = Furthest(k)
    BY <1>3, <1>5 DEF Sends
  <2>2. PICK rest \in Nat : /\ SumFunction(partProgress) = partProgress[k] + rest
                            /\ SumFunction(partProgress') = partProgress'[k] + rest
    BY <2>1, PartsFinite, SumReplace
  <2>3. Progress = partProgress[k] + rest /\ Progress' = Furthest(k) + rest
    BY <2>1, <2>2 DEF Progress
  <2> QED BY <1>5, <2>1, <2>3
<1>12. confirmed + Progress' <= Total
  <2>1. confirmed = SumFunctionOnSet(Cuts, Settled)
    BY <1>1 DEF ProgressInv, Counted
  <2>2. /\ partProgress' \in [Parts -> Nat] /\ Settled \in SUBSET Parts
        /\ \A j \in Parts : partProgress'[j] <= Cuts[j]
    BY <1>1, <1>6 DEF Sends, Settled, Cuts
  <2>3. SumFunctionOnSet(Cuts, Settled) + SumFunction(partProgress') <= SumFunction(Cuts)
        /\ SumFunction(Cuts) \in Nat
    BY <1>7, <1>9, <2>2, CountedOnce
  <2>4. SumFunction(Cuts) <= Total
    <3>1. SumFunction(Cuts) + Len(buffer) = read /\ read <= Total /\ Len(buffer) \in Nat /\ read \in Nat
      BY <1>3 DEF ProgressInv, Shares, Typed
    <3> QED BY <2>3, <3>1
  <2>5. confirmed \in Nat
    BY DEF ProgressInv, Within
  <2> QED BY <1>11, <2>1, <2>3, <2>4, <2>5 DEF Progress
<1>13. reported' \in {reported, confirmed + Progress'}
  BY DEF SendBytes, Progress
<1>14. Within' /\ reported' >= reported
  <2>1. /\ confirmed \in Nat /\ reported \in Nat /\ confirmed' = confirmed
        /\ reported <= confirmed + Progress
    BY <1>1 DEF ProgressInv, Within
  <2>2. reported' \in Nat /\ reported' <= confirmed + Progress' /\ reported' >= reported
    <3> DEFINE p == Progress
               q == Progress'
    <3>1. p \in Nat /\ q \in Nat /\ p <= q /\ reported <= confirmed + p
      BY <1>11, <2>1
    <3>2. reported' = reported \/ reported' = confirmed + q
      BY <1>13
    <3> HIDE DEF p, q
    <3>3. reported' \in Nat /\ reported' <= confirmed + q /\ reported' >= reported
      BY <2>1, <3>1, <3>2
    <3> QED BY <3>3 DEF q
  <2> QED BY <1>12, <2>1, <2>2 DEF Within
<1> QED BY <1>6, <1>8, <1>10, <1>14 DEF ProgressInv

(* The other steps of a part count nothing: a part that succeeds is still  *)
(* to be confirmed.                                                        *)
LEMMA PartProgress ==
    ASSUME IInv, ProgressInv, NEW k \in Parts,
           PartSucceeds(k) \/ PartFails(k) \/ PartCancelled(k)
    PROVE  ProgressInv'
<1>1. /\ UNCHANGED <<pc, read, buffer, content, cut, inflight, completed>>
      /\ UNCHANGED <<partProgress, confirmed, reported>>
  BY DEF PartSucceeds, PartFails, PartCancelled, source, progress
<1>2. /\ task' = [task EXCEPT ![k] = task'[k]]
      /\ \/ task[k] = "running" /\ task'[k] \in {"done", "running", "failed"}
         \/ task[k] = "cancelling" /\ task'[k] = "cancelled"
  BY DEF PartSucceeds, PartFails, PartCancelled, IInv, Typed
<1>3. sent' = sent \/ sent' = [sent EXCEPT ![k] = 0]
  BY DEF PartSucceeds, PartFails, PartCancelled
<1>4. sent' \in [Parts -> Nat] /\ \A j \in Parts : sent'[j] <= Len(content[j])
  <2>1. sent \in [Parts -> Nat] /\ \A j \in Parts : sent[j] <= Len(content[j])
    BY DEF ProgressInv, Sends
  <2>2. \A j \in Parts : Len(content[j]) \in Nat
    BY DEF IInv, Typed
  <2> QED BY <1>3, <2>1, <2>2
<1>5. \A j \in Parts \ {k} : task'[j] = task[j]
  BY <1>2 DEF IInv, Typed
<1>6. InHand' <=> InHand
  <2>1. cut > 0 => cut \in Parts
    BY LastFacts DEF IInv, Typed
  <2> QED BY <1>1, <1>2, <1>5, <2>1 DEF InHand
<1>7. ASSUME pc \notin {"unwind", "end"} PROVE Settled' = Settled
  <2>1. task[k] = "running" /\ k \in inflight
    BY <1>2, <1>7 DEF IInv, Tasks
  <2>2. ~(pc = "confirm" /\ ~InHand)
    BY <1>7, <2>1 DEF IInv, Kept
  <2> QED BY <1>1, <1>2, <1>5, <1>6, <2>1, <2>2 DEF Settled
<1>8. pc = "confirm" /\ InHand => completed \cap inflight = {}
  BY DEF ProgressInv, Counted
<1> QED BY <1>1, <1>4, <1>6, <1>7, <1>8, QuietProgress DEF IInv

(* An upload that ends, or begins to, counts nothing any more. *)
LEMMA EndProgress ==
    ASSUME IInv, ProgressInv, pc' \in {"unwind", "end"}, UNCHANGED <<source, sent, progress>>
    PROVE  ProgressInv'
<1>1. /\ UNCHANGED <<read, buffer, content, cut, partProgress, confirmed>>
      /\ UNCHANGED <<reported, sent>>
  BY DEF source, progress
<1>2. sent \in [Parts -> Nat] /\ \A k \in Parts : sent[k] <= Len(content[k])
  BY DEF ProgressInv, Sends
<1> QED BY <1>1, <1>2, QuietProgress DEF IInv

(* So does a step of upload from one label to another with the same parts  *)
(* in flight and completed.                                                *)
LEMMA MoveProgress ==
    ASSUME IInv, ProgressInv, UNCHANGED <<source, requests, progress, inflight, completed>>,
           pc \notin {"unwind", "end"}, (pc' # "confirm" /\ pc # "confirm") \/ pc' = pc
    PROVE  ProgressInv'
<1>1. /\ UNCHANGED <<read, buffer, content, cut, partProgress, confirmed>>
      /\ UNCHANGED <<reported, sent, task>>
  BY DEF source, progress, requests
<1>2. sent \in [Parts -> Nat] /\ \A k \in Parts : sent[k] <= Len(content[k])
  BY DEF ProgressInv, Sends
<1>3. Settled' = Settled /\ InHand' = InHand
  BY <1>1 DEF Settled, InHand
<1>4. pc' = "confirm" /\ InHand' => completed' \cap inflight' = {}
  BY <1>3 DEF ProgressInv, Counted
<1> QED BY <1>1, <1>2, <1>3, <1>4, QuietProgress DEF IInv

(* The parts that upload waits for are settled only by their confirmation. *)
LEMMA QueueProgress ==
    ASSUME IInv, ProgressInv, Submit \/ WaitForOne \/ Drain \/ Confirmed
    PROVE  ProgressInv'
<1>1. /\ UNCHANGED <<read, buffer, content, cut, partProgress, confirmed>>
      /\ UNCHANGED <<reported, sent>> /\ pc \in {"slot", "drain", "confirm"}
  BY DEF Submit, WaitForOne, Drain, Confirmed, Unwind, source, progress, requests
<1>2. sent \in [Parts -> Nat] /\ \A k \in Parts : sent[k] <= Len(content[k])
  BY DEF ProgressInv, Sends
<1>3. CASE Submit
  <2>1. /\ pc = "slot" /\ pc' = "cut" /\ task' = [task EXCEPT ![cut] = "running"]
        /\ inflight' = inflight \cup {cut} /\ completed' = completed
        /\ task[cut] = "none"
    BY <1>3 DEF Submit, Goto, IInv, Hand, InHand
  <2>2. \A k \in Parts : task'[k] = IF k = cut THEN "running" ELSE task[k]
    BY <2>1 DEF IInv, Typed
  <2>3. Settled' = Settled
    BY <2>1, <2>2 DEF Settled
  <2> QED BY <1>1, <1>2, <2>1, <2>3, QuietProgress DEF IInv
<1>4. CASE WaitForOne
  <2>1. /\ pc = "slot" /\ pc' = "confirm" /\ InHand /\ UNCHANGED task
        /\ completed' = Ended /\ inflight' = inflight \ Ended /\ completed = {}
    BY <1>4 DEF WaitForOne, Goto, requests, IInv, Hand, Kept
  <2>2. InHand'
    BY <1>1, <2>1 DEF InHand
  <2>3. Settled' = Settled
    BY <2>1, <2>2 DEF Settled, Ended
  <2> QED BY <1>1, <1>2, <2>1, <2>3, QuietProgress DEF IInv
<1>5. CASE Drain
  <2>1. CASE AllDone /\ completed' = inflight /\ Goto("confirm") /\ UNCHANGED requests
    <3>1. /\ pc = "drain" /\ pc' = "confirm" /\ ~InHand /\ UNCHANGED <<task, inflight>>
          /\ completed = {}
      BY <1>5, <2>1 DEF Drain, Goto, requests, IInv, Hand, Kept
    <3>2. ~InHand'
      BY <1>1, <3>1 DEF InHand
    <3>3. Settled' = Settled
      BY <2>1, <3>1, <3>2 DEF Settled
    <3> QED BY <1>1, <1>2, <3>1, <3>2, <3>3, QuietProgress DEF IInv
  <2>2. CASE Unwind("failed")
    <3>1. pc' = "unwind" /\ UNCHANGED <<source, sent, progress>>
      BY <1>5, <2>2 DEF Drain, Unwind
    <3> QED BY <3>1, EndProgress
  <2> QED BY <1>5, <2>1, <2>2 DEF Drain
<1>6. CASE Confirmed
  <2>1. pc = "confirm" /\ completed = {} /\ UNCHANGED <<task, completed>>
    BY <1>6 DEF Confirmed, requests
  <2>2. \/ InHand /\ pc' = "slot" /\ UNCHANGED inflight
        \/ ~InHand /\ inflight' = {} /\ pc' = "last_poll"
    BY <1>6 DEF Confirmed, Goto
  <2>3. Settled' = Settled
    BY <2>1, <2>2 DEF Settled
  <2> QED BY <1>1, <1>2, <2>1, <2>2, <2>3, QuietProgress DEF IInv
<1> QED BY <1>3, <1>4, <1>5, <1>6

(* What is read is in the buffer. *)
LEMMA ReadProgress == ASSUME IInv, ProgressInv, ReadChunk PROVE ProgressInv'
<1>1. PICK n \in 1..MaxChunk : /\ read + n <= Total /\ read' = read + n
                               /\ buffer' = buffer \o [i \in 1..n |-> read + i - 1]
  BY DEF ReadChunk
<1>2. read \in Nat /\ buffer \in Seq(Nat) /\ Len(buffer) \in Nat /\ n \in Nat
  BY DEF IInv, Typed
<1>3. Len(buffer') = Len(buffer) + n
  <2> DEFINE chunk == [i \in 1..n |-> read + i - 1]
  <2>1. chunk \in Seq(Nat) /\ Len(chunk) = n
    BY <1>2
  <2>2. buffer' = buffer \o chunk
    BY <1>1
  <2> HIDE DEF chunk
  <2> QED BY <1>2, <2>1, <2>2, ConcatProperties
<1>4. /\ pc = "read" /\ pc' = "cut" /\ UNCHANGED <<content, cut, task, sent, inflight, completed>>
      /\ UNCHANGED <<partProgress, confirmed, reported>>
  BY DEF ReadChunk, Goto, requests, progress
<1>5. Settled' = Settled /\ Cuts' = Cuts /\ Progress' = Progress
  BY <1>4 DEF Settled, Cuts, Progress
<1>6. Sends' /\ Counted' /\ Within'
  BY <1>4, <1>5 DEF ProgressInv, Sends, Counted, Within
<1>7. Shares'
  <2>1. SumFunction(Cuts) \in Nat
    <3>1. Cuts \in [Parts -> Nat]
      BY CutsType DEF IInv
    <3> QED BY <3>1, PartsFinite, SumType DEF SumFunction
  <2> QED BY <1>1, <1>2, <1>3, <1>4, <1>5, <2>1 DEF ProgressInv, Shares
<1> QED BY <1>6, <1>7 DEF ProgressInv

(* What is cut leaves it. *)
LEMMA CutProgress ==
    ASSUME IInv, ProgressInv, pc \in {"cut", "read"}, NEW n \in Nat \ {0}, n <= Len(buffer),
           CutPart(n), n = PartSize \/ (read = Total /\ n = Len(buffer) /\ n < PartSize),
           pc' = "poll", UNCHANGED <<requests, inflight, completed, progress>>
    PROVE  ProgressInv'
<1>1. /\ cut + 1 \in Parts /\ cut' = cut + 1
      /\ buffer' \in Seq(Nat) /\ Len(buffer') = Len(buffer) - n
      /\ content' \in [Parts -> Seq(Nat)]
  BY CutFacts DEF IInv
<1>2. /\ UNCHANGED <<task, sent, inflight, completed, partProgress, confirmed, reported, read>>
      /\ content' = [content EXCEPT ![cut + 1] = SubSeq(buffer, 1, n)]
  BY DEF requests, progress, CutPart
<1>3. cut \in Nat /\ buffer \in Seq(Nat) /\ Len(buffer) \in Nat /\ read \in Nat
  BY LastFacts DEF IInv, Typed
<1>4. task[cut + 1] = "none" /\ content[cut + 1] = << >>
  BY <1>1, <1>3 DEF IInv, Tasks, ProgressInv, Shares
<1>5. /\ content'[cut + 1] = SubSeq(buffer, 1, n)
      /\ \A k \in Parts \ {cut + 1} : content'[k] = content[k]
  BY <1>1, <1>2 DEF IInv, Typed
<1>6. Len(SubSeq(buffer, 1, n)) = n
  <2>1. \A i \in 1..n : buffer[i] \in Nat
    BY <1>3
  <2> QED BY <2>1, SubSeqProperties
<1>7. Cuts \in [Parts -> Nat] /\ Cuts' \in [Parts -> Nat]
  <2>1. \A k \in Parts : Len(content'[k]) \in Nat
    BY <1>1
  <2> QED BY <2>1, CutsType DEF IInv, Cuts
<1>8. /\ Cuts[cut + 1] = 0 /\ Cuts'[cut + 1] = n
      /\ \A k \in Parts \ {cut + 1} : Cuts[k] = Cuts'[k]
  BY <1>1, <1>4, <1>5, <1>6 DEF Cuts
<1>9. Settled' = Settled /\ Settled \in SUBSET Parts /\ cut + 1 \notin Settled
  BY <1>2, <1>4 DEF Settled
<1>10. Sends'
  <2>1. \A k \in Parts : Len(content[k]) <= Len(content'[k])
    <3>1. \A k \in Parts : Cuts[k] <= Cuts'[k]
      BY <1>7, <1>8
    <3> QED BY <3>1 DEF Cuts
  <2>2. \A k \in Parts : Len(content[k]) \in Nat /\ Len(content'[k]) \in Nat
    BY <1>1 DEF IInv, Typed
  <2> QED BY <1>2, <2>1, <2>2 DEF ProgressInv, Sends
<1>11. Shares'
  <2>1. PICK rest \in Nat : SumFunction(Cuts) = 0 + rest /\ SumFunction(Cuts') = n + rest
    <3>1. PICK y \in Parts : y = cut + 1
      BY <1>1
    <3>2. Cuts[y] = 0 /\ Cuts'[y] = n /\ \A k \in Parts \ {y} : Cuts[k] = Cuts'[k]
      BY <1>8, <3>1
    <3>3. \E rest \in Nat : /\ SumFunction(Cuts) = Cuts[y] + rest
                            /\ SumFunction(Cuts') = Cuts'[y] + rest
      BY <1>7, <3>2, PartsFinite, SumReplace
    <3> QED BY <3>2, <3>3
  <2> DEFINE sum == SumFunction(Cuts')
             left == Len(buffer')
  <2>3. rest + Len(buffer) = read /\ sum = n + rest /\ left = Len(buffer) - n
    BY <1>1, <2>1 DEF ProgressInv, Shares
  <2> HIDE DEF sum, left
  <2>4. sum + left = read'
    BY <1>2, <1>3, <2>3
  <2>5. \A k \in Parts : k > cut' => content'[k] = << >>
    <3> SUFFICES ASSUME NEW k \in Parts, k > cut + 1 PROVE content'[k] = << >>
      BY <1>1
    <3>1. k # cut + 1 /\ k > cut
      BY <1>3, LastFacts
    <3> QED BY <1>5, <3>1 DEF ProgressInv, Shares
  <2> QED BY <2>4, <2>5 DEF Shares, sum, left
<1>12. Counted'
  <2>1. IsFiniteSet(Settled) /\ \A k \in Settled : Cuts[k] = Cuts'[k]
    BY <1>8, <1>9, PartsFinite, FS_Subset
  <2>2. SumFunctionOnSet(Cuts, Settled) = SumFunctionOnSet(Cuts', Settled)
    BY <2>1, SumSame
  <2>3. SumFunctionOnSet(Cuts, Settled)' = SumFunctionOnSet(Cuts, Settled)
    BY <1>9, <2>2
  <2> QED BY <1>2, <1>9, <2>3 DEF ProgressInv, Counted
<1>13. Within'
  BY <1>2 DEF ProgressInv, Within, Progress
<1> QED BY <1>10, <1>11, <1>12, <1>13 DEF ProgressInv

(* The bytes of a part move from part_progress to confirmed, and those of  *)
(* it that were not reported are counted at last.                          *)
LEMMA ConfirmProgress ==
    ASSUME IInv, ProgressInv, Confirm
    PROVE  ProgressInv' /\ reported' >= reported
<1>1. /\ pc = "confirm" /\ UNCHANGED <<read, buffer, content, cut, inflight, sent>>
  BY DEF Confirm, Unwind, source, requests
<1>2. PICK k \in completed :
         \/ task[k] = "failed" /\ Unwind("failed") /\ UNCHANGED <<completed, progress>>
         \/ /\ task[k] # "failed" /\ completed' = completed \ {k} /\ UNCHANGED <<pc, requests>>
            /\ partProgress' = Popped(k) /\ confirmed' = confirmed + Len(content[k])
            /\ reported' = confirmed' + SumFunction(partProgress')
  BY DEF Confirm
<1>3. CASE task[k] = "failed" /\ Unwind("failed") /\ UNCHANGED <<completed, progress>>
  <2>1. pc' = "unwind" /\ UNCHANGED <<source, sent, progress>> /\ reported' = reported
    BY <1>1, <1>3 DEF Unwind, source, progress
  <2>2. reported \in Nat
    BY DEF ProgressInv, Within
  <2> QED BY <2>1, <2>2, EndProgress
<1>4. CASE /\ task[k] # "failed" /\ completed' = completed \ {k} /\ UNCHANGED <<pc, requests>>
           /\ partProgress' = Popped(k) /\ confirmed' = confirmed + Len(content[k])
           /\ reported' = confirmed' + SumFunction(partProgress')
  <2>1. k \in Parts /\ task[k] = "done" /\ UNCHANGED <<task, pc>>
    BY <1>1, <1>4 DEF IInv, Typed, Kept, requests
  <2>2. /\ partProgress \in [Parts -> Nat] /\ partProgress' \in [Parts -> Nat]
        /\ partProgress'[k] = 0 /\ partProgress[k] \in Nat /\ partProgress[k] <= Len(content[k])
        /\ \A j \in Parts \ {k} : partProgress[j] = partProgress'[j]
    BY <1>4, <2>1 DEF ProgressInv, Sends, Popped
  <2>3. Cuts' = Cuts /\ Cuts \in [Parts -> Nat] /\ Cuts[k] = Len(content[k]) /\ Cuts[k] \in Nat
    BY <1>1, <2>1, CutsType DEF IInv, Cuts
  <2>4. Sends'
    <3>1. ASSUME NEW j \in Parts PROVE partProgress'[j] <= Len(content[j])
      <4>1. CASE j = k
        <5>1. Len(content[k]) \in Nat
          BY <2>3
        <5> QED BY <2>2, <4>1, <5>1
      <4>2. CASE j # k
        BY <2>2, <4>2 DEF ProgressInv, Sends
      <4> QED BY <4>1, <4>2
    <3> QED BY <1>1, <2>2, <3>1 DEF ProgressInv, Sends
  <2>5. Shares'
    BY <1>1, <2>3 DEF ProgressInv, Shares
  <2>6. InHand' <=> InHand
    BY <1>1, <2>1 DEF InHand
  <2>7. Settled' = Settled \cup {k} /\ k \notin Settled /\ Settled \in SUBSET Parts
    <3>1. InHand => completed \cap inflight = {}
      BY <1>1 DEF ProgressInv, Counted
    <3> QED BY <1>1, <1>4, <2>1, <2>6, <3>1 DEF Settled
  <2>8. confirmed' = SumFunctionOnSet(Cuts, Settled')
    <3>1. IsFiniteSet(Settled)
      BY <2>7, PartsFinite, FS_Subset
    <3>2. SumFunctionOnSet(Cuts, Settled \cup {k}) = SumFunctionOnSet(Cuts, Settled) + Cuts[k]
      BY <2>1, <2>3, <2>7, <3>1, SumAdd
    <3>3. confirmed = SumFunctionOnSet(Cuts, Settled)
      BY <1>1 DEF ProgressInv, Counted
    <3> QED BY <1>4, <2>3, <2>7, <3>2, <3>3
  <2>9. \A j \in Settled' : partProgress'[j] = 0
    BY <1>1, <2>2, <2>7 DEF ProgressInv, Counted
  <2>10. Counted'
    BY <1>1, <1>4, <2>1, <2>3, <2>6, <2>8, <2>9 DEF ProgressInv, Counted
  <2>11. PICK rest \in Nat : Progress = partProgress[k] + rest /\ Progress' = rest
    <3>1. PICK rest \in Nat : /\ SumFunction(partProgress) = partProgress[k] + rest
                              /\ SumFunction(partProgress') = partProgress'[k] + rest
      BY <2>1, <2>2, PartsFinite, SumReplace
    <3> QED BY <2>2, <3>1 DEF Progress
  <2>12. confirmed' + Progress' <= Total
    <3>1. Settled' \in SUBSET Parts /\ \A j \in Parts : partProgress'[j] <= Cuts[j]
      BY <1>1, <2>1, <2>4, <2>7 DEF Sends, Cuts
    <3>2. /\ SumFunctionOnSet(Cuts, Settled') + SumFunction(partProgress') <= SumFunction(Cuts)
          /\ SumFunction(Cuts) \in Nat
      BY <2>2, <2>3, <2>9, <3>1, CountedOnce
    <3>3. SumFunction(Cuts) <= Total
      <4>1. SumFunction(Cuts) + Len(buffer) = read /\ read <= Total /\ Len(buffer) \in Nat /\ read \in Nat
        BY DEF ProgressInv, Shares, IInv, Typed
      <4> QED BY <3>2, <4>1
    <3> DEFINE p == Progress'
               c == SumFunction(Cuts)
               q == confirmed'
    <3>4. q + p <= c /\ c <= Total /\ c \in Nat
      BY <2>8, <3>2, <3>3 DEF Progress
    <3>5. q \in Nat /\ p \in Nat
      BY <1>4, <2>3, <2>11 DEF ProgressInv, Within
    <3> HIDE DEF p, c, q
    <3>6. q + p <= Total
      BY <3>4, <3>5
    <3> QED BY <3>6 DEF p, q
  <2>13. Within' /\ reported' >= reported
    <3> DEFINE p == Progress'
    <3>1. /\ confirmed' = confirmed + Len(content[k]) /\ reported' = confirmed' + p
          /\ p = rest /\ reported <= confirmed + (partProgress[k] + rest)
          /\ confirmed \in Nat /\ reported \in Nat /\ confirmed' + p <= Total
      BY <1>4, <2>11, <2>12 DEF ProgressInv, Within, Progress
    <3> HIDE DEF p
    <3>2. /\ reported' >= reported /\ confirmed' \in Nat /\ reported' \in Nat
          /\ reported' <= confirmed' + p /\ confirmed' + p <= Total
      BY <2>2, <2>3, <3>1
    <3> QED BY <3>2 DEF p, Within
  <2> QED BY <2>4, <2>5, <2>10, <2>13 DEF ProgressInv
<1> QED BY <1>2, <1>3, <1>4

(* Every step keeps the invariant of the progress, and none takes it back. *)
LEMMA ProgressStep == IInv /\ ProgressInv /\ [Next]_vars => ProgressInv' /\ reported' >= reported
<1> SUFFICES ASSUME IInv, ProgressInv, [Next]_vars PROVE ProgressInv' /\ reported' >= reported
  OBVIOUS
<1>0. reported \in Nat
  BY DEF ProgressInv, Within
<1>1. CASE \E k \in Parts : SendBytes(k)
  BY <1>1, SendProgress
<1>2. CASE Confirm
  BY <1>2, ConfirmProgress
<1>3. ASSUME NEW k \in Parts, PartSucceeds(k) \/ PartFails(k) \/ PartCancelled(k)
      PROVE  ProgressInv' /\ reported' >= reported
  <2>1. reported' = reported
    BY <1>3 DEF PartSucceeds, PartFails, PartCancelled, progress
  <2> QED BY <1>0, <1>3, <2>1, PartProgress
<1>4. CASE ReadChunk
  BY <1>0, <1>4, ReadProgress DEF ReadChunk, progress
<1>5. CASE Submit \/ WaitForOne \/ Drain \/ Confirmed
  <2>1. reported' = reported
    BY <1>5 DEF Submit, WaitForOne, Drain, Confirmed, progress
  <2> QED BY <1>0, <1>5, <2>1, QueueProgress
<1>6. CASE NextPart
  <2>1. reported' = reported /\ UNCHANGED <<requests, inflight, completed, progress>>
    BY <1>6 DEF NextPart, progress
  <2>2. Len(buffer) \in Nat /\ buffer \in Seq(Nat)
    BY DEF IInv, Typed
  <2>3. CASE pc = "cut" /\ Len(buffer) >= PartSize /\ CutPart(PartSize) /\ Goto("poll")
    BY <1>0, <2>1, <2>2, <2>3, CutProgress DEF Goto
  <2>4. CASE pc = "read" /\ read = Total /\ buffer # << >> /\ CutPart(Len(buffer)) /\ Goto("poll")
    <3>1. Len(buffer) \in Nat \ {0}
      BY <2>2, <2>4
    <3>2. Len(buffer) < PartSize /\ pc' = "poll"
      BY <2>4 DEF IInv, CutInv, Short, Goto
    <3> QED BY <1>0, <2>1, <2>4, <3>1, <3>2, CutProgress
  <2>5. CASE pc \in {"cut", "read"} /\ (Goto("read") \/ Goto("drain")) /\ UNCHANGED source
    BY <1>0, <2>1, <2>5, MoveProgress DEF Goto
  <2> QED BY <1>6, <2>3, <2>4, <2>5 DEF NextPart
<1>7. CASE SourceFails \/ Unwound \/ CancelTask
  <2>1. pc' \in {"unwind", "end"} /\ UNCHANGED <<source, sent, progress>> /\ reported' = reported
    BY <1>7 DEF SourceFails, Unwound, CancelTask, Unwind, End, requests, progress
  <2> QED BY <1>0, <2>1, EndProgress
<1>8. CASE Create \/ Poll \/ LastPoll \/ Complete
  <2>1. /\ UNCHANGED <<source, sent, progress, inflight, completed>> /\ reported' = reported
        /\ pc \in {"create", "poll", "last_poll", "complete"}
    BY <1>8 DEF Create, Poll, LastPoll, Complete, Unwind, requests, progress
  <2>2. CASE pc' \in {"unwind", "end"}
    BY <1>0, <2>1, <2>2, EndProgress
  <2>3. CASE pc' \notin {"unwind", "end"}
    <3>1. pc' \in {"read", "slot", "complete"} /\ UNCHANGED task
      BY <1>8, <2>3 DEF Create, Poll, LastPoll, Complete, Unwind, End, Goto, requests
    <3>2. /\ UNCHANGED <<read, buffer, content, cut, partProgress, confirmed>>
          /\ UNCHANGED reported
      BY <2>1 DEF source, progress
    <3>3. Settled' = Settled
      BY <2>1, <3>1 DEF Settled
    <3>4. sent \in [Parts -> Nat] /\ \A k \in Parts : sent[k] <= Len(content[k])
      BY DEF ProgressInv, Sends
    <3> QED BY <1>0, <2>1, <3>1, <3>2, <3>3, <3>4, QuietProgress DEF IInv
  <2> QED BY <2>2, <2>3
<1>9. CASE RequestCancel \/ UNCHANGED vars
  <2>1. /\ UNCHANGED <<pc, read, buffer, content, cut, task, sent, inflight, completed>>
        /\ UNCHANGED <<partProgress, confirmed, reported>>
    BY <1>9 DEF RequestCancel, vars, source, requests, progress
  <2>2. Settled' = Settled /\ Cuts' = Cuts /\ Progress' = Progress /\ (InHand' <=> InHand)
    BY <2>1 DEF Settled, Cuts, Progress, InHand
  <2> QED BY <1>0, <2>1, <2>2 DEF ProgressInv, Sends, Shares, Counted, Within
<1> QED BY <1>1, <1>2, <1>3, <1>4, <1>5, <1>6, <1>7, <1>8, <1>9 DEF Next, PartStep, UploadStep

LEMMA ProgressInit == Init => ProgressInv
<1> SUFFICES ASSUME Init PROVE ProgressInv
  OBVIOUS
<1>1. \A k \in Parts : Len(content[k]) = 0
  BY DEF Init
<1>2. Sends
  BY <1>1 DEF Init, Sends
<1>3. SumFunction(Cuts) = 0 /\ Progress = 0
  <2>1. \A k \in Parts : Cuts[k] = 0 /\ partProgress[k] = 0
    BY <1>1 DEF Init, Cuts
  <2>2. DOMAIN Cuts = Parts /\ DOMAIN partProgress = Parts
    BY DEF Init, Cuts
  <2> QED BY <2>1, <2>2, PartsFinite, SumZero DEF SumFunction, Progress
<1>4. Shares
  BY <1>3 DEF Init, Shares
<1>5. Counted
  <2>1. Settled = {}
    BY DEF Init, Settled
  <2> QED BY <2>1, SumEmpty DEF Init, Counted
<1>6. Within
  BY <1>3 DEF Init, Within
<1> QED BY <1>2, <1>4, <1>5, <1>6 DEF ProgressInv

(***************************************************************************)
(* The progress of a job never goes back, for any number of parts that     *)
(* report out of order, are sent again, or move to confirmed, and whichever*)
(* of their reports are left out (buzzheavier.py 83-99).                   *)
(***************************************************************************)
THEOREM UploadProgress == Spec => ProgressMonotone
<1>1. IInv /\ ProgressInv /\ [Next]_vars => ProgressInv'
  BY ProgressStep
<1>2. IInv /\ ProgressInv /\ [Next]_vars => [reported' >= reported]_vars
  BY ProgressStep
<1> QED BY <1>1, <1>2, InitInv, StepInv, ProgressInit, PTL DEF Spec, ProgressMonotone

-----------------------------------------------------------------------------
(* The variables that play no part in the other arguments.                 *)
Others ==
    /\ outcome \in {"open", "uploaded", "failed", "cancelled"}
    /\ attempt \in [Parts -> 0..Retries] /\ cancelRequested \in BOOLEAN
    /\ faults \in 0..MaxFaults

LEMMA OthersStep == Others /\ [Next]_vars => Others'
<1> SUFFICES ASSUME Others, [Next]_vars PROVE Others'
  OBVIOUS
<1> USE DEF Others, requests
<1>1. CASE \E k \in Parts : PartStep(k)
  <2>1. PICK k \in Parts : PartStep(k)
    BY <1>1
  <2>2. UNCHANGED <<outcome, cancelRequested>>
    BY <2>1 DEF PartStep, SendBytes, PartSucceeds, PartFails, PartCancelled
  <2>3. faults' \in 0..MaxFaults
    BY <2>1 DEF PartStep, SendBytes, PartSucceeds, PartFails, PartCancelled, Fault
  <2>4. attempt' = attempt \/ (attempt[k] < Retries /\ attempt' = [attempt EXCEPT ![k] = @ + 1])
    BY <2>1 DEF PartStep, SendBytes, PartSucceeds, PartFails, PartCancelled
  <2>5. attempt' \in [Parts -> 0..Retries]
    BY <2>4
  <2> QED BY <2>2, <2>3, <2>5
<1>2. CASE UploadStep
  <2>1. UNCHANGED <<attempt, cancelRequested>>
    BY <1>2 DEF UploadStep, Create, ReadChunk, SourceFails, NextPart, Poll, Submit, WaitForOne,
           Drain, Confirm, Confirmed, LastPoll, Complete, Unwound, Unwind
  <2>2. faults' = faults \/ Fault
    BY <1>2 DEF UploadStep, Create, ReadChunk, SourceFails, NextPart, Poll, Submit, WaitForOne,
           Drain, Confirm, Confirmed, LastPoll, Complete, Unwound, Unwind
  <2>3. outcome' \in {"open", "uploaded", "failed", "cancelled"}
    BY <1>2 DEF UploadStep, Create, ReadChunk, SourceFails, NextPart, Poll, Submit, WaitForOne,
           Drain, Confirm, Confirmed, LastPoll, Complete, Unwound, Unwind, Goto, End
  <2> QED BY <2>1, <2>2, <2>3 DEF Fault
<1>3. CASE RequestCancel
  BY <1>3 DEF RequestCancel
<1>4. CASE CancelTask
  BY <1>4 DEF CancelTask, Unwind, End
<1>5. CASE UNCHANGED vars
  BY <1>5 DEF vars
<1> QED BY <1>1, <1>2, <1>3, <1>4, <1>5 DEF Next

(***************************************************************************)
(* The variables have their types; above all neither the bytes confirmed   *)
(* nor the progress reported exceed those of the stream, so a job is never *)
(* more than complete.                                                     *)
(***************************************************************************)
THEOREM UploadTyped == Spec => []TypeOK
<1>1. Init => Others
  <2>1. 0 \in 0..Retries /\ 0 \in 0..MaxFaults
    OBVIOUS
  <2> QED BY <2>1 DEF Init, Others
<1>2. IInv /\ ProgressInv /\ Others => TypeOK
  <2> SUFFICES ASSUME IInv, ProgressInv, Others PROVE TypeOK
    OBVIOUS
  <2>1. Cardinality(Parts) = LastPart
    BY LastFacts, FS_Interval
  <2>2. confirmed \in 0..Total /\ reported \in 0..Total
    <3> DEFINE p == Progress
    <3>1. p \in Nat
      BY PartsFinite, SumType DEF ProgressInv, Sends, Progress, SumFunction
    <3>2. /\ confirmed \in Nat /\ reported \in Nat
          /\ reported <= confirmed + p /\ confirmed + p <= Total
      BY DEF ProgressInv, Within
    <3> HIDE DEF p
    <3> QED BY <3>1, <3>2
  <2> QED BY <2>1, <2>2 DEF TypeOK, IInv, Typed, Label, ProgressInv, Sends, Others
<1>3. IInv /\ ProgressInv /\ [Next]_vars => ProgressInv'
  BY ProgressStep
<1> QED BY <1>1, <1>2, <1>3, InitInv, StepInv, ProgressInit, OthersStep, PTL DEF Spec
=============================================================================
