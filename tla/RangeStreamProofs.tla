------------------------- MODULE RangeStreamProofs -------------------------
(***************************************************************************)
(* Theorems of RangeStream for every file size, segment size, chunk size,  *)
(* number of connections, of retries and of routes.                        *)
(***************************************************************************)
EXTENDS StreamProperties, FiniteSetTheorems, TLAPS

USE StreamAssumption

(* Division by a positive number, as the provers need it. *)
LEMMA DivBounds ==
    ASSUME NEW a \in Nat, NEW b \in Nat \ {0}
    PROVE  /\ a \div b \in Nat
           /\ b * (a \div b) <= a
           /\ a < b * (a \div b) + b
  BY SMTT(20)

(* _segment_count: the last segment is the first to reach the file's end. *)
LEMMA CountFacts ==
    /\ SegmentSize \in Nat \ {0}
    /\ SegmentCount \in Nat \ {0}
    /\ (SegmentCount - 1) * SegmentSize < Size
    /\ Size <= SegmentCount * SegmentSize
<1> DEFINE c == (Size + SegmentSize - 1) \div SegmentSize
<1>1. SegmentSize \in Nat \ {0}
  BY DEF SegmentSize
<1>2. Size + SegmentSize - 1 \in Nat
  BY <1>1
<1>3. /\ c \in Nat
      /\ SegmentSize * c <= Size + SegmentSize - 1
      /\ Size + SegmentSize - 1 < SegmentSize * c + SegmentSize
  BY <1>1, <1>2, DivBounds
<1> HIDE DEF c
<1>4. c # 0
  BY <1>1, <1>3
<1>5. c = SegmentCount
  BY DEF c, SegmentCount
<1>6. (c - 1) * SegmentSize = SegmentSize * c - SegmentSize
  BY <1>1, <1>3
<1>7. c * SegmentSize = SegmentSize * c
  BY <1>1, <1>3
<1> QED
  BY <1>1, <1>3, <1>4, <1>5, <1>6, <1>7

(* The number of parallel downloads is positive and at most SegmentCount. *)
LEMMA WidthFacts == Width \in 1..SegmentCount
  BY CountFacts DEF Width

(* _segment_bounds: segments are not empty, lie within the file, are full  *)
(* but for the last one, and each begins where the one before it ends.     *)
LEMMA BoundsFacts ==
    ASSUME NEW i \in Segments
    PROVE  /\ SegmentStart(i) \in Nat
           /\ ExpectedSize(i) \in Nat \ {0}
           /\ SegmentStart(i) + ExpectedSize(i) <= Size
           /\ i + 1 < SegmentCount =>
                SegmentStart(i + 1) = SegmentStart(i) + ExpectedSize(i)
           /\ i + 1 >= SegmentCount => SegmentStart(i) + ExpectedSize(i) = Size
<1> DEFINE n == SegmentCount
           s == SegmentSize
<1>1. /\ s \in Nat \ {0} /\ n \in Nat \ {0} /\ i \in Nat /\ i <= n - 1
      /\ (n - 1) * s < Size /\ Size <= n * s
  BY CountFacts DEF Segments
<1> HIDE DEF n, s
<1>2. i * s <= (n - 1) * s /\ (i + 1) * s = i * s + s /\ i * s \in Nat
  BY <1>1
<1>3. i + 1 < n => (i + 1) * s <= (n - 1) * s
  BY <1>1
<1>4. i + 1 >= n => i + 1 = n
  BY <1>1
<1>5. /\ SegmentStart(i) = i * s
      /\ SegmentStart(i + 1) = (i + 1) * s
      /\ SegmentEnd(i) = IF i * s + s <= Size THEN i * s + s - 1 ELSE Size - 1
      /\ ExpectedSize(i) = SegmentEnd(i) - i * s + 1
  BY DEF SegmentStart, SegmentEnd, ExpectedSize, s
<1>6. ExpectedSize(i) = IF i * s + s <= Size THEN s ELSE Size - i * s
  BY <1>1, <1>2, <1>5
<1> QED
  BY <1>1, <1>2, <1>3, <1>4, <1>5, <1>6 DEF n

(***************************************************************************)
(* Type correctness.                                                       *)
(***************************************************************************)
LEMMA TypeInit == Init => TypeOK
  BY CountFacts DEF Init, TypeOK, Segments, Nothing

(* The steps of one download. *)
LEMMA TypeFetch ==
    ASSUME TypeOK, NEW i \in Segments, FetchStep(i)
    PROVE  TypeOK'
<1> USE DEF TypeOK, generator, downloads
<1>0. UNCHANGED threaded
  BY DEF FetchStep
<1>1. CASE StartFetch(i)
  BY <1>0, <1>1 DEF StartFetch
<1>2. CASE FetchSucceeds(i)
  <2>1. PICK r \in Responses : got' = [got EXCEPT ![i] = [first |-> r.first, bytes |-> r.bytes]]
    BY <1>2 DEF FetchSucceeds
  <2>2. r.first \in Nat /\ r.bytes \in Nat
    BY CountFacts DEF Responses
  <2> QED BY <1>0, <1>2, <2>1, <2>2 DEF FetchSucceeds
<1>3. CASE AttemptFails(i)
  <2>1. glitches' \in 0..MaxGlitches
    BY <1>3 DEF AttemptFails
  <2>2. CASE attempt[i] < Retries /\ attempt' = [attempt EXCEPT ![i] = @ + 1] /\ UNCHANGED fetch
    <3>1. attempt[i] + 1 \in 0..Retries
      BY <2>2
    <3> QED BY <1>0, <1>3, <2>1, <2>2, <3>1 DEF AttemptFails
  <2>3. CASE fetch' = [fetch EXCEPT ![i] = "failed"] /\ UNCHANGED attempt
    BY <1>0, <1>3, <2>1, <2>3 DEF AttemptFails
  <2> QED BY <1>3, <2>2, <2>3 DEF AttemptFails, MayRetry
<1>4. CASE FetchCancelled(i)
  BY <1>0, <1>4 DEF FetchCancelled
<1> QED BY <1>1, <1>2, <1>3, <1>4 DEF FetchStep

(* What the finally clause leaves behind. *)
LEMMA TypeClose ==
    ASSUME TypeOK, NEW how \in {"complete", "failed", "closed"}, Close(how),
           UNCHANGED threaded
    PROVE  TypeOK'
<1>1. \A i \in Segments : Cancel(i) \in {"none", "queued", "running", "done", "failed",
                                         "cancelling", "cancelled"}
  BY DEF TypeOK, Cancel
<1> QED BY <1>1 DEF TypeOK, Close, generator, downloads

(* The chunk that is yielded: not empty, and within the segment. *)
LEMMA ChunkFacts ==
    ASSUME TypeOK, offset < got[next_yield].bytes
    PROVE  /\ ChunkBytes \in Nat \ {0}
           /\ offset + ChunkBytes <= got[next_yield].bytes
           /\ got[next_yield].bytes \in Nat /\ got[next_yield].first \in Nat
  BY DEF ChunkBytes, TypeOK

(* The steps of the generator and of its consumer. *)
LEMMA TypeGenerator ==
    ASSUME TypeOK, GeneratorStep \/ ConsumerStep
    PROVE  TypeOK'
<1> USE DEF generator, downloads
<1>0. UNCHANGED threaded
  BY DEF GeneratorStep, ConsumerStep
<1>1. CASE Open
  BY <1>0, <1>1, WidthFacts, CountFacts DEF Open, TypeOK
<1>2. CASE Take
  <2>1. next_submit' \in 0..SegmentCount
    BY <1>2, CountFacts DEF Take, TypeOK, MoreToSubmit
  <2>2. fetch' \in [Segments -> {"none", "queued", "running", "done", "failed",
                                 "cancelling", "cancelled"}]
    BY <1>2 DEF Take, TypeOK
  <2> QED BY <1>0, <1>2, <2>1, <2>2 DEF Take, TypeOK
<1>3. CASE TakeRaises
  BY <1>0, <1>3, TypeClose DEF TakeRaises
<1>4. CASE Yield
  <2> DEFINE chunk == [k \in 1..ChunkBytes |-> got[next_yield].first + offset + k - 1]
  <2>1. offset < got[next_yield].bytes /\ delivered' = delivered \o chunk
    BY <1>4 DEF Yield
  <2>2. offset \in Nat /\ delivered \in Seq(Nat)
    BY DEF TypeOK
  <2>3. chunk \in Seq(Nat)
    <3>1. \A k \in 1..ChunkBytes : got[next_yield].first + offset + k - 1 \in Nat
      BY <2>1, <2>2, ChunkFacts
    <3>2. chunk \in [1..ChunkBytes -> Nat]
      BY <3>1
    <3>3. ChunkBytes \in Nat
      BY <2>1, ChunkFacts
    <3> HIDE DEF chunk
    <3> QED BY <3>2, <3>3
  <2>4. delivered' \in Seq(Nat)
    <3> HIDE DEF chunk
    <3> QED BY <2>1, <2>2, <2>3
  <2>5. offset' \in Nat
    BY <1>4, <2>1, <2>2, ChunkFacts DEF Yield
  <2> QED BY <1>0, <1>4, <2>4, <2>5 DEF Yield, TypeOK
<1>5. CASE Advance
  <2>1. next_yield' \in Segments
    BY <1>0, <1>5, CountFacts DEF Advance, TypeOK, Segments
  <2> QED BY <1>0, <1>5, <2>1 DEF Advance, TypeOK
<1>6. CASE Finish
  BY <1>0, <1>6, TypeClose DEF Finish
<1>7. CASE Abandon
  <2>1. CASE Close("closed")
    BY <1>0, <2>1, TypeClose
  <2>2. CASE pc' = "end" /\ outcome' = "closed" /\ UNCHANGED <<fetch, generator, downloads>>
    BY <1>0, <2>2 DEF TypeOK
  <2> QED BY <1>7, <2>1, <2>2 DEF Abandon
<1>8. CASE Interrupt
  BY <1>0, <1>8 DEF Interrupt, Cancel, TypeOK
<1>9. CASE Unwind
  BY <1>0, <1>9, TypeClose DEF Unwind
<1>10. CASE Closed
  BY <1>0, <1>10 DEF Closed, TypeOK
<1> QED BY <1>1, <1>2, <1>3, <1>4, <1>5, <1>6, <1>7, <1>8, <1>9, <1>10
       DEF GeneratorStep, ConsumerStep

(* Every step keeps the types. *)
LEMMA TypeStep == TypeOK /\ [Next]_vars => TypeOK'
<1> SUFFICES ASSUME TypeOK, [Next]_vars PROVE TypeOK'
  OBVIOUS
<1>1. CASE UNCHANGED vars
  BY <1>1 DEF TypeOK, vars
<1> QED BY <1>1, TypeFetch, TypeGenerator DEF Next

(* Every variable of a download keeps its type; segments are submitted and *)
(* yielded within bounds, and no download makes more than retries + 1      *)
(* attempts.                                                               *)
THEOREM StreamTyped == Spec => []TypeOK
  BY TypeInit, TypeStep, PTL DEF Spec

(***************************************************************************)
(* The window.  Segments are submitted in order; those before next_yield   *)
(* have been taken, so the unfinished ones lie between next_yield and      *)
(* next_submit, and next_submit is at most Width ahead of the segment that *)
(* is waited for, Width + 1 of the one that is being yielded.              *)
(***************************************************************************)
Looping == pc \in {"waiting", "yielding", "unwinding"}

Submitted == \A i \in Segments : fetch[i] = "none" <=> i >= next_submit

Ahead ==
    /\ pc = "routes" => next_submit = 0 /\ next_yield = 0
    /\ Looping => next_yield < next_submit
    /\ pc = "yielding" => next_yield + 1 < next_submit \/ next_submit = SegmentCount
    /\ next_submit <= next_yield + Width
                        + (IF pc \in {"waiting", "unwinding"} THEN 0 ELSE 1)

Taken ==
    /\ \A i \in Segments : i < next_yield => fetch[i] = "done"
    /\ pc = "yielding" => fetch[next_yield] = "done"
    /\ pc = "closing" => next_yield \notin Unfinished
    /\ pc = "end" => Unfinished = {}

WindowInv == Submitted /\ Ahead /\ Taken

(* Facts about the bounds that every step of the window needs. *)
LEMMA WindowBounds ==
    ASSUME TypeOK
    PROVE  /\ SegmentCount \in Nat /\ Width \in Nat /\ Width >= 1 /\ Width <= SegmentCount
           /\ next_submit \in Nat /\ next_submit <= SegmentCount
           /\ next_yield \in Nat /\ next_yield < SegmentCount
           /\ \A i : i \in Segments <=> i \in Nat /\ i < SegmentCount
  BY CountFacts, WidthFacts DEF TypeOK, Segments

(* The window is empty at first. *)
LEMMA WindowInit == Init => WindowInv
  BY CountFacts, WidthFacts
     DEF Init, WindowInv, Submitted, Ahead, Taken, Looping, Segments, Unfinished

(* A download moves on within the window. *)
LEMMA WindowFetch ==
    ASSUME TypeOK, WindowInv, NEW i \in Segments, FetchStep(i)
    PROVE  WindowInv'
<1>1. /\ fetch[i] \in {"queued", "running", "cancelling"}
      /\ \/ UNCHANGED fetch
         \/ \E s \in {"running", "done", "failed", "cancelled"} :
               fetch' = [fetch EXCEPT ![i] = s]
      /\ UNCHANGED <<pc, next_submit, next_yield>>
  BY DEF FetchStep, StartFetch, FetchSucceeds, AttemptFails, FetchCancelled, generator
<1>2. fetch \in [Segments -> {"none", "queued", "running", "done", "failed",
                              "cancelling", "cancelled"}]
  BY DEF TypeOK
<1>3. Submitted'
  BY <1>1, <1>2 DEF WindowInv, Submitted
<1>4. Ahead'
  BY <1>1 DEF WindowInv, Ahead, Looping
<1>5. Unfinished' \subseteq Unfinished
  BY <1>1, <1>2 DEF Unfinished
<1>6. Taken'
  <2>1. \A j \in Segments : fetch[j] = "done" => fetch'[j] = "done"
    BY <1>1, <1>2
  <2>2. next_yield \in Segments
    BY DEF TypeOK
  <2> QED BY <1>1, <1>5, <2>1, <2>2 DEF WindowInv, Taken
<1> QED BY <1>3, <1>4, <1>6 DEF WindowInv

(* The finally clause is reached with next_yield finished. *)
LEMMA WindowClose ==
    ASSUME TypeOK, WindowInv, NEW how, Close(how), next_yield \notin Unfinished,
           pc # "routes"
    PROVE  WindowInv'
<1>1. \A i \in Segments :
        /\ fetch'[i] = "none" <=> fetch[i] = "none"
        /\ fetch[i] = "done" => fetch'[i] = "done"
        /\ i = next_yield => fetch'[i] = fetch[i]
  <2>1. \A i \in Segments : /\ Cancel(i) = "none" <=> fetch[i] = "none"
                            /\ fetch[i] = "done" => Cancel(i) = "done"
    BY DEF Cancel
  <2>2. next_yield \notin Tasks
    BY WindowBounds DEF Tasks
  <2> QED BY <2>1, <2>2 DEF Close
<1>2. pc' = "closing" /\ UNCHANGED <<next_submit, next_yield>>
  BY DEF Close, generator
<1>3. Submitted'
  BY <1>1, <1>2 DEF WindowInv, Submitted
<1>4. Ahead'
  BY <1>2, WindowBounds DEF WindowInv, Ahead, Looping
<1>5. Taken'
  BY <1>1, <1>2, WindowBounds DEF WindowInv, Taken, Unfinished
<1> QED BY <1>3, <1>4, <1>5 DEF WindowInv

(* The generator keeps the window. *)
LEMMA WindowGenerator ==
    ASSUME TypeOK, WindowInv, GeneratorStep \/ ConsumerStep
    PROVE  WindowInv'
<1> USE WindowBounds DEF generator
<1>0. fetch \in [Segments -> {"none", "queued", "running", "done", "failed",
                              "cancelling", "cancelled"}]
  BY DEF TypeOK
<1>1. CASE Open
  BY <1>1 DEF Open, WindowInv, Submitted, Ahead, Taken, Looping
<1>2. CASE Take
  <2>1. Submitted'
    BY <1>2, <1>0 DEF Take, WindowInv, Submitted, MoreToSubmit
  <2>2. Ahead'
    BY <1>2 DEF Take, WindowInv, Ahead, Looping, MoreToSubmit
  <2>3. Taken'
    BY <1>2, <1>0 DEF Take, WindowInv, Submitted, Ahead, Taken, Looping, MoreToSubmit, Arrived
  <2> QED BY <2>1, <2>2, <2>3 DEF WindowInv
<1>3. CASE TakeRaises
  BY <1>3, WindowClose DEF TakeRaises, Unfinished
<1>4. CASE Yield
  BY <1>4 DEF Yield, WindowInv, Submitted, Ahead, Taken, Looping, Unfinished
<1>5. CASE Advance
  <2>1. Submitted'
    BY <1>5 DEF Advance, WindowInv, Submitted
  <2>2. Ahead'
    BY <1>5 DEF Advance, WindowInv, Ahead, Looping
  <2>3. Taken'
    BY <1>5 DEF Advance, WindowInv, Taken
  <2> QED BY <2>1, <2>2, <2>3 DEF WindowInv
<1>6. CASE Finish
  BY <1>6, WindowClose DEF Finish, WindowInv, Taken, Unfinished
<1>7. CASE Abandon
  <2>1. CASE pc = "yielding" /\ Close("closed")
    BY <2>1, WindowClose DEF WindowInv, Taken, Unfinished
  <2>2. CASE pc = "routes" /\ pc' = "end" /\ UNCHANGED <<fetch, generator, downloads>>
    <3>1. Unfinished' = {}
      BY <2>2 DEF WindowInv, Submitted, Ahead, Unfinished
    <3> QED BY <2>2, <3>1 DEF WindowInv, Submitted, Ahead, Taken, Looping
  <2> QED BY <1>7, <2>1, <2>2 DEF Abandon
<1>8. CASE Interrupt
  <2>1. fetch'[next_yield] # "none" /\ \A i \in Segments \ {next_yield} : fetch'[i] = fetch[i]
    BY <1>8, <1>0 DEF Interrupt, Cancel, WindowInv, Submitted, Ahead, Looping
  <2> QED BY <1>8, <2>1 DEF Interrupt, WindowInv, Submitted, Ahead, Taken, Looping
<1>9. CASE Unwind
  BY <1>9, WindowClose DEF Unwind
<1>10. CASE Closed
  BY <1>10 DEF Closed, WindowInv, Submitted, Ahead, Taken, Looping, Unfinished
<1> QED BY <1>1, <1>2, <1>3, <1>4, <1>5, <1>6, <1>7, <1>8, <1>9, <1>10
       DEF GeneratorStep, ConsumerStep

(* The invariant holds of every behaviour. *)
LEMMA WindowInvariant == Spec => []WindowInv
<1>1. TypeOK /\ WindowInv /\ [Next]_vars => WindowInv'
  <2> SUFFICES ASSUME TypeOK, WindowInv, [Next]_vars PROVE WindowInv'
    OBVIOUS
  <2>1. CASE UNCHANGED vars
    BY <2>1 DEF WindowInv, Submitted, Ahead, Taken, Looping, Unfinished, vars, generator
  <2> QED BY <2>1, WindowFetch, WindowGenerator DEF Next
<1> QED BY <1>1, WindowInit, StreamTyped, PTL DEF Spec

(* At most Width ranges are requested at a time, none further than Width   *)
(* ahead of the segment that is yielded.                                   *)
THEOREM StreamWindow == Spec => []Window
<1>1. TypeOK /\ WindowInv => Window
  <2> SUFFICES ASSUME TypeOK, WindowInv PROVE Window
    OBVIOUS
  <2> DEFINE first == IF pc \in {"waiting", "unwinding"} THEN next_yield ELSE next_yield + 1
             last == next_submit - 1
  <2>1. Unfinished \subseteq first..last
    <3> SUFFICES ASSUME NEW i \in Unfinished PROVE i \in first..last
      OBVIOUS
    <3>1. i \in Segments /\ fetch[i] \in {"queued", "running", "cancelling"}
      BY DEF Unfinished
    <3>2. i < next_submit
      BY <3>1, WindowBounds DEF WindowInv, Submitted
    <3>3. i >= next_yield
      BY <3>1, WindowBounds DEF WindowInv, Taken
    <3>4. i # next_yield \/ pc \in {"waiting", "unwinding"}
      BY <3>1, <3>2, WindowBounds DEF WindowInv, Taken, Ahead, Looping, TypeOK, Unfinished
    <3> QED BY <3>1, <3>2, <3>3, <3>4, WindowBounds
  <2>2. /\ first \in Int /\ last \in Int
        /\ (IF first > last THEN 0 ELSE last - first + 1) <= Width
    BY WindowBounds DEF WindowInv, Ahead
  <2>3. Cardinality(Unfinished) <= Width
    <3> HIDE DEF first, last
    <3>1. IsFiniteSet(first..last) /\ Cardinality(first..last) <= Width
      BY <2>2, FS_Interval
    <3>2. Cardinality(Unfinished) <= Cardinality(first..last) /\ IsFiniteSet(Unfinished)
      BY <2>1, <3>1, FS_Subset
    <3>3. Cardinality(Unfinished) \in Nat /\ Cardinality(first..last) \in Nat
      BY <3>1, <3>2, FS_CardinalityType
    <3> QED BY <3>1, <3>2, <3>3, WindowBounds
  <2>4. \A i \in Segments : fetch[i] # "none" => i <= next_yield + Width
    BY WindowBounds DEF WindowInv, Submitted, Ahead
  <2> QED BY <2>3, <2>4 DEF Window
<1> QED BY <1>1, WindowInvariant, StreamTyped, PTL

(* A generator that has ended left no request behind. *)
THEOREM StreamClean == Spec => []NothingLeftRunning
<1>1. WindowInv => NothingLeftRunning
  BY DEF WindowInv, Taken, NothingLeftRunning
<1> QED BY <1>1, WindowInvariant, PTL

(***************************************************************************)
(* The order.  A finished download holds its own segment, and what was     *)
(* delivered ends where the segment in hand, and the part of it already    *)
(* yielded, say.                                                           *)
(***************************************************************************)
Held == \A i \in Segments : fetch[i] = "done" =>
            /\ got[i].first = SegmentStart(i)
            /\ got[i].bytes = ExpectedSize(i)

Position ==
    /\ pc \in {"routes", "waiting", "unwinding"} => Len(delivered) = SegmentStart(next_yield)
    /\ pc = "yielding" => /\ offset <= ExpectedSize(next_yield)
                         /\ Len(delivered) = SegmentStart(next_yield) + offset

Verdict ==
    /\ pc \notin {"closing", "end"} => outcome = "open"
    /\ pc = "closing" => \/ outcome \in {"failed", "closed"}
                         \/ outcome = "complete" /\ Len(delivered) = Size

OrderInv == Held /\ Position /\ Verdict

(* Nothing is delivered at first. *)
LEMMA OrderInit == Init => OrderInv
  BY CountFacts DEF Init, OrderInv, Held, Position, Verdict, SegmentStart

(* A download ends with its own segment, or without one. *)
LEMMA OrderFetch ==
    ASSUME TypeOK, OrderInv, NEW i \in Segments, FetchStep(i)
    PROVE  OrderInv'
<1>1. UNCHANGED <<pc, outcome, next_yield, offset, delivered>>
  BY DEF FetchStep, StartFetch, FetchSucceeds, AttemptFails, FetchCancelled, generator
<1>2. (Position /\ Verdict)'
  BY <1>1 DEF OrderInv, Position, Verdict, SegmentStart, ExpectedSize, SegmentEnd
<1>3. Held'
  <2>1. CASE StartFetch(i) \/ AttemptFails(i) \/ FetchCancelled(i)
    BY <2>1 DEF StartFetch, AttemptFails, FetchCancelled, downloads, OrderInv, Held, TypeOK
  <2>2. CASE FetchSucceeds(i)
    <3>1. PICK r \in Responses :
             Accepted(i, r) /\ got' = [got EXCEPT ![i] = [first |-> r.first, bytes |-> r.bytes]]
      BY <2>2 DEF FetchSucceeds
    <3>2. got'[i].first = SegmentStart(i) /\ got'[i].bytes = ExpectedSize(i)
      BY <3>1 DEF Accepted, TypeOK
    <3>3. \A j \in Segments \ {i} : got'[j] = got[j] /\ fetch'[j] = fetch[j]
      BY <2>2, <3>1 DEF FetchSucceeds, TypeOK
    <3> QED BY <3>2, <3>3 DEF OrderInv, Held
  <2> QED BY <2>1, <2>2 DEF FetchStep
<1> QED BY <1>2, <1>3 DEF OrderInv

(* Submitting and cancelling leave the finished downloads as they are. *)
LEMMA OrderHeld ==
    ASSUME TypeOK, WindowInv, OrderInv, GeneratorStep \/ ConsumerStep
    PROVE  Held'
<1>1. UNCHANGED got
  BY DEF GeneratorStep, ConsumerStep, Open, Take, TakeRaises, Yield, Advance, Finish, Unwind, Closed,
         Abandon, Interrupt, Close, downloads
<1>2. \A i \in Segments : fetch'[i] = "done" => fetch[i] = "done"
  <2>1. \A i \in Segments : Cancel(i) = "done" => fetch[i] = "done"
    BY DEF Cancel
  <2>2. next_yield \in Segments /\ fetch = [i \in Segments |-> fetch[i]]
    BY DEF TypeOK
  <2> QED BY <2>1, <2>2 DEF GeneratorStep, ConsumerStep, Open, Take, TakeRaises, Yield, Advance, Finish,
             Unwind, Closed, Abandon, Interrupt, Close
<1> QED BY <1>1, <1>2 DEF OrderInv, Held

(* A chunk: what it adds, and that it stays within the file. *)
LEMMA YieldFacts ==
    ASSUME TypeOK, WindowInv, OrderInv, Yield
    PROVE  /\ ChunkBytes \in 1..(Size - Len(delivered))
           /\ delivered' = delivered \o [k \in 1..ChunkBytes |-> Len(delivered) + k - 1]
           /\ Len(delivered') = Len(delivered) + ChunkBytes
           /\ offset' = offset + ChunkBytes
           /\ offset' <= ExpectedSize(next_yield)
<1> DEFINE chunk == [k \in 1..ChunkBytes |-> Len(delivered) + k - 1]
<1>1. next_yield \in Segments /\ offset \in Nat /\ delivered \in Seq(Nat)
  BY DEF TypeOK
<1>2. /\ got[next_yield].first = SegmentStart(next_yield)
      /\ got[next_yield].bytes = ExpectedSize(next_yield)
      /\ Len(delivered) = SegmentStart(next_yield) + offset
  BY <1>1 DEF Yield, WindowInv, Taken, OrderInv, Held, Position
<1>3. /\ ChunkBytes \in Nat \ {0}
      /\ offset + ChunkBytes <= ExpectedSize(next_yield)
  BY <1>2, ChunkFacts DEF Yield
<1>4. /\ SegmentStart(next_yield) \in Nat /\ ExpectedSize(next_yield) \in Nat
      /\ SegmentStart(next_yield) + ExpectedSize(next_yield) <= Size
  BY <1>1, BoundsFacts
<1>5. ChunkBytes \in 1..(Size - Len(delivered))
  BY <1>1, <1>2, <1>3, <1>4
<1>6. delivered' = delivered \o chunk
  BY <1>2 DEF Yield
<1>7. chunk \in Seq(Nat) /\ Len(chunk) = ChunkBytes
  <2>1. \A k \in 1..ChunkBytes : Len(delivered) + k - 1 \in Nat
    BY <1>1, <1>3
  <2>2. chunk \in [1..ChunkBytes -> Nat]
    BY <2>1
  <2> HIDE DEF chunk
  <2> QED BY <2>2, <1>3
<1>8. Len(delivered') = Len(delivered) + ChunkBytes
  <2> HIDE DEF chunk
  <2>1. \A t \in Seq(Nat) : Len(delivered \o t) = Len(delivered) + Len(t)
    BY <1>1
  <2> QED BY <1>6, <1>7, <2>1
<1> QED BY <1>3, <1>5, <1>6, <1>8 DEF Yield

(* The finally clause delivers nothing more. *)
LEMMA OrderClose ==
    ASSUME NEW how \in {"complete", "failed", "closed"}, Close(how), Held',
           how = "complete" => Len(delivered) = Size
    PROVE  OrderInv'
<1>1. pc' = "closing" /\ outcome' = how /\ delivered' = delivered
  BY DEF Close, generator
<1>2. Position'
  BY <1>1 DEF Position
<1>3. Verdict'
  BY <1>1 DEF Verdict
<1> QED BY <1>2, <1>3 DEF OrderInv

(* The generator keeps the position and knows how it ends. *)
LEMMA OrderGenerator ==
    ASSUME TypeOK, WindowInv, OrderInv, GeneratorStep \/ ConsumerStep
    PROVE  OrderInv'
<1> USE DEF generator
<1>0. next_yield \in Segments /\ offset \in Nat /\ next_yield \in Nat
  BY WindowBounds DEF TypeOK
<1>a. Held'
  BY OrderHeld
<1>b. ASSUME UNCHANGED next_yield
      PROVE  /\ SegmentStart(next_yield)' = SegmentStart(next_yield)
             /\ ExpectedSize(next_yield)' = ExpectedSize(next_yield)
  BY <1>b DEF SegmentStart, SegmentEnd, ExpectedSize
<1>c. SegmentStart(next_yield) \in Nat /\ ExpectedSize(next_yield) \in Nat \ {0}
  BY <1>0, BoundsFacts
<1>1. CASE Open \/ Interrupt
  BY <1>1, <1>a, <1>b DEF Open, Interrupt, OrderInv, Position, Verdict
<1>2. CASE Take
  BY <1>2, <1>a, <1>b, <1>c DEF Take, OrderInv, Position, Verdict
<1>3. CASE TakeRaises \/ Unwind
  BY <1>3, <1>a, OrderClose DEF TakeRaises, Unwind
<1>4. CASE Yield
  <2>1. UNCHANGED <<pc, outcome, next_yield>> /\ pc = "yielding"
    BY <1>4 DEF Yield
  <2>2. offset' <= ExpectedSize(next_yield) /\ offset' = offset + ChunkBytes
        /\ Len(delivered') = Len(delivered) + ChunkBytes /\ ChunkBytes \in Nat
    BY <1>4, YieldFacts
  <2>3. Len(delivered) = SegmentStart(next_yield) + offset
    BY <2>1 DEF OrderInv, Position
  <2>4. Position'
    BY <1>0, <1>b, <1>c, <2>1, <2>2, <2>3 DEF Position
  <2> QED BY <1>a, <2>1, <2>4 DEF OrderInv, Verdict
<1>5. CASE Advance
  <2>1. got[next_yield].bytes = ExpectedSize(next_yield) /\ pc = "yielding"
    BY <1>5, <1>0 DEF Advance, WindowInv, Taken, OrderInv, Held
  <2>2. offset = ExpectedSize(next_yield) /\ next_yield + 1 < SegmentCount
    BY <1>5, <1>0, <1>c, <2>1 DEF Advance, OrderInv, Position
  <2>3. SegmentStart(next_yield)' = SegmentStart(next_yield + 1)
    BY <1>5 DEF Advance, SegmentStart
  <2>4. Len(delivered)' = SegmentStart(next_yield)'
    BY <1>5, <1>0, <2>1, <2>2, <2>3, BoundsFacts DEF Advance, OrderInv, Position
  <2> QED BY <1>5, <1>a, <2>4 DEF Advance, OrderInv, Position, Verdict
<1>6. CASE Finish
  <2>1. got[next_yield].bytes = ExpectedSize(next_yield) /\ pc = "yielding"
    BY <1>6, <1>0 DEF Finish, WindowInv, Taken, OrderInv, Held
  <2>2. offset = ExpectedSize(next_yield) /\ next_yield + 1 >= SegmentCount
    BY <1>6, <1>0, <1>c, <2>1 DEF Finish, OrderInv, Position
  <2>3. Len(delivered) = Size
    BY <1>0, <2>1, <2>2, BoundsFacts DEF OrderInv, Position
  <2> QED BY <1>6, <1>a, <2>3, OrderClose DEF Finish
<1>7. CASE Abandon
  <2>1. CASE Close("closed")
    BY <2>1, <1>a, OrderClose
  <2>2. CASE pc' = "end"
    BY <2>2, <1>a DEF OrderInv, Position, Verdict
  <2> QED BY <1>7, <2>1, <2>2 DEF Abandon
<1>8. CASE Closed
  BY <1>8, <1>a DEF Closed, OrderInv, Position, Verdict
<1> QED BY <1>1, <1>2, <1>3, <1>4, <1>5, <1>6, <1>7, <1>8
       DEF GeneratorStep, ConsumerStep

(* The invariant holds of every behaviour. *)
LEMMA OrderInvariant == Spec => []OrderInv
<1>1. TypeOK /\ WindowInv /\ OrderInv /\ [Next]_vars => OrderInv'
  <2> SUFFICES ASSUME TypeOK, WindowInv, OrderInv, [Next]_vars PROVE OrderInv'
    OBVIOUS
  <2>1. CASE UNCHANGED vars
    BY <2>1 DEF OrderInv, Held, Position, Verdict, vars, generator, downloads,
                SegmentStart, SegmentEnd, ExpectedSize
  <2> QED BY <2>1, OrderFetch, OrderGenerator DEF Next
<1> QED BY <1>1, OrderInit, StreamTyped, WindowInvariant, PTL DEF Spec

(* Both generators implement the ordered stream: each step of theirs hands *)
(* over the next bytes, ends the stream as OrderedStream allows, or        *)
(* changes nothing that the consumer sees.                                 *)
THEOREM StreamInOrder == Spec => InOrder
<1> DEFINE shown == IF pc = "end" THEN outcome ELSE "open"
<1>1. Init => Ordered!Init
  BY DEF Init, Ordered!Init
<1>2. TypeOK /\ WindowInv /\ OrderInv /\ [Next]_vars => [Ordered!Next]_<<delivered, shown>>
  <2> SUFFICES ASSUME TypeOK, WindowInv, OrderInv, [Next]_vars
               PROVE  Ordered!Next \/ UNCHANGED <<delivered, shown>>
    OBVIOUS
  <2> USE DEF generator
  <2>1. CASE Yield
    <3>1. shown = "open" /\ shown' = "open"
      BY <2>1 DEF Yield
    <3>2. Ordered!Emit(ChunkBytes)
      BY <2>1, <3>1, YieldFacts DEF Ordered!Emit
    <3> QED BY <2>1, <3>2, YieldFacts DEF Ordered!Next
  <2>2. CASE Closed
    <3>1. shown = "open" /\ shown' = outcome /\ UNCHANGED delivered
      BY <2>2 DEF Closed
    <3>2. \/ outcome \in {"failed", "closed"}
          \/ outcome = "complete" /\ Len(delivered) = Size
      BY <2>2 DEF Closed, OrderInv, Verdict
    <3>3. Ordered!Break \/ Ordered!Complete
      BY <3>1, <3>2 DEF Ordered!Break, Ordered!Complete
    <3> QED BY <3>3 DEF Ordered!Next
  <2>3. CASE Abandon
    <3>1. CASE Close("closed") /\ pc = "yielding"
      BY <3>1 DEF Close
    <3>2. CASE pc = "routes" /\ pc' = "end" /\ outcome' = "closed" /\ UNCHANGED delivered
      BY <3>2 DEF Ordered!Next, Ordered!Break
    <3> QED BY <2>3, <3>1, <3>2 DEF Abandon
  <2>4. CASE \E i \in Segments : FetchStep(i)
    BY <2>4 DEF FetchStep, StartFetch, FetchSucceeds, AttemptFails, FetchCancelled
  <2>5. CASE Open \/ Take \/ TakeRaises \/ Advance \/ Finish \/ Unwind \/ Interrupt
    BY <2>5 DEF Open, Take, TakeRaises, Advance, Finish, Unwind, Interrupt, Close
  <2>6. CASE UNCHANGED vars
    BY <2>6 DEF vars
  <2> QED BY <2>1, <2>2, <2>3, <2>4, <2>5, <2>6 DEF Next, GeneratorStep, ConsumerStep
<1> QED BY <1>1, <1>2, StreamTyped, WindowInvariant, OrderInvariant, PTL
        DEF Spec, InOrder, Ordered!Spec
(***************************************************************************)
(* Failover.  While no working route has failed, every failed attempt was  *)
(* on a broken one; a download that failed has tried retries + 1 times.    *)
(***************************************************************************)
Tried ==
    /\ glitches = 0 =>
           \A i \in Segments : \A k \in Nat : k < attempt[i] => Route(k) \in Broken
    /\ \A i \in Segments : fetch[i] = "failed" =>
           attempt[i] = Retries /\ (glitches = 0 => Route(Retries) \in Broken)
    /\ outcome = "failed" => \E i \in Segments : fetch[i] = "failed"

(* The first attempts take the routes in their order. *)
LEMMA RouteFacts == \A r \in 0..(Routes - 1) : Route(r) = r
<1> SUFFICES ASSUME NEW r \in 0..(Routes - 1) PROVE r % Routes = r
  BY DEF Route
<1> QED BY SMTT(20)

(* A download that moves on. *)
LEMMA TriedFetch ==
    ASSUME TypeOK, Tried, NEW i \in Segments, FetchStep(i)
    PROVE  Tried'
<1>0. /\ UNCHANGED outcome
      /\ fetch \in [Segments -> {"none", "queued", "running", "done", "failed",
                                 "cancelling", "cancelled"}]
      /\ attempt \in [Segments -> 0..Retries] /\ glitches \in Nat
  BY DEF TypeOK, FetchStep, StartFetch, FetchSucceeds, AttemptFails, FetchCancelled
<1>1. CASE StartFetch(i) \/ FetchSucceeds(i) \/ FetchCancelled(i)
  <2>1. /\ UNCHANGED <<attempt, glitches>>
        /\ \A j \in Segments : fetch'[j] = "failed" <=> fetch[j] = "failed"
    BY <1>0, <1>1 DEF StartFetch, FetchSucceeds, FetchCancelled, downloads
  <2> QED BY <1>0, <2>1 DEF Tried, Route
<1>2. CASE AttemptFails(i)
  <2>1. /\ fetch[i] = "running" /\ glitches' \in Nat
        /\ glitches' = 0 => glitches = 0 /\ Route(attempt[i]) \in Broken
    BY <1>0, <1>2 DEF AttemptFails
  <2>2. CASE MayRetry(i) /\ attempt' = [attempt EXCEPT ![i] = @ + 1] /\ UNCHANGED fetch
    <3>1. attempt'[i] = attempt[i] + 1 /\ \A j \in Segments \ {i} : attempt'[j] = attempt[j]
      BY <1>0, <2>2
    <3>2. ASSUME glitches' = 0, NEW j \in Segments, NEW k \in Nat, k < attempt'[j]
          PROVE  Route(k) \in Broken
      <4>1. CASE j # i
        BY <2>1, <3>1, <3>2, <4>1 DEF Tried
      <4>2. CASE j = i
        <5>1. k < attempt[i] \/ k = attempt[i]
          BY <1>0, <3>1, <3>2, <4>2
        <5> QED BY <2>1, <3>2, <5>1 DEF Tried
      <4> QED BY <4>1, <4>2
    <3>3. \A j \in Segments : fetch'[j] = "failed" =>
             attempt'[j] = Retries /\ (glitches' = 0 => Route(Retries) \in Broken)
      BY <2>1, <2>2, <3>1 DEF Tried
    <3> QED BY <1>0, <2>2, <3>2, <3>3 DEF Tried, Route
  <2>3. CASE ~MayRetry(i) /\ fetch' = [fetch EXCEPT ![i] = "failed"] /\ UNCHANGED attempt
    <3>1. attempt[i] = Retries
      BY <1>0, <2>3 DEF MayRetry
    <3>2. fetch'[i] = "failed" /\ \A j \in Segments \ {i} : fetch'[j] = fetch[j]
      BY <1>0, <2>3
    <3> QED BY <1>0, <2>1, <2>3, <3>1, <3>2 DEF Tried, Route
  <2> QED BY <1>2, <2>2, <2>3 DEF AttemptFails
<1> QED BY <1>1, <1>2 DEF FetchStep

(* The generator fails only by a download that has failed. *)
LEMMA TriedGenerator ==
    ASSUME TypeOK, OrderInv, Tried, GeneratorStep \/ ConsumerStep
    PROVE  Tried'
<1>0. UNCHANGED <<attempt, glitches>> /\ next_yield \in Segments
  BY DEF TypeOK, GeneratorStep, ConsumerStep, Open, Take, TakeRaises, Yield, Advance,
         Finish, Unwind, Closed, Abandon, Interrupt, Close, downloads
<1>1. \A i \in Segments : fetch'[i] = "failed" => fetch[i] = "failed"
  <2>1. \A i \in Segments : Cancel(i) = "failed" => fetch[i] = "failed"
    BY DEF Cancel
  <2>2. fetch = [i \in Segments |-> fetch[i]]
    BY DEF TypeOK
  <2> QED BY <1>0, <2>1, <2>2 DEF GeneratorStep, ConsumerStep, Open, Take, TakeRaises,
             Yield, Advance, Finish, Unwind, Closed, Abandon, Interrupt, Close
<1>2. outcome' = "failed" => \E i \in Segments : fetch'[i] = "failed"
  <2>1. CASE TakeRaises
    <3>1. Cancel(next_yield) = "failed" /\ fetch[next_yield] = "failed"
      BY <2>1 DEF TakeRaises, Cancel
    <3>2. fetch'[next_yield] = "failed"
      BY <1>0, <2>1, <3>1 DEF TakeRaises, Close
    <3> QED BY <1>0, <3>2
  <2>2. CASE Open \/ Take \/ Interrupt \/ Yield \/ Advance
    BY <2>2 DEF Open, Take, Interrupt, Yield, Advance, OrderInv, Verdict
  <2>3. CASE Closed
    BY <2>3 DEF Closed, Tried
  <2>4. CASE Finish \/ Unwind \/ Abandon
    BY <2>4 DEF Finish, Unwind, Abandon, Close
  <2> QED BY <2>1, <2>2, <2>3, <2>4 DEF GeneratorStep, ConsumerStep
<1> QED BY <1>0, <1>1, <1>2 DEF Tried, Route

(* With an attempt for every route, a download fails only when a route     *)
(* that works has failed too.                                              *)
THEOREM StreamFailover == Spec => []Failover
<1>1. Init => Tried
  BY DEF Init, Tried
<1>2. TypeOK /\ OrderInv /\ Tried /\ [Next]_vars => Tried'
  <2> SUFFICES ASSUME TypeOK, OrderInv, Tried, [Next]_vars PROVE Tried'
    OBVIOUS
  <2>1. CASE UNCHANGED vars
    BY <2>1 DEF Tried, Route, vars
  <2> QED BY <2>1, TriedFetch, TriedGenerator DEF Next
<1>3. TypeOK /\ Tried => Failover
  <2> SUFFICES ASSUME TypeOK, Tried, Retries + 1 >= Routes, outcome = "failed",
                      ~(glitches > 0)
               PROVE  Broken = 0..(Routes - 1)
    BY DEF Failover
  <2>1. glitches = 0
    BY DEF TypeOK
  <2>2. PICK i \in Segments : fetch[i] = "failed"
    BY DEF Tried
  <2>3. /\ attempt[i] = Retries /\ Route(Retries) \in Broken
        /\ \A k \in Nat : k < Retries => Route(k) \in Broken
    BY <2>1, <2>2 DEF Tried
  <2>4. \A r \in 0..(Routes - 1) : r \in Broken
    <3> TAKE r \in 0..(Routes - 1)
    <3>1. r < Retries \/ r = Retries
      OBVIOUS
    <3> QED BY <2>3, <3>1, RouteFacts
  <2> QED BY <2>4
<1> QED BY <1>1, <1>2, <1>3, StreamTyped, OrderInvariant, PTL DEF Spec
=============================================================================
