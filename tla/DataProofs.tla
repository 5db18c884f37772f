----------------------------- MODULE DataProofs -----------------------------
(***************************************************************************)
(* What the operators compute that the models take from the libraries and  *)
(* from Subsequence: the sums of SumFunctionOnSet, which the proofs about  *)
(* bytes in an account, a selection or an upload rest on, and the elements *)
(* of a sequence at some of its places.                                    *)
(*                                                                         *)
(* An induction over sets is an argument about a smallest set for which    *)
(* the claim fails (SmallestSet).                                          *)
(***************************************************************************)
EXTENDS Subsequence, SequencesExt, FiniteSetTheorems, WellFoundedInduction, TLAPS

(* Among subsets of a finite set there is one that contains no other. *)
LEMMA SmallestSet ==
    ASSUME NEW D, IsFiniteSet(D), NEW B \in SUBSET (SUBSET D), B # {}
    PROVE  \E S \in B : \A T \in B : T \subseteq S => T = S
<1>1. IsWellFoundedOn(StrictSubsetOrdering(D), FiniteSubsetsOf(D))
  BY FS_StrictSubsetOrderingWellFounded
<1>2. FiniteSubsetsOf(D) = SUBSET D
  BY FS_FiniteSubsetsOfFinite
<1>3. PICK S \in B : \A T \in B : ~(<<T, S>> \in StrictSubsetOrdering(D))
  <2> DEFINE R == StrictSubsetOrdering(D)
  <2>1. IsWellFoundedOn(R, SUBSET D)
    BY <1>1, <1>2
  <2> HIDE DEF R
  <2>2. \E x \in B : \A y \in B : ~(<<y, x>> \in R)
    BY <2>1, WFMin
  <2> QED BY <2>2 DEF R
<1>4. ASSUME NEW T \in B, T \subseteq S
      PROVE  T = S
  <2>1. T # S => <<T, S>> \in StrictSubsetOrdering(D)
    BY <1>4 DEF StrictSubsetOrdering
  <2> QED BY <1>3, <2>1
<1> QED BY <1>4

(* The library's fold, as a function on the subsets of S. *)
Adds(g, f, S) ==
    g = [s \in SUBSET S |->
            IF s = {} THEN 0 ELSE f[CHOOSE x \in s : TRUE] + g[s \ {CHOOSE x \in s : TRUE}]]

LEMMA SumIsFold ==
    ASSUME NEW f, NEW S
    PROVE  SumFunctionOnSet(f, S) = (CHOOSE g : Adds(g, f, S))[S]
  BY Zenon DEF SumFunctionOnSet, FoldFunctionOnSet, MapThenFoldSet, Adds

(* The folds of two sets agree on the subsets of the smaller. *)
LEMMA FoldsAgree ==
    ASSUME NEW f, NEW S, NEW T \in SUBSET S, IsFiniteSet(T),
           NEW g, NEW h, Adds(g, f, S), Adds(h, f, T)
    PROVE  \A s \in SUBSET T : g[s] = h[s]
<1> DEFINE Bad == {s \in SUBSET T : g[s] # h[s]}
<1>1. SUFFICES ASSUME Bad # {} PROVE FALSE
  OBVIOUS
<1>2. PICK s \in Bad : \A t \in Bad : t \subseteq s => t = s
  <2>1. Bad \in SUBSET (SUBSET T)
    OBVIOUS
  <2> HIDE DEF Bad
  <2> QED BY <1>1, <2>1, SmallestSet
<1> DEFINE x == CHOOSE x \in s : TRUE
           rest == s \ {x}
<1>3. s \in SUBSET T /\ s \in SUBSET S /\ g[s] # h[s]
  OBVIOUS
<1>4. s # {} => x \in s
  OBVIOUS
<1>5. /\ g[s] = IF s = {} THEN 0 ELSE f[x] + g[rest]
      /\ h[s] = IF s = {} THEN 0 ELSE f[x] + h[rest]
  BY <1>3 DEF Adds
<1>6. s # {} => g[rest] = h[rest]
  BY <1>2, <1>3, <1>4
<1> HIDE DEF x, rest, Bad
<1> QED BY <1>3, <1>5, <1>6

(* The fold exists for every finite set. *)
LEMMA FoldExists ==
    ASSUME NEW f, NEW S, IsFiniteSet(S)
    PROVE  Adds(CHOOSE g : Adds(g, f, S), f, S)
<1> DEFINE Bad == {s \in SUBSET S : ~ \E g : Adds(g, f, s)}
           Fold(s) == CHOOSE g : Adds(g, f, s)
<1>1. SUFFICES Bad = {}
  BY FS_Subset
<1>2. SUFFICES ASSUME Bad # {} PROVE FALSE
  OBVIOUS
<1>3. PICK s \in Bad : \A t \in Bad : t \subseteq s => t = s
  <2>1. Bad \in SUBSET (SUBSET S)
    OBVIOUS
  <2> HIDE DEF Bad
  <2> QED BY <1>2, <2>1, SmallestSet
<1>4. s \in SUBSET S /\ ~ \E g : Adds(g, f, s)
  OBVIOUS
<1>5. \A t \in SUBSET s : t # s => Adds(Fold(t), f, t)
  BY <1>3, <1>4
<1> DEFINE First(t) == CHOOSE x \in t : TRUE
           all == [t \in SUBSET s |-> IF t = {} THEN 0
                                      ELSE f[First(t)] + Fold(t \ {First(t)})[t \ {First(t)}]]
<1>6. ASSUME NEW t \in SUBSET s, t # {}
      PROVE  all[t \ {First(t)}] = Fold(t \ {First(t)})[t \ {First(t)}]
  <2> DEFINE u == t \ {First(t)}
             v == u \ {First(u)}
  <2>1. First(t) \in t /\ u \in SUBSET s /\ u # s
    BY <1>6
  <2>2. Adds(Fold(u), f, u)
    BY <1>5, <2>1
  <2>3. Fold(u)[u] = IF u = {} THEN 0 ELSE f[First(u)] + Fold(u)[v]
    <3> DEFINE g == Fold(u)
    <3>1. Adds(g, f, u)
      BY <2>2
    <3> HIDE DEF g
    <3>2. g[u] = IF u = {} THEN 0 ELSE f[First(u)] + g[v]
      BY <3>1 DEF Adds
    <3> QED BY <3>2 DEF g
  <2>4. u # {} => Fold(u)[v] = Fold(v)[v]
    <3>1. SUFFICES ASSUME u # {} PROVE Fold(u)[v] = Fold(v)[v]
      OBVIOUS
    <3>2. First(u) \in u
      BY <3>1
    <3>3. v \in SUBSET s /\ v \in SUBSET u /\ v # s
      BY <2>1, <3>2
    <3>4. Adds(Fold(v), f, v)
      BY <1>5, <3>3
    <3>5. IsFiniteSet(v)
      BY <1>4, <3>3, FS_Subset
    <3> HIDE DEF u, v, Fold, First
    <3> QED BY <2>2, <3>3, <3>4, <3>5, FoldsAgree
  <2>5. all[u] = IF u = {} THEN 0 ELSE f[First(u)] + Fold(v)[v]
    BY <2>1
  <2> HIDE DEF v, Fold, First, all
  <2>6. all[u] = Fold(u)[u]
    BY <2>3, <2>4, <2>5
  <2> QED BY <2>6 DEF u
<1>7. Adds(all, f, s)
  <2> DEFINE step == [t \in SUBSET s |-> IF t = {} THEN 0
                                         ELSE f[First(t)] + all[t \ {First(t)}]]
  <2>1. \A t \in SUBSET s : all[t] = step[t]
    <3> TAKE t \in SUBSET s
    <3> HIDE DEF Fold
    <3>1. t # {} => all[t \ {First(t)}] = Fold(t \ {First(t)})[t \ {First(t)}]
      BY <1>6
    <3> HIDE DEF First
    <3>2. all[t] = IF t = {} THEN 0
                   ELSE f[First(t)] + Fold(t \ {First(t)})[t \ {First(t)}]
      OBVIOUS
    <3> HIDE DEF all
    <3>3. step[t] = IF t = {} THEN 0 ELSE f[First(t)] + all[t \ {First(t)}]
      OBVIOUS
    <3> HIDE DEF step
    <3> QED BY <3>1, <3>2, <3>3
  <2>2. DOMAIN all = SUBSET s /\ all = [t \in SUBSET s |-> all[t]]
    OBVIOUS
  <2> HIDE DEF all
  <2>3. all = step
    BY <2>1, <2>2
  <2> QED BY <2>3, Zenon DEF Adds
<1> QED BY <1>4, <1>7

(* So the sum is that of an element and of the others. *)
LEMMA SumUnfolds ==
    ASSUME NEW f, NEW S, IsFiniteSet(S)
    PROVE  LET x == CHOOSE x \in S : TRUE
           IN  SumFunctionOnSet(f, S) =
                   IF S = {} THEN 0 ELSE f[x] + SumFunctionOnSet(f, S \ {x})
<1> DEFINE Fold(s) == CHOOSE g : Adds(g, f, s)
           x == CHOOSE x \in S : TRUE
           rest == S \ {x}
<1>1. IsFiniteSet(rest) /\ rest \in SUBSET S
  BY FS_Subset
<1>2. Adds(Fold(S), f, S) /\ Adds(Fold(rest), f, rest)
  BY <1>1, FoldExists
<1>3. SumFunctionOnSet(f, S) = Fold(S)[S] /\ SumFunctionOnSet(f, rest) = Fold(rest)[rest]
  BY SumIsFold
<1>4. Fold(S)[S] = IF S = {} THEN 0 ELSE f[x] + Fold(S)[rest]
  <2> DEFINE g == Fold(S)
  <2>1. Adds(g, f, S)
    BY <1>2
  <2> HIDE DEF g
  <2>2. g[S] = IF S = {} THEN 0 ELSE f[x] + g[rest]
    BY <2>1 DEF Adds
  <2> QED BY <2>2 DEF g
<1>5. Fold(S)[rest] = Fold(rest)[rest]
  <2> HIDE DEF Fold, rest
  <2> QED BY <1>1, <1>2, FoldsAgree
<1> HIDE DEF Fold, x, rest
<1>6. SumFunctionOnSet(f, S) = IF S = {} THEN 0 ELSE f[x] + SumFunctionOnSet(f, rest)
  BY <1>3, <1>4, <1>5
<1> QED BY <1>6 DEF x, rest

(* A sum of naturals is a natural. *)
LEMMA SumType ==
    ASSUME NEW D, NEW f \in [D -> Nat], NEW S \in SUBSET D, IsFiniteSet(S)
    PROVE  SumFunctionOnSet(f, S) \in Nat
<1> DEFINE Bad == {s \in SUBSET S : SumFunctionOnSet(f, s) \notin Nat}
<1>1. SUFFICES ASSUME Bad # {} PROVE FALSE
  OBVIOUS
<1>2. PICK s \in Bad : \A t \in Bad : t \subseteq s => t = s
  <2>1. Bad \in SUBSET (SUBSET S)
    OBVIOUS
  <2> HIDE DEF Bad
  <2> QED BY <1>1, <2>1, SmallestSet
<1> DEFINE x == CHOOSE x \in s : TRUE
<1>3. s \in SUBSET S /\ IsFiniteSet(s) /\ SumFunctionOnSet(f, s) \notin Nat
  BY FS_Subset
<1>4. SumFunctionOnSet(f, s) = IF s = {} THEN 0 ELSE f[x] + SumFunctionOnSet(f, s \ {x})
  BY <1>3, SumUnfolds
<1>5. s # {} => x \in s
  OBVIOUS
<1>6. s # {} => SumFunctionOnSet(f, s \ {x}) \in Nat
  BY <1>2, <1>3, <1>5
<1> HIDE DEF x, Bad
<1>7. s # {} => f[x] \in Nat
  BY <1>3, <1>5
<1> QED BY <1>3, <1>4, <1>6, <1>7

(* Any element can be taken first. *)
LEMMA SumTake ==
    ASSUME NEW D, NEW f \in [D -> Nat], NEW S \in SUBSET D, IsFiniteSet(S)
    PROVE  \A y \in S : SumFunctionOnSet(f, S) = f[y] + SumFunctionOnSet(f, S \ {y})
<1> DEFINE Sum(s) == SumFunctionOnSet(f, s)
           Bad == {s \in SUBSET S : \E y \in s : Sum(s) # f[y] + Sum(s \ {y})}
<1>1. SUFFICES ASSUME Bad # {} PROVE FALSE
  OBVIOUS
<1>2. PICK s \in Bad : \A t \in Bad : t \subseteq s => t = s
  <2>1. Bad \in SUBSET (SUBSET S)
    OBVIOUS
  <2> HIDE DEF Bad
  <2> QED BY <1>1, <2>1, SmallestSet
<1>3. PICK y \in s : Sum(s) # f[y] + Sum(s \ {y})
  OBVIOUS
<1> DEFINE x == CHOOSE x \in s : TRUE
<1>4. \A t \in SUBSET S : IsFiniteSet(t) /\ Sum(t) \in Nat
  BY FS_Subset, SumType
<1>5. Sum(s) = f[x] + Sum(s \ {x}) /\ x \in s
  BY <1>3, <1>4, SumUnfolds
<1>6. x # y
  BY <1>3, <1>5
<1>7. ASSUME NEW t \in SUBSET s, t # s, NEW z \in t
      PROVE  Sum(t) = f[z] + Sum(t \ {z})
  BY <1>2, <1>7
<1> HIDE DEF Bad, x
<1>8. Sum(s \ {x}) = f[y] + Sum((s \ {x}) \ {y})
  BY <1>5, <1>6, <1>7
<1>9. Sum(s \ {y}) = f[x] + Sum((s \ {y}) \ {x})
  BY <1>5, <1>6, <1>7
<1>10. (s \ {x}) \ {y} = (s \ {y}) \ {x} /\ (s \ {x}) \ {y} \in SUBSET S
  BY <1>2 DEF Bad
<1>11. f[x] \in Nat /\ f[y] \in Nat
  BY <1>2, <1>5 DEF Bad
<1> HIDE DEF Sum
<1> QED BY <1>3, <1>4, <1>5, <1>8, <1>9, <1>10, <1>11

(* A set with a new element. *)
LEMMA SumAdd ==
    ASSUME NEW D, NEW f \in [D -> Nat], NEW S \in SUBSET D, IsFiniteSet(S), NEW y \in D \ S
    PROVE  SumFunctionOnSet(f, S \cup {y}) = SumFunctionOnSet(f, S) + f[y]
<1> DEFINE Sum(s) == SumFunctionOnSet(f, s)
<1>1. S \cup {y} \in SUBSET D /\ IsFiniteSet(S \cup {y})
  BY FS_AddElement
<1>2. Sum(S \cup {y}) = f[y] + Sum((S \cup {y}) \ {y})
  BY <1>1, SumTake
<1>3. Sum((S \cup {y}) \ {y}) = Sum(S)
  <2>1. (S \cup {y}) \ {y} = S
    OBVIOUS
  <2> QED BY <2>1
<1>4. Sum(S) \in Nat /\ f[y] \in Nat
  BY SumType
<1> HIDE DEF Sum
<1>5. Sum(S \cup {y}) = Sum(S) + f[y]
  <2> DEFINE a == Sum(S)
             b == f[y]
  <2>1. Sum(S \cup {y}) = b + a /\ a \in Nat /\ b \in Nat
    BY <1>2, <1>3, <1>4
  <2> HIDE DEF a, b
  <2>2. b + a = a + b
    BY <2>1
  <2> QED BY <2>1, <2>2 DEF a, b
<1> QED BY <1>5 DEF Sum

(* A larger set has no smaller sum. *)
LEMMA SumMonotone ==
    ASSUME NEW D, NEW f \in [D -> Nat], NEW S \in SUBSET D, IsFiniteSet(S), NEW T \in SUBSET S
    PROVE  SumFunctionOnSet(f, T) <= SumFunctionOnSet(f, S)
<1> DEFINE Sum(s) == SumFunctionOnSet(f, s)
           Bad == {s \in SUBSET S : T \subseteq s /\ ~(Sum(T) <= Sum(s))}
<1>1. SUFFICES ASSUME Bad # {} PROVE FALSE
  OBVIOUS
<1>2. PICK s \in Bad : \A t \in Bad : t \subseteq s => t = s
  <2>1. Bad \in SUBSET (SUBSET S)
    OBVIOUS
  <2> HIDE DEF Bad
  <2> QED BY <1>1, <2>1, SmallestSet
<1>3. s \in SUBSET S /\ T \subseteq s /\ ~(Sum(T) <= Sum(s))
  OBVIOUS
<1>4. \A t \in SUBSET S : IsFiniteSet(t) /\ Sum(t) \in Nat
  BY FS_Subset, SumType
<1>5. PICK y \in s : y \notin T
  <2>1. s # T
    BY <1>3, <1>4
  <2> QED BY <1>3, <2>1
<1>6. Sum(s) = f[y] + Sum(s \ {y}) /\ f[y] \in Nat
  BY <1>3, <1>4, SumTake
<1>7. Sum(T) <= Sum(s \ {y}) /\ s \ {y} \in SUBSET S
  BY <1>2, <1>3, <1>5
<1> HIDE DEF Sum, Bad
<1> QED BY <1>3, <1>4, <1>6, <1>7

(* Only the summands in the set count. *)
LEMMA SumSame ==
    ASSUME NEW f, NEW g, NEW S, IsFiniteSet(S), \A x \in S : f[x] = g[x]
    PROVE  SumFunctionOnSet(f, S) = SumFunctionOnSet(g, S)
<1> DEFINE Bad == {s \in SUBSET S : SumFunctionOnSet(f, s) # SumFunctionOnSet(g, s)}
<1>1. SUFFICES ASSUME Bad # {} PROVE FALSE
  OBVIOUS
<1>2. PICK s \in Bad : \A t \in Bad : t \subseteq s => t = s
  <2>1. Bad \in SUBSET (SUBSET S)
    OBVIOUS
  <2> HIDE DEF Bad
  <2> QED BY <1>1, <2>1, SmallestSet
<1> DEFINE x == CHOOSE x \in s : TRUE
<1>3. s \in SUBSET S /\ IsFiniteSet(s) /\ SumFunctionOnSet(f, s) # SumFunctionOnSet(g, s)
  BY FS_Subset
<1>4. /\ SumFunctionOnSet(f, s) = IF s = {} THEN 0 ELSE f[x] + SumFunctionOnSet(f, s \ {x})
      /\ SumFunctionOnSet(g, s) = IF s = {} THEN 0 ELSE g[x] + SumFunctionOnSet(g, s \ {x})
  BY <1>3, SumUnfolds
<1>5. s # {} => x \in s
  OBVIOUS
<1>6. s # {} => SumFunctionOnSet(f, s \ {x}) = SumFunctionOnSet(g, s \ {x})
  BY <1>2, <1>3, <1>5
<1> HIDE DEF x, Bad
<1>7. s # {} => f[x] = g[x]
  BY <1>3, <1>5
<1> QED BY <1>3, <1>4, <1>6, <1>7

LEMMA SumEmpty == ASSUME NEW f PROVE SumFunctionOnSet(f, {}) = 0
  BY FS_EmptySet, SumUnfolds

(* One summand in front, and what is left when another replaces it. *)
LEMMA SumReplace ==
    ASSUME NEW D, IsFiniteSet(D), NEW f \in [D -> Nat], NEW g \in [D -> Nat], NEW y \in D,
           \A x \in D \ {y} : f[x] = g[x]
    PROVE  \E rest \in Nat : SumFunction(f) = f[y] + rest /\ SumFunction(g) = g[y] + rest
<1> DEFINE rest == SumFunctionOnSet(f, D \ {y})
<1>1. IsFiniteSet(D \ {y}) /\ D \ {y} \in SUBSET D
  BY FS_RemoveElement
<1>2. rest \in Nat
  BY <1>1, SumType
<1>3. SumFunctionOnSet(g, D \ {y}) = rest
  <2>1. SumFunctionOnSet(f, D \ {y}) = SumFunctionOnSet(g, D \ {y})
    BY <1>1, SumSame
  <2> QED BY <2>1
<1>4. SumFunctionOnSet(f, D) = f[y] + rest
  BY SumTake
<1>5. SumFunctionOnSet(g, D) = g[y] + rest
  BY <1>3, SumTake
<1>6. SumFunction(f) = SumFunctionOnSet(f, D) /\ SumFunction(g) = SumFunctionOnSet(g, D)
  BY DEF SumFunction
<1> HIDE DEF rest
<1> QED BY <1>2, <1>4, <1>5, <1>6

(* Smaller summands have no larger sum. *)
LEMMA SumLeq ==
    ASSUME NEW D, NEW f \in [D -> Nat], NEW g \in [D -> Nat],
           NEW S \in SUBSET D, IsFiniteSet(S), \A x \in S : f[x] <= g[x]
    PROVE  SumFunctionOnSet(f, S) <= SumFunctionOnSet(g, S)
<1> DEFINE F(s) == SumFunctionOnSet(f, s)
           G(s) == SumFunctionOnSet(g, s)
           Bad == {s \in SUBSET S : ~(F(s) <= G(s))}
<1>1. SUFFICES ASSUME Bad # {} PROVE FALSE
  OBVIOUS
<1>2. PICK s \in Bad : \A t \in Bad : t \subseteq s => t = s
  <2>1. Bad \in SUBSET (SUBSET S)
    OBVIOUS
  <2> HIDE DEF Bad
  <2> QED BY <1>1, <2>1, SmallestSet
<1>3. s \in SUBSET S /\ IsFiniteSet(s) /\ ~(F(s) <= G(s))
  BY FS_Subset
<1>4. s = {} => F(s) = 0 /\ G(s) = 0
  BY SumEmpty
<1>5. PICK y \in s : TRUE
  BY <1>3, <1>4
<1>6. F(s) = f[y] + F(s \ {y}) /\ G(s) = g[y] + G(s \ {y})
  BY <1>3, SumTake
<1>7. s \ {y} \in SUBSET S /\ F(s \ {y}) <= G(s \ {y})
  BY <1>2, <1>3
<1>8. F(s \ {y}) \in Nat /\ G(s \ {y}) \in Nat
  BY <1>7, FS_Subset, SumType
<1>9. f[y] \in Nat /\ g[y] \in Nat /\ f[y] <= g[y]
  BY <1>3, <1>5
<1> HIDE DEF F, G, Bad
<1> QED BY <1>3, <1>6, <1>7, <1>8, <1>9

(* A sum is that of a part and of the rest. *)
LEMMA SumSplit ==
    ASSUME NEW D, NEW f \in [D -> Nat], NEW S \in SUBSET D, IsFiniteSet(S), NEW T \in SUBSET S
    PROVE  SumFunctionOnSet(f, S) = SumFunctionOnSet(f, T) + SumFunctionOnSet(f, S \ T)
<1> DEFINE Sum(s) == SumFunctionOnSet(f, s)
           Bad == {t \in SUBSET S : Sum(S) # Sum(t) + Sum(S \ t)}
<1>1. SUFFICES ASSUME Bad # {} PROVE FALSE
  OBVIOUS
<1>2. PICK t \in Bad : \A u \in Bad : u \subseteq t => u = t
  <2>1. Bad \in SUBSET (SUBSET S)
    OBVIOUS
  <2> HIDE DEF Bad
  <2> QED BY <1>1, <2>1, SmallestSet
<1>3. t \in SUBSET S /\ Sum(S) # Sum(t) + Sum(S \ t)
  OBVIOUS
<1>4. \A u \in SUBSET S : IsFiniteSet(u) /\ Sum(u) \in Nat
  BY FS_Subset, SumType
<1>5. PICK y \in t : TRUE
  <2>1. ASSUME t = {} PROVE FALSE
    <3>1. Sum(t) = 0 /\ S \ t = S
      BY <2>1, SumEmpty
    <3>2. Sum(S \ t) = Sum(S) /\ Sum(S) \in Nat
      BY <1>4, <3>1
    <3> HIDE DEF Sum
    <3> QED BY <1>3, <3>1, <3>2
  <2> QED BY <2>1
<1> DEFINE u == t \ {y}
<1>6. u \in SUBSET S /\ Sum(S) = Sum(u) + Sum(S \ u)
  BY <1>2, <1>3, <1>5
<1>7. Sum(t) = f[y] + Sum(u) /\ f[y] \in Nat
  BY <1>3, <1>4, <1>5, SumTake
<1>8. Sum(S \ u) = f[y] + Sum(S \ t)
  <2>1. S \ u \in SUBSET S /\ y \in S \ u /\ (S \ u) \ {y} = S \ t
    BY <1>3, <1>5
  <2>2. Sum(S \ u) = f[y] + Sum((S \ u) \ {y})
    BY <1>4, <2>1, SumTake
  <2> QED BY <2>1, <2>2
<1>9. Sum(u) \in Nat /\ Sum(S \ t) \in Nat /\ Sum(S \ u) \in Nat /\ Sum(t) \in Nat
  BY <1>3, <1>4, <1>6
<1> HIDE DEF Sum, u, Bad
<1> QED BY <1>3, <1>6, <1>7, <1>8, <1>9

(* What is zero everywhere has the sum zero. *)
LEMMA SumZero ==
    ASSUME NEW f, NEW S, IsFiniteSet(S), \A x \in S : f[x] = 0
    PROVE  SumFunctionOnSet(f, S) = 0
<1> DEFINE Bad == {s \in SUBSET S : SumFunctionOnSet(f, s) # 0}
<1>1. SUFFICES ASSUME Bad # {} PROVE FALSE
  OBVIOUS
<1>2. PICK s \in Bad : \A t \in Bad : t \subseteq s => t = s
  <2>1. Bad \in SUBSET (SUBSET S)
    OBVIOUS
  <2> HIDE DEF Bad
  <2> QED BY <1>1, <2>1, SmallestSet
<1> DEFINE x == CHOOSE x \in s : TRUE
<1>3. s \in SUBSET S /\ IsFiniteSet(s) /\ SumFunctionOnSet(f, s) # 0
  BY FS_Subset
<1>4. SumFunctionOnSet(f, s) = IF s = {} THEN 0 ELSE f[x] + SumFunctionOnSet(f, s \ {x})
  BY <1>3, SumUnfolds
<1>5. s # {} => x \in s
  OBVIOUS
<1>6. s # {} => SumFunctionOnSet(f, s \ {x}) = 0
  BY <1>2, <1>3, <1>5
<1> HIDE DEF x, Bad
<1>7. s # {} => f[x] = 0
  BY <1>3, <1>5
<1> QED BY <1>3, <1>4, <1>6, <1>7

(* Induction over the numbers is an argument about the smallest one. *)
LEMMA SmallestNumber ==
    ASSUME NEW B \in SUBSET Nat, B # {}
    PROVE  \E m \in B : \A k \in B : m <= k
<1>1. PICK b \in B : TRUE
  OBVIOUS
<1> DEFINE Below == {k \in B : k <= b}
           Initials == {1..k : k \in Below}
<1>2. IsFiniteSet(1..b)
  BY <1>1, FS_Interval
<1>3. Initials \in SUBSET (SUBSET (1..b)) /\ Initials # {}
  <2>1. \A k \in Below : 1..k \subseteq 1..b
    BY <1>1
  <2>2. b \in Below
    BY <1>1
  <2> QED BY <2>1, <2>2
<1>4. PICK S \in Initials : \A T \in Initials : T \subseteq S => T = S
  <2> DEFINE D == 1..b
  <2>1. IsFiniteSet(D) /\ Initials \in SUBSET (SUBSET D) /\ Initials # {}
    BY <1>2, <1>3
  <2> HIDE DEF Initials, D
  <2>2. \E S \in Initials : \A T \in Initials : T \subseteq S => T = S
    BY ONLY <2>1, SmallestSet
  <2> QED BY <2>2
<1>5. PICK m \in Below : S = 1..m
  OBVIOUS
<1>6. ASSUME NEW k \in B PROVE m <= k
  <2> SUFFICES ASSUME k < m PROVE FALSE
    BY <1>5
  <2>1. m \in Nat /\ k \in Nat /\ b \in Nat /\ m <= b
    BY <1>1, <1>5
  <2>2. k \in Below /\ 1..k \in Initials
    BY <2>1
  <2>3. 1..k \subseteq 1..m /\ m \in 1..m /\ m \notin 1..k
    BY <2>1
  <2> QED BY <1>4, <1>5, <2>2, <2>3
<1> QED BY <1>5, <1>6

-----------------------------------------------------------------------------
(* Subsequences *)

LEMMA IntervalSize ==
    ASSUME NEW n \in Nat
    PROVE  IsFiniteSet(1..n) /\ Cardinality(1..n) = n
  BY FS_Interval

(* Numbers tell the elements of a finite set apart; it can be listed in    *)
(* the order of these numbers. *)
LEMMA InOrderOf ==
    ASSUME NEW S, IsFiniteSet(S), NEW p \in [S -> Nat],
           \A x, y \in S : p[x] = p[y] => x = y
    PROVE  \E q \in [1..Cardinality(S) -> S] :
               \A i, j \in DOMAIN q : i < j => p[q[i]] < p[q[j]]
<1> DEFINE n == Cardinality(S)
           UpTo(x) == {y \in S : p[y] <= p[x]}
           rank == [x \in S |-> Cardinality(UpTo(x))]
<1>1. n \in Nat
  BY FS_CardinalityType
<1>2. ASSUME NEW x \in S
      PROVE  IsFiniteSet(UpTo(x)) /\ rank[x] \in 1..n
  <2>1. UpTo(x) \in SUBSET S /\ x \in UpTo(x)
    OBVIOUS
  <2>2. IsFiniteSet(UpTo(x)) /\ Cardinality(UpTo(x)) <= n
    BY <2>1, FS_Subset
  <2>3. Cardinality(UpTo(x)) \in Nat /\ Cardinality(UpTo(x)) # 0
    BY <2>1, <2>2, FS_CardinalityType, FS_EmptySet
  <2>4. Cardinality(UpTo(x)) \in 1..n
    BY <1>1, <2>2, <2>3
  <2> QED BY <2>2, <2>4
<1>3. ASSUME NEW x \in S, NEW y \in S, p[x] < p[y]
      PROVE  rank[x] < rank[y]
  <2>1. UpTo(x) \in SUBSET UpTo(y) /\ y \in UpTo(y) /\ y \notin UpTo(x)
    BY <1>3
  <2>2. Cardinality(UpTo(x)) <= Cardinality(UpTo(y)) /\ Cardinality(UpTo(x)) # Cardinality(UpTo(y))
    BY <1>2, <2>1, FS_Subset
  <2>3. Cardinality(UpTo(x)) \in Nat /\ Cardinality(UpTo(y)) \in Nat
    BY <1>2, FS_CardinalityType
  <2>4. rank[x] = Cardinality(UpTo(x)) /\ rank[y] = Cardinality(UpTo(y))
    OBVIOUS
  <2> HIDE DEF UpTo, rank
  <2> QED BY <2>2, <2>3, <2>4
<1>4. rank \in [S -> 1..n] /\ DOMAIN rank = S
  <2>1. \A x \in S : rank[x] \in 1..n
    BY <1>2
  <2>2. rank = [x \in S |-> rank[x]]
    OBVIOUS
  <2> HIDE DEF rank
  <2> QED BY <2>1, <2>2
<1> HIDE DEF rank
<1>7. IsFiniteSet(1..n) /\ Cardinality(1..n) = n
  BY <1>1, FS_Interval
<1> HIDE DEF n
<1>5. \A x, y \in S : rank[x] = rank[y] => x = y
  <2> SUFFICES ASSUME NEW x \in S, NEW y \in S, rank[x] = rank[y], x # y PROVE FALSE
    OBVIOUS
  <2>1. p[x] \in Nat /\ p[y] \in Nat /\ p[x] # p[y]
    OBVIOUS
  <2>2. p[x] < p[y] \/ p[y] < p[x]
    BY <2>1
  <2>3. rank[x] < rank[y] \/ rank[y] < rank[x]
    BY <1>3, <2>2
  <2>4. rank[x] \in Nat /\ rank[y] \in Nat
    BY <1>1, <1>4
  <2> QED BY <2>3, <2>4
<1>6. rank \in Injection(S, 1..n)
  BY <1>4, <1>5 DEF Injection, IsInjective
<1>8. rank \in Surjection(S, 1..n)
  BY <1>6, <1>7, FS_Injection DEF n
<1>9. \A i \in 1..n : \E x \in S : rank[x] = i
  BY <1>8 DEF Surjection
<1> DEFINE q == [i \in 1..n |-> CHOOSE x \in S : rank[x] = i]
<1>10. \A i \in 1..n : q[i] \in S /\ rank[q[i]] = i
  BY <1>9
<1>11. q \in [1..n -> S] /\ DOMAIN q = 1..n
  BY <1>10
<1>12. ASSUME NEW i \in 1..n, NEW j \in 1..n, i < j PROVE p[q[i]] < p[q[j]]
  <2>1. q[i] \in S /\ q[j] \in S /\ rank[q[i]] = i /\ rank[q[j]] = j
    BY <1>10
  <2> HIDE DEF q
  <2>2. p[q[i]] \in Nat /\ p[q[j]] \in Nat
    BY <2>1
  <2>3. CASE p[q[j]] < p[q[i]]
    <3>1. j < i
      BY <1>3, <2>1, <2>3
    <3> QED BY <1>1, <1>12, <3>1
  <2>4. CASE p[q[j]] = p[q[i]]
    <3>1. i = j
      BY <2>1, <2>4
    <3> QED BY <1>1, <1>12, <3>1
  <2> QED BY <2>2, <2>3, <2>4
<1> QED BY <1>11, <1>12 DEF n

(* The places are taken in their order, each of them once. *)
LEMMA AscendingIs ==
    ASSUME NEW I \in SUBSET Nat, IsFiniteSet(I)
    PROVE  LET k == Ascending(I)
               n == Cardinality(I)
           IN  /\ n \in Nat /\ k \in [1..n -> I]
               /\ \A i, j \in 1..n : i < j => k[i] < k[j]
               /\ \A i, j \in 1..n : k[i] = k[j] => i = j
               /\ \A x \in I : \E i \in 1..n : k[i] = x
<1> DEFINE n == Cardinality(I)
           p == [x \in I |-> x]
           k == Ascending(I)
<1>1. n \in Nat
  BY FS_CardinalityType
<1>2. \E q \in [1..n -> I] : \A i, j \in DOMAIN q : i < j => p[q[i]] < p[q[j]]
  <2>1. p \in [I -> Nat] /\ \A x, y \in I : p[x] = p[y] => x = y
    OBVIOUS
  <2> HIDE DEF p
  <2> QED BY <2>1, InOrderOf
<1>3. \E q \in [1..n -> I] : \A i, j \in DOMAIN q : i < j => q[i] < q[j]
  <2>1. PICK q \in [1..n -> I] : \A i, j \in DOMAIN q : i < j => p[q[i]] < p[q[j]]
    BY <1>2
  <2>2. \A i \in DOMAIN q : p[q[i]] = q[i]
    OBVIOUS
  <2> QED BY <2>1, <2>2
<1>4. k \in [1..n -> I] /\ \A i, j \in DOMAIN k : i < j => k[i] < k[j]
  BY <1>3 DEF Ascending
<1> HIDE DEF k, n
<1>5. \A i, j \in 1..n : k[i] = k[j] => i = j
  <2> SUFFICES ASSUME NEW i \in 1..n, NEW j \in 1..n, k[i] = k[j], i # j PROVE FALSE
    OBVIOUS
  <2>1. i < j \/ j < i
    BY <1>1
  <2>2. k[i] \in Nat /\ DOMAIN k = 1..n
    BY <1>4
  <2>3. k[i] < k[j] \/ k[j] < k[i]
    BY <1>4, <2>1, <2>2
  <2> QED BY <2>2, <2>3
<1>6. k \in Injection(1..n, I)
  BY <1>4, <1>5 DEF Injection, IsInjective
<1>7. IsFiniteSet(1..n) /\ Cardinality(1..n) = n
  BY <1>1, FS_Interval
<1>8. k \in Surjection(1..n, I)
  BY <1>6, <1>7, FS_Injection DEF n
<1>9. \A x \in I : \E i \in 1..n : k[i] = x
  BY <1>8 DEF Surjection
<1> QED BY <1>1, <1>4, <1>5, <1>9 DEF k, n

LEMMA ElementsAtIs ==
    ASSUME NEW T, NEW s \in Seq(T), NEW I \in SUBSET (DOMAIN s)
    PROVE  LET q == ElementsAt(s, I)
           IN  /\ q \in Seq(T) /\ Len(q) = Cardinality(I) /\ IsFiniteSet(I)
               /\ {q[i] : i \in DOMAIN q} = {s[i] : i \in I}
               /\ (\A i, j \in I : s[i] = s[j] => i = j) =>
                      \A i, j \in DOMAIN q : q[i] = q[j] => i = j
<1> DEFINE n == Cardinality(I)
           k == Ascending(I)
           q == ElementsAt(s, I)
<1>1. Len(s) \in Nat /\ DOMAIN s = 1..Len(s) /\ \A i \in I : i \in Nat /\ s[i] \in T
  OBVIOUS
<1>2. IsFiniteSet(I) /\ I \in SUBSET Nat
  <2>1. IsFiniteSet(1..Len(s))
    BY <1>1, FS_Interval
  <2> QED BY <1>1, <2>1, FS_Subset
<1>3. /\ n \in Nat /\ k \in [1..n -> I]
      /\ \A i, j \in 1..n : k[i] = k[j] => i = j
      /\ \A x \in I : \E i \in 1..n : k[i] = x
  BY <1>2, AscendingIs
<1>4. q = [i \in 1..n |-> s[k[i]]]
  BY DEF ElementsAt
<1> HIDE DEF n, k, q
<1>5. q \in Seq(T) /\ Len(q) = n /\ DOMAIN q = 1..n
  BY <1>1, <1>3, <1>4
<1>6. {q[i] : i \in DOMAIN q} = {s[i] : i \in I}
  <2>1. ASSUME NEW i \in 1..n PROVE q[i] = s[k[i]] /\ k[i] \in I
    BY <1>3, <1>4
  <2>2. ASSUME NEW x \in I PROVE \E i \in 1..n : q[i] = s[x]
    BY <1>3, <2>1
  <2>3. {q[i] : i \in DOMAIN q} \subseteq {s[i] : i \in I}
    BY <1>5, <2>1
  <2>4. {s[i] : i \in I} \subseteq {q[i] : i \in DOMAIN q}
    BY <1>5, <2>2
  <2> QED BY <2>3, <2>4
<1>7. ASSUME \A i, j \in I : s[i] = s[j] => i = j
      PROVE  \A i, j \in DOMAIN q : q[i] = q[j] => i = j
  <2> SUFFICES ASSUME NEW i \in 1..n, NEW j \in 1..n, q[i] = q[j] PROVE i = j
    BY <1>5
  <2>1. s[k[i]] = s[k[j]] /\ k[i] \in I /\ k[j] \in I
    BY <1>3, <1>4
  <2> QED BY <1>3, <1>7, <2>1
<1> QED BY <1>2, <1>5, <1>6, <1>7 DEF n, q

LEMMA FilteredIs ==
    ASSUME NEW T, NEW s \in Seq(T), NEW S
    PROVE  LET q == Filtered(s, S)
           IN  /\ q \in Seq(T) /\ q \in Seq(S)
               /\ {q[i] : i \in DOMAIN q} = {s[i] : i \in DOMAIN s} \cap S
               /\ (\A i, j \in DOMAIN s : s[i] = s[j] => i = j) =>
                      \A i, j \in DOMAIN q : q[i] = q[j] => i = j
<1> DEFINE I == {i \in DOMAIN s : s[i] \in S}
           q == Filtered(s, S)
<1>1. q = ElementsAt(s, I) /\ I \in SUBSET (DOMAIN s)
  BY DEF Filtered
<1>2. {s[i] : i \in I} = {s[i] : i \in DOMAIN s} \cap S
  OBVIOUS
<1>3. (\A i, j \in DOMAIN s : s[i] = s[j] => i = j) => \A i, j \in I : s[i] = s[j] => i = j
  OBVIOUS
<1> HIDE DEF I, q
<1>4. /\ q \in Seq(T) /\ {q[i] : i \in DOMAIN q} = {s[i] : i \in I}
      /\ (\A i, j \in I : s[i] = s[j] => i = j) => \A i, j \in DOMAIN q : q[i] = q[j] => i = j
  <2> DEFINE r == ElementsAt(s, I)
  <2>1. /\ r \in Seq(T) /\ {r[i] : i \in DOMAIN r} = {s[i] : i \in I}
        /\ (\A i, j \in I : s[i] = s[j] => i = j) => \A i, j \in DOMAIN r : r[i] = r[j] => i = j
    BY <1>1, ElementsAtIs
  <2>2. r = q
    BY <1>1
  <2> HIDE DEF r
  <2> QED BY <2>1, <2>2
<1>5. q \in Seq(S)
  <2>1. \A i \in DOMAIN q : q[i] \in S
    BY <1>2, <1>4
  <2> QED BY <1>4, <2>1
<1> QED BY <1>2, <1>3, <1>4, <1>5 DEF q

-----------------------------------------------------------------------------
(* Sequences without repetition, and their concatenation *)

Once(s) == \A i, j \in DOMAIN s : s[i] = s[j] => i = j

LEMMA OnceSize ==
    ASSUME NEW T, NEW s \in Seq(T), Once(s)
    PROVE  Cardinality(ToSet(s)) = Len(s)
<1> DEFINE n == Len(s)
<1>1. n \in Nat /\ DOMAIN s = 1..n
  OBVIOUS
<1>2. IsFiniteSet(1..n) /\ Cardinality(1..n) = n
  BY <1>1, FS_Interval
<1>3. s \in [1..n -> ToSet(s)] /\ \A x \in ToSet(s) : \E i \in 1..n : s[i] = x
  BY <1>1 DEF ToSet
<1>4. s \in Surjection(1..n, ToSet(s)) /\ s \in Injection(1..n, ToSet(s))
  BY <1>1, <1>3 DEF Surjection, Injection, IsInjective, Once
<1> HIDE DEF n
<1> QED BY <1>2, <1>4, FS_Surjection DEF n

LEMMA JoinedIs ==
    ASSUME NEW T, NEW a \in Seq(T), NEW b \in Seq(T)
    PROVE  LET r == a \o b
           IN  /\ r \in Seq(T) /\ ToSet(r) = ToSet(a) \cup ToSet(b)
               /\ Once(a) /\ Once(b) /\ ToSet(a) \cap ToSet(b) = {} => Once(r)
<1> DEFINE m == Len(a)
           n == Len(b)
           r == a \o b
<1>1. m \in Nat /\ n \in Nat /\ DOMAIN a = 1..m /\ DOMAIN b = 1..n
  OBVIOUS
<1>2. /\ r \in Seq(T) /\ DOMAIN r = 1..(m + n)
      /\ \A i \in 1..m : r[i] = a[i]
      /\ \A i \in 1..n : r[m + i] = b[i]
  OBVIOUS
<1> HIDE DEF r, m, n
<1>3. ASSUME NEW i \in 1..(m + n)
      PROVE  \/ i \in 1..m /\ r[i] = a[i] /\ r[i] \in ToSet(a)
             \/ i - m \in 1..n /\ r[i] = b[i - m] /\ r[i] \in ToSet(b)
  <2>1. CASE i \in 1..m
    BY <1>1, <1>2, <2>1 DEF ToSet
  <2>2. CASE i > m
    <3>1. i - m \in 1..n /\ m + (i - m) = i
      BY <1>1, <2>2
    <3>2. r[i] = b[i - m]
      BY <1>2, <3>1
    <3> QED BY <1>1, <3>1, <3>2 DEF ToSet
  <2> QED BY <1>1, <2>1, <2>2
<1>4. ToSet(r) = ToSet(a) \cup ToSet(b)
  <2>1. ASSUME NEW x \in ToSet(a) PROVE x \in ToSet(r)
    <3>1. PICK i \in 1..m : a[i] = x
      BY <1>1 DEF ToSet
    <3>2. i \in 1..(m + n) /\ r[i] = x
      BY <1>1, <1>2, <3>1
    <3> QED BY <1>2, <3>2 DEF ToSet
  <2>2. ASSUME NEW x \in ToSet(b) PROVE x \in ToSet(r)
    <3>1. PICK i \in 1..n : b[i] = x
      BY <1>1 DEF ToSet
    <3>2. m + i \in 1..(m + n) /\ r[m + i] = x
      BY <1>1, <1>2, <3>1
    <3> QED BY <1>2, <3>2 DEF ToSet
  <2>3. ToSet(r) = {r[i] : i \in 1..(m + n)}
    BY <1>2 DEF ToSet
  <2>4. ToSet(r) \subseteq ToSet(a) \cup ToSet(b)
    BY <1>3, <2>3
  <2> QED BY <2>1, <2>2, <2>4
<1>5. ASSUME Once(a), Once(b), ToSet(a) \cap ToSet(b) = {} PROVE Once(r)
  <2> SUFFICES ASSUME NEW i \in 1..(m + n), NEW k \in 1..(m + n), r[i] = r[k] PROVE i = k
    BY <1>2 DEF Once
  <2>1. CASE r[i] \in ToSet(a)
    <3>1. i \in 1..m /\ k \in 1..m /\ a[i] = a[k]
      BY <1>3, <1>5, <2>1
    <3> QED BY <1>1, <1>5, <3>1 DEF Once
  <2>2. CASE r[i] \in ToSet(b)
    <3>1. i - m \in 1..n /\ k - m \in 1..n /\ b[i - m] = b[k - m]
      BY <1>3, <1>5, <2>2
    <3>2. i - m = k - m
      BY <1>1, <1>5, <3>1 DEF Once
    <3> QED BY <1>1, <3>2
  <2> QED BY <1>3, <2>1, <2>2
<1> QED BY <1>2, <1>4, <1>5 DEF r

(* g joins the first m of the sequences s, one after the other. *)
Joins(g, s, m) == g = [i \in 1..m |-> IF i = 1 THEN s[i] ELSE g[i - 1] \o s[i]]

LEMMA JoinExists ==
    ASSUME NEW s, NEW n \in Nat
    PROVE  \E g : Joins(g, s, n)
<1> DEFINE Bad == {m \in Nat : ~ \E g : Joins(g, s, m)}
<1>1. SUFFICES ASSUME Bad # {} PROVE FALSE
  OBVIOUS
<1>2. PICK m \in Bad : \A k \in Bad : m <= k
  <2>1. Bad \in SUBSET Nat
    OBVIOUS
  <2> HIDE DEF Bad
  <2> QED BY <1>1, <2>1, SmallestNumber
<1>3. m \in Nat /\ ~ \E g : Joins(g, s, m)
  OBVIOUS
<1>4. CASE m = 0
  <2> DEFINE g == [i \in 1..0 |-> 0]
  <2>1. g = [i \in 1..0 |-> IF i = 1 THEN s[i] ELSE g[i - 1] \o s[i]]
    OBVIOUS
  <2>2. Joins(g, s, m)
    BY <1>4, <2>1 DEF Joins
  <2> QED BY <1>3, <2>2
<1>5. CASE m # 0
  <2>1. m - 1 \in Nat /\ m - 1 \notin Bad
    BY <1>2, <1>3, <1>5
  <2>2. PICK g : Joins(g, s, m - 1)
    BY <2>1
  <2> HIDE DEF Bad
  <2> DEFINE all == [i \in 1..m |-> IF i = 1 THEN s[i] ELSE g[i - 1] \o s[i]]
             step == [i \in 1..m |-> IF i = 1 THEN s[i] ELSE all[i - 1] \o s[i]]
  <2>3. ASSUME NEW i \in 1..(m - 1) PROVE all[i] = g[i]
    <3>1. i \in 1..m
      BY <1>3
    <3>2. g[i] = IF i = 1 THEN s[i] ELSE g[i - 1] \o s[i]
      BY <2>2 DEF Joins
    <3> QED BY <3>1, <3>2
  <2>4. ASSUME NEW i \in 1..m PROVE all[i] = step[i]
    <3>1. i # 1 => i - 1 \in 1..(m - 1)
      BY <1>3
    <3>2. i # 1 => all[i - 1] = g[i - 1]
      BY <2>3, <3>1
    <3>3. all[i] = IF i = 1 THEN s[i] ELSE g[i - 1] \o s[i]
      OBVIOUS
    <3> HIDE DEF all
    <3>4. step[i] = IF i = 1 THEN s[i] ELSE all[i - 1] \o s[i]
      OBVIOUS
    <3> HIDE DEF step
    <3> QED BY <3>2, <3>3, <3>4
  <2>5. all = [i \in 1..m |-> all[i]] /\ step = [i \in 1..m |-> step[i]]
    OBVIOUS
  <2>6. all = step
    <3> HIDE DEF all, step
    <3> QED BY <2>4, <2>5
  <2>7. Joins(all, s, m)
    <3> HIDE DEF all
    <3> QED BY <2>6, Zenon DEF Joins
  <2> QED BY <1>3, <2>7
<1> QED BY <1>4, <1>5

(* What FlattenSeq returns: the elements of all the sequences, and each    *)
(* once if no two places hold the same. *)
LEMMA FlattenIs ==
    ASSUME NEW T, NEW s \in Seq(Seq(T)), s # <<>>
    PROVE  LET q == FlattenSeq(s)
           IN  /\ q \in Seq(T) /\ ToSet(q) = UNION {ToSet(s[k]) : k \in DOMAIN s}
               /\ (\A k, l \in DOMAIN s : \A i \in DOMAIN s[k], j \in DOMAIN s[l] :
                      s[k][i] = s[l][j] => k = l /\ i = j) => Once(q)
<1> DEFINE n == Len(s)
           g == CHOOSE h : Joins(h, s, n)
           To(m) == UNION {ToSet(s[k]) : k \in 1..m}
           Apart == \A k, l \in 1..n : \A i \in DOMAIN s[k], j \in DOMAIN s[l] :
                        s[k][i] = s[l][j] => k = l /\ i = j
           Bad == {m \in 1..n : ~(g[m] \in Seq(T) /\ ToSet(g[m]) = To(m) /\ (Apart => Once(g[m])))}
<1>1. n \in Nat /\ n # 0 /\ DOMAIN s = 1..n /\ \A k \in 1..n : s[k] \in Seq(T)
  OBVIOUS
<1>2. FlattenSeq(s) = g[n]
  BY <1>1, Zenon DEF FlattenSeq, Joins
<1>3. \A m \in 1..n : g[m] = IF m = 1 THEN s[m] ELSE g[m - 1] \o s[m]
  <2>1. Joins(g, s, n)
    BY <1>1, JoinExists
  <2> HIDE DEF g
  <2> QED BY <2>1 DEF Joins
<1> HIDE DEF g
<1>4. ASSUME Bad # {} PROVE FALSE
  <2>1. PICK m \in Bad : \A k \in Bad : m <= k
    <3>1. Bad \in SUBSET Nat
      OBVIOUS
    <3> HIDE DEF Bad
    <3> QED BY <1>4, <3>1, SmallestNumber
  <2>2. m \in 1..n /\ ~(g[m] \in Seq(T) /\ ToSet(g[m]) = To(m) /\ (Apart => Once(g[m])))
    OBVIOUS
  <2>3. Apart => Once(s[m])
    BY <1>1, <2>2 DEF Once
  <2>4. CASE m = 1
    <3>1. g[m] = s[m] /\ 1..m = {1}
      BY <1>3, <2>2, <2>4
    <3>2. To(m) = ToSet(s[m])
      BY <2>4, <3>1
    <3> QED BY <1>1, <2>2, <2>3, <3>1, <3>2
  <2>5. CASE m # 1
    <3>1. m - 1 \in 1..n /\ m - 1 \notin Bad
      <4>1. m \in Nat /\ m - 1 \in 1..n /\ ~(m <= m - 1)
        BY <1>1, <2>2, <2>5
      <4> HIDE DEF Bad
      <4> QED BY <2>1, <4>1
    <3>2. g[m - 1] \in Seq(T) /\ ToSet(g[m - 1]) = To(m - 1) /\ (Apart => Once(g[m - 1]))
      BY <3>1
    <3> HIDE DEF Bad
    <3>3. g[m] = g[m - 1] \o s[m] /\ s[m] \in Seq(T)
      BY <1>1, <1>3, <2>2, <2>5
    <3>4. /\ g[m] \in Seq(T) /\ ToSet(g[m]) = ToSet(g[m - 1]) \cup ToSet(s[m])
          /\ Once(g[m - 1]) /\ Once(s[m]) /\ ToSet(g[m - 1]) \cap ToSet(s[m]) = {} => Once(g[m])
      <4> DEFINE a == g[m - 1]
                 b == s[m]
                 r == a \o b
      <4>1. a \in Seq(T) /\ b \in Seq(T) /\ g[m] = r
        BY <3>2, <3>3
      <4> HIDE DEF a, b
      <4>2. /\ r \in Seq(T) /\ ToSet(r) = ToSet(a) \cup ToSet(b)
            /\ Once(a) /\ Once(b) /\ ToSet(a) \cap ToSet(b) = {} => Once(r)
        BY <4>1, JoinedIs
      <4> HIDE DEF r
      <4> QED BY <4>1, <4>2 DEF a, b
    <3>5. 1..m = 1..(m - 1) \cup {m}
      BY <2>2, <2>5
    <3>6. To(m) = To(m - 1) \cup ToSet(s[m])
      BY <3>5
    <3>7. Apart => To(m - 1) \cap ToSet(s[m]) = {}
      <4> SUFFICES ASSUME Apart, NEW k \in 1..(m - 1), NEW x \in ToSet(s[k]), x \in ToSet(s[m])
                   PROVE  FALSE
        OBVIOUS
      <4>1. PICK i \in DOMAIN s[k] : x = s[k][i]
        BY DEF ToSet
      <4>2. PICK j \in DOMAIN s[m] : x = s[m][j]
        BY DEF ToSet
      <4>3. k \in 1..n /\ k # m
        BY <1>1, <2>2
      <4> QED BY <2>2, <4>1, <4>2, <4>3
    <3> HIDE DEF To, Apart
    <3> QED BY <2>2, <2>3, <3>2, <3>4, <3>6, <3>7
  <2> QED BY <2>4, <2>5
<1>5. g[n] \in Seq(T) /\ ToSet(g[n]) = To(n) /\ (Apart => Once(g[n]))
  <2>1. n \in 1..n
    BY <1>1
  <2> HIDE DEF To, Apart
  <2> QED BY <1>4, <2>1
<1> HIDE DEF n
<1> QED BY <1>1, <1>2, <1>5
=============================================================================
