----------------------------- MODULE CdnProofs -----------------------------
(***************************************************************************)
(* The routes of every number of downloads over any hosts, whatever Baidu  *)
(* locates: ranking them loses none, and a route that stays up is not      *)
(* used up by the attempts that went elsewhere.                            *)
(***************************************************************************)
EXTENDS CdnProperties, DataProofs, TLAPS

-----------------------------------------------------------------------------
(* The order of the routes *)

(* What stands first keeps its place, and nothing is lost or repeated. *)
LEMMA RankedIs ==
    ASSUME NEW hosts \in Seq(Host), NEW first \in Seq(Host), Once(hosts), Once(first),
           ToSet(first) \subseteq ToSet(hosts)
    PROVE  LET r == Ranked(first, hosts)
           IN  /\ r \in Seq(Host) /\ ToSet(r) = ToSet(hosts) /\ Once(r)
               /\ \A i, j \in DOMAIN r : i < j /\ r[j] \in ToSet(first) => r[i] \in ToSet(first)
<1> DEFINE rest == Filtered(hosts, Host \ ToSet(first))
           r == Ranked(first, hosts)
<1>1. /\ rest \in Seq(Host) /\ Once(rest)
      /\ {rest[i] : i \in DOMAIN rest} = ToSet(hosts) \cap (Host \ ToSet(first))
  <2>1. /\ rest \in Seq(Host) /\ rest \in Seq(Host \ ToSet(first))
        /\ {rest[i] : i \in DOMAIN rest} = {hosts[i] : i \in DOMAIN hosts} \cap (Host \ ToSet(first))
        /\ (\A i, j \in DOMAIN hosts : hosts[i] = hosts[j] => i = j) =>
               \A i, j \in DOMAIN rest : rest[i] = rest[j] => i = j
    BY ONLY hosts \in Seq(Host), FilteredIs
  <2> HIDE DEF rest
  <2> QED BY <2>1 DEF ToSet, Once
<1>2. ToSet(hosts) \subseteq Host /\ ToSet(rest) = ToSet(hosts) \ ToSet(first)
  <2>1. ToSet(hosts) \subseteq Host
    BY DEF ToSet
  <2>2. ToSet(rest) = {rest[i] : i \in DOMAIN rest}
    BY DEF ToSet
  <2> HIDE DEF rest
  <2> QED BY <1>1, <2>1, <2>2
<1>3. r = first \o rest
  BY DEF Ranked
<1> HIDE DEF r, rest
<1> DEFINE m == Len(first)
           n == Len(rest)
<1>4. m \in Nat /\ n \in Nat /\ DOMAIN first = 1..m /\ DOMAIN rest = 1..n
  BY <1>1
<1>5. /\ r \in Seq(Host) /\ DOMAIN r = 1..(m + n)
      /\ \A i \in 1..m : r[i] = first[i]
      /\ \A i \in 1..n : r[m + i] = rest[i]
  BY <1>1, <1>3
<1>6. \A i \in 1..m : r[i] \in ToSet(first)
  BY <1>4, <1>5 DEF ToSet
<1>7. ASSUME NEW i \in 1..(m + n), i > m
      PROVE  i - m \in 1..n /\ r[i] = rest[i - m] /\ r[i] \notin ToSet(first) /\ r[i] \in ToSet(hosts)
  <2>1. i - m \in 1..n /\ m + (i - m) = i
    BY <1>4, <1>7
  <2>2. r[i] = rest[i - m]
    BY <1>5, <2>1
  <2>3. rest[i - m] \in ToSet(rest)
    BY <1>4, <2>1 DEF ToSet
  <2> QED BY <1>2, <2>1, <2>2, <2>3
<1>8. ToSet(r) = ToSet(hosts) /\ Once(r)
  <2>1. ToSet(r) = ToSet(first) \cup ToSet(rest) /\ Once(r)
    BY <1>1, <1>2, <1>3, JoinedIs
  <2> QED BY <1>2, <2>1
<1>10. \A i, j \in DOMAIN r : i < j /\ r[j] \in ToSet(first) => r[i] \in ToSet(first)
  <2> SUFFICES ASSUME NEW i \in 1..(m + n), NEW j \in 1..(m + n), i < j, r[j] \in ToSet(first)
               PROVE  r[i] \in ToSet(first)
    BY <1>5
  <2>1. j \in 1..m
    BY <1>4, <1>7
  <2> QED BY <1>4, <1>6, <2>1
<1> QED BY <1>5, <1>8, <1>10 DEF r

(* dict.fromkeys: every host is left, once. *)
LEMMA DistinctIs ==
    ASSUME NEW hosts \in Seq(Host)
    PROVE  LET d == Distinct(hosts)
           IN  d \in Seq(Host) /\ ToSet(d) = ToSet(hosts) /\ Once(d)
<1> DEFINE n == Len(hosts)
           First == {i \in DOMAIN hosts : \A k \in 1..(i - 1) : hosts[k] # hosts[i]}
           d == ElementsAt(hosts, First)
<1>1. n \in Nat /\ DOMAIN hosts = 1..n /\ First \in SUBSET (DOMAIN hosts)
  OBVIOUS
<1>2. /\ d \in Seq(Host) /\ {d[i] : i \in DOMAIN d} = {hosts[i] : i \in First}
      /\ (\A i, j \in First : hosts[i] = hosts[j] => i = j) =>
             \A i, j \in DOMAIN d : d[i] = d[j] => i = j
  <2> HIDE DEF First
  <2> QED BY <1>1, ElementsAtIs
<1>3. \A i, j \in First : hosts[i] = hosts[j] => i = j
  <2> SUFFICES ASSUME NEW i \in First, NEW j \in First, hosts[i] = hosts[j], i < j \/ j < i
               PROVE  FALSE
    BY <1>1
  <2>1. i \in 1..n /\ j \in 1..n
    OBVIOUS
  <2>2. i \in 1..(j - 1) \/ j \in 1..(i - 1)
    BY <1>1, <2>1
  <2> QED BY <2>2
<1>4. ASSUME NEW x \in 1..n PROVE \E i \in First : hosts[i] = hosts[x]
  <2> DEFINE B == {i \in 1..n : hosts[i] = hosts[x]}
  <2>1. PICK i \in B : \A k \in B : i <= k
    <3>1. B \in SUBSET Nat /\ B # {}
      BY <1>1
    <3> HIDE DEF B
    <3> QED BY <3>1, SmallestNumber
  <2>2. i \in 1..n /\ \A k \in 1..(i - 1) : hosts[k] # hosts[i]
    <3> SUFFICES ASSUME NEW k \in 1..(i - 1), hosts[k] = hosts[i] PROVE FALSE
      OBVIOUS
    <3>1. k \in B /\ k < i
      BY <1>1
    <3> QED BY <1>1, <2>1, <3>1
  <2>3. i \in First
    BY <1>1, <2>2
  <2> QED BY <2>3
<1>5. {hosts[i] : i \in First} = ToSet(hosts)
  <2>1. ToSet(hosts) = {hosts[i] : i \in 1..n}
    BY <1>1 DEF ToSet
  <2>2. First \subseteq 1..n
    BY <1>1
  <2> HIDE DEF First
  <2> QED BY <1>4, <2>1, <2>2
<1>6. d = Distinct(hosts)
  BY DEF Distinct
<1> HIDE DEF d, First
<1>7. d \in Seq(Host) /\ ToSet(d) = ToSet(hosts) /\ Once(d)
  BY <1>2, <1>3, <1>5 DEF ToSet, Once
<1> QED BY <1>6, <1>7

LEMMA ExpandedIs ==
    ASSUME NEW hosts \in Seq(Host), hosts # <<>>
    PROVE  LET e == Expanded(hosts)
           IN  /\ e \in Seq(Host) /\ e # <<>>
               /\ OnCdn(e) = <<>> <=> ToSet(e) \cap Cdn = {}
               /\ ToSet(e) \cap Cdn # {} => Once(e) /\ ToSet(e) \subseteq Cdn
<1> DEFINE on == OnCdn(hosts)
           e == Expanded(hosts)
<1>1. ASSUME NEW s \in Seq(Host)
      PROVE  OnCdn(s) \in Seq(Host) /\ ToSet(OnCdn(s)) = ToSet(s) \cap Cdn
  <2> DEFINE q == Filtered(s, Cdn)
  <2>1. /\ q \in Seq(Host) /\ q \in Seq(Cdn)
        /\ {q[i] : i \in DOMAIN q} = {s[i] : i \in DOMAIN s} \cap Cdn
        /\ (\A i, j \in DOMAIN s : s[i] = s[j] => i = j) =>
               \A i, j \in DOMAIN q : q[i] = q[j] => i = j
    BY ONLY s \in Seq(Host), FilteredIs
  <2>2. q = OnCdn(s)
    BY DEF OnCdn
  <2> HIDE DEF q
  <2> QED BY <2>1, <2>2 DEF ToSet
<1>2. ASSUME NEW s \in Seq(Host) PROVE s = <<>> <=> ToSet(s) = {}
  <2>1. s # <<>> => 1 \in DOMAIN s
    OBVIOUS
  <2>2. s = <<>> => DOMAIN s = {}
    OBVIOUS
  <2> QED BY <2>1, <2>2 DEF ToSet
<1>3. /\ e \in Seq(Host) /\ e # <<>>
      /\ ToSet(e) \cap Cdn # {} => Once(e) /\ ToSet(e) \subseteq Cdn
  <2>1. CASE on = <<>>
    <3>1. e = hosts /\ ToSet(hosts) \cap Cdn = {}
      BY <1>1, <1>2, <2>1 DEF Expanded
    <3> QED BY <3>1
  <2>2. CASE on # <<>>
    <3> DEFINE all == on \o Fallback
    <3>1. e = Distinct(all)
      BY <2>2 DEF Expanded
    <3>2. on \in Seq(Host) /\ ToSet(on) \subseteq Cdn /\ Fallback \in Seq(Cdn) /\ Fallback \in Seq(Host)
      BY <1>1, RouteAssumption DEF Host
    <3> HIDE DEF on, e
    <3>3. all \in Seq(Host) /\ all # <<>>
      BY <2>2, <3>2
    <3>5. ToSet(all) \subseteq Cdn
      <4> SUFFICES ASSUME NEW i \in DOMAIN all PROVE all[i] \in Cdn
        BY DEF ToSet
      <4>1. \A k \in DOMAIN on : on[k] \in Cdn
        BY <3>2 DEF ToSet
      <4>2. \A k \in DOMAIN Fallback : Fallback[k] \in Cdn
        BY <3>2
      <4>3. i \in DOMAIN on \/ i - Len(on) \in DOMAIN Fallback
        BY <3>2
      <4> QED BY <3>2, <4>1, <4>2, <4>3
    <3> HIDE DEF all
    <3>4. e \in Seq(Host) /\ ToSet(e) = ToSet(all) /\ Once(e)
      BY <3>1, <3>3, DistinctIs
    <3> QED BY <1>2, <3>3, <3>4, <3>5
  <2> QED BY <2>1, <2>2
<1>4. OnCdn(e) = <<>> <=> ToSet(e) \cap Cdn = {}
  <2> HIDE DEF e
  <2>1. OnCdn(e) \in Seq(Host) /\ ToSet(OnCdn(e)) = ToSet(e) \cap Cdn
    BY <1>1, <1>3
  <2> QED BY <1>2, <2>1
<1> QED BY <1>3, <1>4

-----------------------------------------------------------------------------
(* Types, and the routes of each download *)

(* A download has no probe and no fetch before it chose, what it probes is *)
(* a list of CDN hosts, each once, and what it fetches from is ranked.     *)
ChoiceOK(f) ==
    /\ phase[f] = "idle" => passed[f] = {}
    /\ phase[f] = "probing" =>
          /\ candidates[f] # <<>> /\ Once(candidates[f]) /\ ToSet(candidates[f]) \subseteq Cdn
          /\ passed[f] \subseteq ToSet(candidates[f])
    /\ phase[f] # "fetching" => \A s \in Segment : fetch[f][s] = "none" /\ attempt[f][s] = 0
    /\ phase[f] = "fetching" =>
          /\ ToSet(urls[f]) = ToSet(candidates[f])
          /\ ToSet(urls[f]) \cap Cdn # {} => Once(urls[f])
          /\ \A i, j \in DOMAIN urls[f] :
                i < j /\ urls[f][j] \in passed[f] => urls[f][i] \in passed[f]

ChoiceInv == TypeOK /\ \A f \in File : ChoiceOK(f)

(* What one download does is nothing to the choice of another. *)
LEMMA OtherChoices ==
    ASSUME TypeOK', \A g \in File : ChoiceOK(g), NEW f \in File, ChoiceOK(f)',
           \A g \in File \ {f} :
               /\ phase'[g] = phase[g] /\ passed'[g] = passed[g] /\ urls'[g] = urls[g]
               /\ candidates'[g] = candidates[g] /\ fetch'[g] = fetch[g] /\ attempt'[g] = attempt[g]
    PROVE  ChoiceInv'
BY DEF ChoiceInv, ChoiceOK

LEMMA FetchTyped ==
    ASSUME TypeOK, NEW f \in File, NEW routes \in Seq(Host), routes # <<>>, Fetch(f, routes),
           candidates' \in [File -> Seq(Host)], preference' \in Cdn \cup {NoHost},
           UNCHANGED <<network, answered, passed, attempt>>
    PROVE  TypeOK'
<1>1. phase' \in [File -> {"idle", "probing", "fetching"}] /\ urls' \in [File -> Seq(Host)]
  BY DEF TypeOK, Fetch
<1>2. fetch' \in [File -> [Segment -> FetchState]]
  <2>1. [s \in Segment |-> "open"] \in [Segment -> FetchState]
    BY DEF FetchState
  <2> QED BY <2>1 DEF TypeOK, Fetch
<1>3. steady' \in [File -> SUBSET Host]
  BY DEF TypeOK, Fetch
<1>4. \A g \in File : phase'[g] = "fetching" => urls'[g] # <<>>
  BY DEF TypeOK, Fetch
<1> QED BY <1>1, <1>2, <1>3, <1>4 DEF TypeOK, network

LEMMA SelectChoice ==
    ASSUME ChoiceInv, NEW f \in File, NEW hosts \in Located, Select(f, hosts)
    PROVE  ChoiceInv'
<1> DEFINE e == Expanded(hosts)
<1>1. hosts \in Seq(Host) /\ hosts # <<>>
  BY RouteAssumption
<1>2. /\ e \in Seq(Host) /\ e # <<>>
      /\ OnCdn(e) = <<>> <=> ToSet(e) \cap Cdn = {}
      /\ ToSet(e) \cap Cdn # {} => Once(e) /\ ToSet(e) \subseteq Cdn
  BY <1>1, ExpandedIs
<1>3. /\ phase[f] = "idle" /\ candidates' = [candidates EXCEPT ![f] = e]
      /\ IF NeedsNoProbe(e)
         THEN Fetch(f, IF Contains(e, preference) THEN Ranked(<<preference>>, e) ELSE e)
         ELSE /\ phase' = [phase EXCEPT ![f] = "probing"]
              /\ UNCHANGED <<urls, fetch, steady>>
      /\ UNCHANGED <<network, preference, answered, passed, attempt>>
  BY DEF Select
<1> HIDE DEF e
<1>4. TypeOK /\ ChoiceOK(f) /\ preference' = preference /\ passed' = passed /\ attempt' = attempt
  BY <1>3 DEF ChoiceInv
<1>5. candidates' \in [File -> Seq(Host)] /\ candidates'[f] = e
  BY <1>2, <1>3, <1>4 DEF TypeOK
<1>6. passed[f] = {} /\ \A s \in Segment : attempt[f][s] = 0 /\ fetch[f][s] = "none"
  BY <1>3, <1>4 DEF ChoiceOK
<1>7. CASE NeedsNoProbe(e)
  <2> DEFINE routes == IF Contains(e, preference) THEN Ranked(<<preference>>, e) ELSE e
  <2>1. /\ routes \in Seq(Host) /\ ToSet(routes) = ToSet(e)
        /\ ToSet(routes) \cap Cdn # {} => Once(routes)
    <3>1. CASE Contains(e, preference)
      <4> DEFINE first == <<preference>>
      <4>1. preference \in ToSet(e) /\ ToSet(e) \subseteq Host
        BY <1>2, <3>1 DEF Contains, ToSet
      <4>2. preference \in Cdn
        BY <1>4, <4>1, HostAssumption DEF TypeOK
      <4>3. first \in Seq(Host) /\ ToSet(first) = {preference} /\ Once(first) /\ Once(e)
        <5>1. first \in Seq(Host) /\ DOMAIN first = 1..1 /\ first[1] = preference
          BY <4>1
        <5>2. \A i \in 1..1 : i = 1
          OBVIOUS
        <5> HIDE DEF first
        <5> QED BY <1>2, <4>1, <4>2, <5>1, <5>2 DEF ToSet, Once
      <4> HIDE DEF first
      <4> DEFINE r == Ranked(first, e)
      <4>4. r \in Seq(Host) /\ ToSet(r) = ToSet(e) /\ Once(r)
        BY <1>2, <4>1, <4>3, RankedIs
      <4>5. routes = r
        BY <3>1 DEF first
      <4> HIDE DEF r, routes
      <4> QED BY <4>4, <4>5
    <3>2. CASE ~Contains(e, preference)
      BY <1>2, <3>2
    <3> QED BY <3>1, <3>2
  <2>2. routes # <<>>
    <3> HIDE DEF routes
    <3>1. 1 \in DOMAIN e
      BY <1>2
    <3>2. ToSet(e) # {}
      BY <3>1 DEF ToSet
    <3>3. routes = <<>> => ToSet(routes) = {}
      BY DEF ToSet
    <3> QED BY <2>1, <3>2, <3>3
  <2>3. Fetch(f, routes)
    BY <1>3, <1>7
  <2> HIDE DEF routes
  <2>4. TypeOK'
    BY <1>3, <1>4, <1>5, <2>1, <2>2, <2>3, FetchTyped DEF TypeOK
  <2>5. urls'[f] = routes /\ phase'[f] = "fetching"
    BY <1>4, <2>3 DEF Fetch, TypeOK
  <2>6. ChoiceOK(f)'
    BY <1>4, <1>5, <1>6, <2>1, <2>5 DEF ChoiceOK
  <2>7. \A g \in File \ {f} :
            /\ phase'[g] = phase[g] /\ passed'[g] = passed[g] /\ urls'[g] = urls[g]
            /\ candidates'[g] = candidates[g] /\ fetch'[g] = fetch[g] /\ attempt'[g] = attempt[g]
    BY <1>3, <1>4, <2>3 DEF Fetch, TypeOK
  <2> QED BY <2>4, <2>6, <2>7, OtherChoices DEF ChoiceInv
<1>8. CASE ~NeedsNoProbe(e)
  <2>1. /\ phase' = [phase EXCEPT ![f] = "probing"] /\ UNCHANGED <<urls, fetch, steady>>
    BY <1>3, <1>8
  <2>2. TypeOK'
    BY <1>3, <1>4, <1>5, <2>1 DEF TypeOK, network
  <2>3. phase'[f] = "probing"
    BY <1>4, <2>1 DEF TypeOK
  <2>4. Once(e) /\ ToSet(e) \subseteq Cdn
    BY <1>2, <1>8 DEF NeedsNoProbe
  <2>5. ChoiceOK(f)'
    BY <1>2, <1>4, <1>5, <1>6, <2>1, <2>3, <2>4 DEF ChoiceOK
  <2>6. \A g \in File \ {f} :
            /\ phase'[g] = phase[g] /\ passed'[g] = passed[g] /\ urls'[g] = urls[g]
            /\ candidates'[g] = candidates[g] /\ fetch'[g] = fetch[g] /\ attempt'[g] = attempt[g]
    BY <1>3, <1>4, <2>1 DEF TypeOK
  <2> QED BY <2>2, <2>5, <2>6, OtherChoices DEF ChoiceInv
<1> QED BY <1>7, <1>8

LEMMA ProbeChoice ==
    ASSUME ChoiceInv, NEW f \in File, NEW h \in Host, ProbeEnds(f, h)
    PROVE  ChoiceInv'
<1>1. TypeOK /\ ChoiceOK(f) /\ phase[f] = "probing" /\ h \in ToSet(candidates[f])
  BY DEF ChoiceInv, ProbeEnds
<1>2. UNCHANGED <<up, changes, preference, phase, candidates, urls, fetch, attempt, steady>>
  BY DEF ProbeEnds, network
<1>3. answered' \in [File -> SUBSET Host] /\ passed' \in [File -> SUBSET Host]
  BY <1>1 DEF ProbeEnds, TypeOK
<1>4. passed'[f] \subseteq passed[f] \cup {h} /\ \A g \in File \ {f} : passed'[g] = passed[g]
  BY <1>1 DEF ProbeEnds, TypeOK
<1>5. TypeOK'
  BY <1>1, <1>2, <1>3 DEF TypeOK
<1>6. ChoiceOK(f)'
  BY <1>1, <1>2, <1>4 DEF ChoiceOK
<1> QED BY <1>2, <1>4, <1>5, <1>6, OtherChoices DEF ChoiceInv

LEMMA RankChoice ==
    ASSUME ChoiceInv, NEW f \in File, RankProbes(f)
    PROVE  ChoiceInv'
<1> DEFINE hosts == candidates[f]
<1>1. PICK available \in SetToSeqs(passed[f]) :
          /\ Fetch(f, Ranked(available, hosts))
          /\ preference' = IF available = <<>> THEN preference ELSE Head(available)
  BY DEF RankProbes
<1>2. phase[f] = "probing" /\ UNCHANGED <<network, candidates, answered, passed, attempt>>
  BY DEF RankProbes
<1>3. TypeOK /\ ChoiceOK(f)
  BY DEF ChoiceInv
<1>4. /\ hosts \in Seq(Host) /\ hosts # <<>> /\ Once(hosts) /\ ToSet(hosts) \subseteq Cdn
      /\ passed[f] \subseteq ToSet(hosts) /\ passed[f] \subseteq Host
  BY <1>2, <1>3 DEF ChoiceOK, TypeOK
<1> HIDE DEF hosts
<1>5. available \in Seq(Host) /\ Once(available) /\ ToSet(available) = passed[f]
  <2> DEFINE P == passed[f]
             n == Cardinality(P)
  <2>1. IsFiniteSet(P)
    <3>1. IsFiniteSet(ToSet(hosts))
      <4>1. Len(hosts) \in Nat /\ DOMAIN hosts = 1..Len(hosts) /\ IsFiniteSet(1..Len(hosts))
        BY <1>4, FS_Interval
      <4>2. hosts \in Surjection(1..Len(hosts), ToSet(hosts))
        BY <1>4, <4>1 DEF Surjection, ToSet
      <4> QED BY <4>1, <4>2, FS_Surjection
    <3> QED BY <1>4, <3>1, FS_Subset
  <2>2. n \in Nat
    BY <2>1, FS_CardinalityType
  <2>3. available \in [1..n -> P] /\ \A i, j \in 1..n : i # j => available[i] # available[j]
    BY DEF SetToSeqs
  <2> HIDE DEF n, P
  <2>4. available \in Injection(1..n, P)
    BY <2>3 DEF Injection, IsInjective
  <2>5. IsFiniteSet(1..n) /\ Cardinality(1..n) = n
    BY <2>2, IntervalSize
  <2>6. available \in Surjection(1..n, P)
    BY <2>1, <2>4, <2>5, FS_Injection DEF n
  <2>7. ToSet(available) = P /\ Once(available)
    BY <2>3, <2>6 DEF ToSet, Once, Surjection
  <2>8. available \in Seq(Host)
    BY <1>4, <2>2, <2>3 DEF P
  <2> QED BY <2>7, <2>8 DEF P
<1> DEFINE r == Ranked(available, hosts)
<1>6. /\ r \in Seq(Host) /\ ToSet(r) = ToSet(hosts) /\ Once(r)
      /\ \A i, j \in DOMAIN r : i < j /\ r[j] \in ToSet(available) => r[i] \in ToSet(available)
  BY <1>4, <1>5, RankedIs
<1>7. Fetch(f, r)
  BY <1>1
<1> HIDE DEF r
<1>8. r # <<>>
  <2>1. 1 \in DOMAIN hosts
    BY <1>4
  <2>2. ToSet(hosts) # {}
    BY <2>1 DEF ToSet
  <2>3. r = <<>> => ToSet(r) = {}
    BY DEF ToSet
  <2> QED BY <1>6, <2>2, <2>3
<1>9. preference' \in Cdn \cup {NoHost}
  <2>1. available # <<>> => 1 \in DOMAIN available /\ Head(available) = available[1]
    BY <1>5
  <2>2. available # <<>> => Head(available) \in ToSet(available)
    BY <2>1 DEF ToSet
  <2> QED BY <1>1, <1>3, <1>4, <1>5, <2>2 DEF TypeOK
<1>10. TypeOK'
  BY <1>2, <1>3, <1>6, <1>7, <1>8, <1>9, FetchTyped DEF TypeOK
<1>11. ChoiceOK(f)'
  <2>1. urls'[f] = r /\ phase'[f] = "fetching" /\ candidates'[f] = hosts /\ passed'[f] = ToSet(available)
    BY <1>2, <1>3, <1>5, <1>7 DEF Fetch, TypeOK, hosts
  <2> QED BY <1>6, <2>1 DEF ChoiceOK
<1>12. \A g \in File \ {f} :
          /\ phase'[g] = phase[g] /\ passed'[g] = passed[g] /\ urls'[g] = urls[g]
          /\ candidates'[g] = candidates[g] /\ fetch'[g] = fetch[g] /\ attempt'[g] = attempt[g]
  BY <1>2, <1>3, <1>7 DEF Fetch, TypeOK
<1> QED BY <1>10, <1>11, <1>12, OtherChoices DEF ChoiceInv

(* An attempt of a segment changes neither the routes nor the choice. *)
LEMMA SegmentChoice ==
    ASSUME ChoiceInv, NEW f \in File, NEW s \in Segment, SegmentStep(f, s)
    PROVE  ChoiceInv'
<1>1. TypeOK /\ ChoiceOK(f)
  BY DEF ChoiceInv
<1>2. /\ fetch[f][s] \in {"open", "received", "broken"}
      /\ UNCHANGED <<up, changes, phase, candidates, answered, passed, urls, steady>>
  BY DEF SegmentStep, Answer, Remember, Forget, network, choice
<1>3. phase[f] = "fetching"
  BY <1>1, <1>2 DEF ChoiceOK, TypeOK
<1>4. PICK state \in FetchState : Mark(f, s, state)
  BY DEF SegmentStep, Answer, Remember, Forget, FetchState
<1>5. fetch' \in [File -> [Segment -> FetchState]] /\ \A g \in File \ {f} : fetch'[g] = fetch[g]
  BY <1>1, <1>4 DEF Mark, TypeOK
<1>6. attempt' \in [File -> [Segment -> 0..Retries]] /\ \A g \in File \ {f} : attempt'[g] = attempt[g]
  <2>1. CASE UNCHANGED attempt
    BY <1>1, <2>1 DEF TypeOK
  <2>2. CASE MayRetry(f, s) /\ attempt' = [attempt EXCEPT ![f][s] = NextAttempt(f, s)]
    <3>1. attempt[f] \in [Segment -> 0..Retries] /\ attempt[f][s] \in 0..Retries /\ Retries \in Nat
      BY <1>1, RouteAssumption DEF TypeOK
    <3>2. NextAttempt(f, s) \in 0..Retries
      BY <2>2, <3>1 DEF MayRetry, NextAttempt
    <3> QED BY <1>1, <2>2, <3>1, <3>2 DEF TypeOK
  <2> QED BY <2>1, <2>2 DEF SegmentStep, Answer, Remember, Forget
<1>7. preference' \in Cdn \cup {NoHost}
  BY <1>1 DEF SegmentStep, Answer, Remember, Forget, Forgotten, TypeOK
<1>8. TypeOK'
  BY <1>1, <1>2, <1>5, <1>6, <1>7 DEF TypeOK
<1>9. ChoiceOK(f)'
  BY <1>1, <1>2, <1>3 DEF ChoiceOK
<1> QED BY <1>2, <1>5, <1>6, <1>8, <1>9, OtherChoices DEF ChoiceInv

LEMMA ChoiceInvariant == Spec => []ChoiceInv
<1>1. Init => ChoiceInv
  BY RouteAssumption DEF Init, ChoiceInv, TypeOK, ChoiceOK, FetchState
<1>2. ChoiceInv /\ [Next]_vars => ChoiceInv'
  <2> SUFFICES ASSUME ChoiceInv, [Next]_vars PROVE ChoiceInv'
    OBVIOUS
  <2>1. ASSUME NEW f \in File, FileStep(f) PROVE ChoiceInv'
    BY <2>1, SelectChoice, ProbeChoice, RankChoice DEF FileStep
  <2>2. ASSUME NEW f \in File, NEW s \in Segment, SegmentStep(f, s) PROVE ChoiceInv'
    BY <2>2, SegmentChoice
  <2>3. ASSUME NEW h \in Host, HostChanges(h) PROVE ChoiceInv'
    <3>1. changes' \in 0..MaxChanges
      <4>1. changes \in 0..MaxChanges /\ MaxChanges \in Nat /\ changes < MaxChanges /\ changes' = changes + 1
        BY <2>3, RouteAssumption DEF HostChanges, ChoiceInv, TypeOK
      <4> QED BY <4>1
    <3>2. up' \subseteq Host /\ steady' \in [File -> SUBSET Host]
      BY <2>3 DEF HostChanges, ChoiceInv, TypeOK
    <3>3. UNCHANGED <<preference, phase, candidates, answered, passed, urls, fetch, attempt>>
      BY <2>3 DEF HostChanges, choice
    <3> QED BY <3>1, <3>2, <3>3 DEF ChoiceInv, TypeOK, ChoiceOK
  <2>4. CASE PreferenceExpires
    BY <2>4 DEF PreferenceExpires, ChoiceInv, TypeOK, ChoiceOK, network, choice
  <2>5. CASE UNCHANGED vars
    BY <2>5 DEF vars, ChoiceInv, TypeOK, ChoiceOK, network, choice
  <2> QED BY <2>1, <2>2, <2>3, <2>4, <2>5 DEF Next
<1> QED BY <1>1, <1>2, PTL DEF Spec

(* The shared preference is a CDN host or nothing, whatever the downloads  *)
(* remember and forget, attempts stay within retries + 1, and a segment    *)
(* that is open has a route (streams.py 138-145, 160-184, 312-356).        *)
THEOREM RoutesTyped == Spec => []TypeOK
<1>1. ChoiceInv => TypeOK
  BY DEF ChoiceInv
<1> QED BY <1>1, ChoiceInvariant, PTL

(* Every download tries exactly the hosts it was given, each CDN host      *)
(* once, those that passed the probe first (streams.py 125-145, 177-184,   *)
(* 230-240).                                                               *)
THEOREM RoutesAreRanked == Spec => []RoutesRanked
<1>1. ASSUME ChoiceInv PROVE RoutesRanked
  <2> SUFFICES ASSUME NEW f \in File, phase[f] = "fetching"
               PROVE  LET n == Len(urls[f])
                      IN  /\ ToSet(urls[f]) = ToSet(candidates[f])
                          /\ ToSet(urls[f]) \cap Cdn # {} => Cardinality(ToSet(urls[f])) = n
                          /\ \A i, j \in 1..n :
                                i < j /\ urls[f][j] \in passed[f] => urls[f][i] \in passed[f]
    BY DEF RoutesRanked
  <2>1. urls[f] \in Seq(Host) /\ DOMAIN urls[f] = 1..Len(urls[f])
    BY <1>1 DEF ChoiceInv, TypeOK
  <2>2. ChoiceOK(f)
    BY <1>1 DEF ChoiceInv
  <2> QED BY <2>1, <2>2, OnceSize DEF ChoiceOK
<1> QED BY <1>1, ChoiceInvariant, PTL

-----------------------------------------------------------------------------
(* A route that stays up *)

RouteAt(f, k) == urls[f][(k % Len(urls[f])) + 1]

(* The attempts of a segment that have failed. *)
Spent(f, s) == {k \in 0..attempt[f][s] :
    k < attempt[f][s] \/ fetch[f][s] \in {"broken", "failed"}}

(* They went elsewhere, and a segment fails with its last one. *)
SteadyOK(f) ==
    /\ steady[f] \subseteq up
    /\ phase[f] # "fetching" => steady[f] = {}
    /\ phase[f] = "fetching" => steady[f] \subseteq ToSet(urls[f])
    /\ \A s \in Segment :
          /\ \A k \in Spent(f, s) : RouteAt(f, k) \notin steady[f]
          /\ fetch[f][s] = "failed" => attempt[f][s] = Retries

SteadyInv == \A f \in File : SteadyOK(f)

LEMMA SteadyFetch ==
    ASSUME ChoiceInv, SteadyInv, NEW f \in File, NEW routes, Fetch(f, routes),
           phase[f] # "fetching", UNCHANGED <<network, attempt>>
    PROVE  SteadyInv'
<1>1. TypeOK /\ ChoiceOK(f)
  BY DEF ChoiceInv
<1>2. /\ urls'[f] = routes /\ phase'[f] = "fetching" /\ steady'[f] = ToSet(routes) \cap up
      /\ \A s \in Segment : fetch'[f][s] = "open" /\ attempt'[f][s] = 0
  BY <1>1 DEF Fetch, TypeOK, ChoiceOK
<1>3. \A s \in Segment : Spent(f, s)' = {}
  BY <1>2 DEF Spent
<1>4. SteadyOK(f)'
  BY <1>2, <1>3 DEF SteadyOK, network
<1>5. ASSUME NEW g \in File \ {f} PROVE SteadyOK(g)'
  <2>1. /\ phase'[g] = phase[g] /\ urls'[g] = urls[g] /\ fetch'[g] = fetch[g]
        /\ steady'[g] = steady[g] /\ attempt' = attempt /\ up' = up
    BY <1>1 DEF Fetch, TypeOK, network
  <2> QED BY <2>1 DEF SteadyInv, SteadyOK, Spent, RouteAt
<1> QED BY <1>4, <1>5 DEF SteadyInv

LEMMA SteadySegment ==
    ASSUME ChoiceInv, SteadyInv, NEW f \in File, NEW s \in Segment, SegmentStep(f, s)
    PROVE  SteadyInv'
<1>1. TypeOK /\ SteadyOK(f)
  BY DEF ChoiceInv, SteadyInv
<1>2. UNCHANGED <<up, phase, urls, steady>>
  BY DEF SegmentStep, Answer, Remember, Forget, network, choice
<1>3. /\ \A g \in File \ {f} : fetch'[g] = fetch[g] /\ attempt'[g] = attempt[g]
      /\ \A t \in Segment \ {s} : fetch'[f][t] = fetch[f][t] /\ attempt'[f][t] = attempt[f][t]
  BY <1>1 DEF SegmentStep, Answer, Remember, Forget, Mark, TypeOK
<1>4. \A g \in File \ {f} : SteadyOK(g)'
  BY <1>2, <1>3 DEF SteadyInv, SteadyOK, Spent, RouteAt
<1>5. \A t \in Segment \ {s} : Spent(f, t)' = Spent(f, t)
  BY <1>3 DEF Spent
<1>6. \A k : RouteAt(f, k)' = RouteAt(f, k)
  BY <1>2 DEF RouteAt
<1>7. attempt[f][s] \in 0..Retries /\ Retries \in Nat /\ attempt[f][s] \in Nat
  BY <1>1, RouteAssumption DEF TypeOK
<1>8. RouteOf(f, s) = RouteAt(f, attempt[f][s])
  BY DEF RouteOf, RouteAt
<1>9. /\ \A k \in Spent(f, s)' : RouteAt(f, k) \notin steady[f]
      /\ fetch'[f][s] = "failed" => attempt'[f][s] = Retries
  <2>1. CASE Answer(f, s)
    <3>1. /\ attempt' = attempt /\ fetch[f][s] = "open"
          /\ fetch'[f][s] = IF RouteOf(f, s) \in up THEN "received" ELSE "broken"
      BY <1>1, <2>1 DEF Answer, Mark, TypeOK
    <3>2. \A k \in Spent(f, s)' : k \in Spent(f, s) \/ (k = attempt[f][s] /\ RouteOf(f, s) \notin up)
      BY <1>7, <3>1 DEF Spent
    <3> QED BY <1>1, <1>8, <3>1, <3>2 DEF SteadyOK
  <2>2. CASE Remember(f, s)
    <3>1. attempt' = attempt /\ fetch'[f][s] = "done"
      BY <1>1, <2>2 DEF Remember, Mark, TypeOK
    <3>2. Spent(f, s)' \subseteq Spent(f, s)
      BY <3>1 DEF Spent
    <3> QED BY <1>1, <3>1, <3>2 DEF SteadyOK
  <2>3. CASE Forget(f, s) /\ MayRetry(f, s)
    <3>1. /\ attempt'[f][s] = attempt[f][s] + 1 /\ fetch'[f][s] = "open" /\ fetch[f][s] = "broken"
      BY <1>1, <2>3 DEF Forget, Mark, NextAttempt, TypeOK
    <3>2. Spent(f, s)' \subseteq Spent(f, s)
      BY <1>7, <3>1 DEF Spent
    <3> QED BY <1>1, <3>1, <3>2 DEF SteadyOK
  <2>4. CASE Forget(f, s) /\ ~MayRetry(f, s)
    <3>1. attempt' = attempt /\ fetch'[f][s] = "failed" /\ fetch[f][s] = "broken"
      BY <1>1, <2>4 DEF Forget, Mark, TypeOK
    <3>2. Spent(f, s)' \subseteq Spent(f, s)
      BY <3>1 DEF Spent
    <3>3. attempt[f][s] = Retries
      BY <1>7, <2>4 DEF MayRetry
    <3> QED BY <1>1, <3>1, <3>2, <3>3 DEF SteadyOK
  <2> QED BY <2>1, <2>2, <2>3, <2>4 DEF SegmentStep
<1>10. SteadyOK(f)'
  BY <1>1, <1>2, <1>3, <1>5, <1>6, <1>9 DEF SteadyOK
<1> QED BY <1>4, <1>10 DEF SteadyInv

LEMMA SteadyInvariant == Spec => []SteadyInv
<1>1. Init => SteadyInv
  BY DEF Init, SteadyInv, SteadyOK, Spent
<1>2. ChoiceInv /\ SteadyInv /\ [Next]_vars => SteadyInv'
  <2> SUFFICES ASSUME ChoiceInv, SteadyInv, [Next]_vars PROVE SteadyInv'
    OBVIOUS
  <2>1. ASSUME UNCHANGED <<up, phase, urls, fetch, attempt, steady>> PROVE SteadyInv'
    BY <2>1 DEF SteadyInv, SteadyOK, Spent, RouteAt
  <2>2. ASSUME NEW f \in File, NEW hosts \in Located, Select(f, hosts) PROVE SteadyInv'
    <3>1. CASE NeedsNoProbe(Expanded(hosts))
      BY <2>2, <3>1, SteadyFetch DEF Select
    <3>2. CASE ~NeedsNoProbe(Expanded(hosts))
      <4>1. /\ phase' = [phase EXCEPT ![f] = "probing"] /\ phase[f] = "idle"
            /\ UNCHANGED <<up, urls, fetch, attempt, steady>>
        BY <2>2, <3>2 DEF Select, network
      <4>2. /\ phase'[f] = "probing" /\ \A g \in File \ {f} : phase'[g] = phase[g]
        BY <4>1 DEF ChoiceInv, TypeOK
      <4> QED BY <4>1, <4>2 DEF SteadyInv, SteadyOK, Spent, RouteAt
    <3> QED BY <3>1, <3>2
  <2>3. ASSUME NEW f \in File, NEW h \in Host, ProbeEnds(f, h) PROVE SteadyInv'
    BY <2>1, <2>3 DEF ProbeEnds, network
  <2>4. ASSUME NEW f \in File, RankProbes(f) PROVE SteadyInv'
    BY <2>4, SteadyFetch DEF RankProbes
  <2>5. ASSUME NEW f \in File, NEW s \in Segment, SegmentStep(f, s) PROVE SteadyInv'
    BY <2>5, SteadySegment
  <2>6. ASSUME NEW h \in Host, HostChanges(h) PROVE SteadyInv'
    <3>1. /\ UNCHANGED <<phase, urls, fetch, attempt>> /\ up \ {h} \subseteq up'
          /\ \A f \in File : steady'[f] = steady[f] \ {h}
      BY <2>6 DEF HostChanges, choice
    <3> QED BY <3>1 DEF SteadyInv, SteadyOK, Spent, RouteAt
  <2>7. CASE PreferenceExpires
    BY <2>1, <2>7 DEF PreferenceExpires, network, choice
  <2>8. CASE UNCHANGED vars
    BY <2>1, <2>8 DEF vars, network, choice
  <2> QED BY <2>2, <2>3, <2>4, <2>5, <2>6, <2>7, <2>8 DEF Next, FileStep
<1> QED BY <1>1, <1>2, ChoiceInvariant, PTL DEF Spec

(* However stale the preference is, whichever probes are lost and hosts    *)
(* die, a segment with an attempt for every route does not fail while one  *)
(* of its routes stays up (streams.py 177-184, 312-356).                   *)
THEOREM SteadyRouteWins == Spec => []SteadyHostWins
<1>1. ASSUME ChoiceInv, SteadyInv PROVE SteadyHostWins
  <2> SUFFICES ASSUME NEW f \in File, NEW s \in Segment, fetch[f][s] = "failed",
                      Len(urls[f]) <= Retries + 1, NEW h \in steady[f]
               PROVE  FALSE
    BY DEF SteadyHostWins
  <2> DEFINE n == Len(urls[f])
  <2>1. TypeOK /\ SteadyOK(f) /\ urls[f] \in Seq(Host) /\ n \in Nat /\ Retries \in Nat
    BY <1>1, RouteAssumption DEF ChoiceInv, SteadyInv, TypeOK
  <2>2. h \in ToSet(urls[f]) /\ attempt[f][s] = Retries
    BY <2>1 DEF SteadyOK, TypeOK
  <2>3. PICK i \in 1..n : urls[f][i] = h
    BY <2>1, <2>2 DEF ToSet
  <2> HIDE DEF n
  <2>4. i - 1 \in 0..Retries /\ i - 1 \in 0..(n - 1) /\ n <= Retries + 1
    BY <2>1, <2>3 DEF n
  <2>5. ((i - 1) % n) + 1 = i
    BY <2>1, <2>4, SMTT(20)
  <2>6. i - 1 \in Spent(f, s)
    BY <2>2, <2>4 DEF Spent
  <2>7. RouteAt(f, i - 1) = h
    BY <2>3, <2>5 DEF RouteAt, n
  <2> QED BY <2>1, <2>6, <2>7 DEF SteadyOK
<1> QED BY <1>1, ChoiceInvariant, SteadyInvariant, PTL
=============================================================================
