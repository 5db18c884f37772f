----------------------------- MODULE CdnRoutes -----------------------------
(***************************************************************************)
(* The routes of the downloads: services/streams.py.  Every download       *)
(* expands the URLs that Baidu located into one candidate per CDN host,    *)
(* ranks them once (by the host that all downloads share as preferred, or  *)
(* by a probe of each), and each of its segments then tries them in turn.  *)
(*                                                                         *)
(* A URL is its host: the candidates differ in nothing else.  A host that  *)
(* is up gives an acceptable answer, after redirects that stay on its      *)
(* CDN; any other answer, and too many redirects, is a host that is down.  *)
(* The two selections (for tasks and for threads) are the same text.       *)
(* Recording an answer in the preference is a step after the answer: a     *)
(* thread may be held up in between.  The 300 s of the preference are      *)
(* PreferenceExpires, at any time; the pause between attempts is left out. *)
(* What becomes of the other segments of a download that fails, or is      *)
(* given up, is in RangeStream.                                            *)
(***************************************************************************)
EXTENDS Naturals, Sequences, FiniteSets, SequencesExt, Subsequence

CONSTANTS
    File,        \* downloads, each of one source file
    Segment,     \* the segments each of them fetches at the same time
    Cdn,         \* the hosts under baidupcs.com
    Foreign,     \* other hosts
    NoHost,
    Located,     \* the sequences of hosts that locatedownload may answer
    Fallback,    \* _BAIDU_CDN_FALLBACK_HOSTS
    Retries,     \* settings.baidu_download_retries
    MaxChanges   \* bound: how often a host goes down or comes up

Host == Cdn \cup Foreign

ASSUME HostAssumption == NoHost \notin Host /\ Cdn \cap Foreign = {}
ASSUME RouteAssumption ==
    /\ Located \subseteq Seq(Host) \ {<<>>} /\ Fallback \in Seq(Cdn)
    /\ Retries \in Nat /\ MaxChanges \in Nat

VARIABLES
    up, changes,   \* the hosts that answer, and the changes so far
    preference,    \* _cdn_preference, NoHost for None and when it has expired
    phase,         \* of each download: idle, probing, fetching
    candidates,    \* its URLs, expanded
    answered, passed,  \* its probes that ended, and those that got an answer
    urls,          \* its routes, in the order of the attempts
    fetch, attempt,    \* of each of its segments
    steady         \* history: its routes that were up since it began to fetch

network == <<up, changes>>
choice == <<candidates, answered, passed, urls>>
vars == <<network, preference, phase, choice, fetch, attempt, steady>>

-----------------------------------------------------------------------------
(* Candidates and their order *)

mutant_Distinct(hosts) == hosts
(* dict.fromkeys: each host once, at its first place. *)
Distinct(hosts) ==
    ElementsAt(hosts, {i \in DOMAIN hosts : \A k \in 1..(i - 1) : hosts[k] # hosts[i]})

OnCdn(hosts) == Filtered(hosts, Cdn)

(* The URLs of other hosts are dropped when there is one on the CDN. *)
Expanded(hosts) ==
    IF OnCdn(hosts) = <<>> THEN hosts ELSE Distinct(OnCdn(hosts) \o Fallback)

Ranked(first, hosts) == first \o Filtered(hosts, Host \ ToSet(first))

mutant_RouteOf(f, s) == urls[f][1]
RouteOf(f, s) == urls[f][(attempt[f][s] % Len(urls[f])) + 1]

-----------------------------------------------------------------------------
(* _select_async_download_urls, _select_sync_download_urls *)

Fetch(f, routes) ==
    /\ urls' = [urls EXCEPT ![f] = routes]
    /\ phase' = [phase EXCEPT ![f] = "fetching"]
    /\ fetch' = [fetch EXCEPT ![f] = [s \in Segment |-> "open"]]
    /\ steady' = [steady EXCEPT ![f] = ToSet(routes) \cap up]

NeedsNoProbe(hosts) ==
    OnCdn(hosts) = <<>> \/ Len(hosts) <= 1 \/ Contains(hosts, preference)

Select(f, hosts) ==
    LET expanded == Expanded(hosts)
    IN  /\ phase[f] = "idle"
        /\ candidates' = [candidates EXCEPT ![f] = expanded]
        /\ IF NeedsNoProbe(expanded)
           THEN Fetch(f, IF Contains(expanded, preference)
                         THEN Ranked(<<preference>>, expanded) ELSE expanded)
           ELSE /\ phase' = [phase EXCEPT ![f] = "probing"]
                /\ UNCHANGED <<urls, fetch, steady>>
        /\ UNCHANGED <<network, preference, answered, passed, attempt>>

ProbeEnds(f, h) ==
    /\ phase[f] = "probing" /\ h \in ToSet(candidates[f]) \ answered[f]
    /\ answered' = [answered EXCEPT ![f] = @ \cup {h}]
    /\ passed' = [passed EXCEPT ![f] = IF h \in up THEN @ \cup {h} ELSE @]
    /\ UNCHANGED <<network, preference, phase, candidates, urls, fetch, attempt, steady>>

(* The hosts that passed come first, by the time they took. *)
RankProbes(f) ==
    /\ phase[f] = "probing" /\ answered[f] = ToSet(candidates[f])
    /\ \E available \in SetToSeqs(passed[f]) :
          /\ Fetch(f, Ranked(available, candidates[f]))
          /\ preference' = IF available = <<>> THEN preference ELSE Head(available)
    /\ UNCHANGED <<network, candidates, answered, passed, attempt>>

-----------------------------------------------------------------------------
(* _download_async_segment, _download_sync_segment *)

Mark(f, s, state) == fetch' = [fetch EXCEPT ![f][s] = state]

Answer(f, s) ==
    /\ fetch[f][s] = "open"
    /\ Mark(f, s, IF RouteOf(f, s) \in up THEN "received" ELSE "broken")
    /\ UNCHANGED <<network, preference, phase, choice, attempt, steady>>

(* _remember_cdn_url, and the segment is done. *)
Remember(f, s) ==
    /\ fetch[f][s] = "received" /\ Mark(f, s, "done")
    /\ preference' = IF RouteOf(f, s) \in Cdn THEN RouteOf(f, s) ELSE preference
    /\ UNCHANGED <<network, phase, choice, attempt, steady>>

mutant_MayRetry(f, s) == TRUE
MayRetry(f, s) == attempt[f][s] < Retries

mutant_Forgotten(h) == IF preference = h THEN preference ELSE NoHost
Forgotten(h) == IF preference = h THEN NoHost ELSE preference

mutant_NextAttempt(f, s) == attempt[f][s]
NextAttempt(f, s) == attempt[f][s] + 1

(* _forget_cdn_url, and the next attempt if one is left. *)
Forget(f, s) ==
    /\ fetch[f][s] = "broken" /\ preference' = Forgotten(RouteOf(f, s))
    /\ IF MayRetry(f, s)
       THEN attempt' = [attempt EXCEPT ![f][s] = NextAttempt(f, s)] /\ Mark(f, s, "open")
       ELSE Mark(f, s, "failed") /\ UNCHANGED attempt
    /\ UNCHANGED <<network, phase, choice, steady>>

-----------------------------------------------------------------------------
(* The environment *)

HostChanges(h) ==
    /\ changes < MaxChanges /\ changes' = changes + 1
    /\ up' = IF h \in up THEN up \ {h} ELSE up \cup {h}
    /\ steady' = [f \in File |-> steady[f] \ {h}]
    /\ UNCHANGED <<preference, phase, choice, fetch, attempt>>

PreferenceExpires ==
    /\ preference # NoHost /\ preference' = NoHost
    /\ UNCHANGED <<network, phase, choice, fetch, attempt, steady>>

Init ==
    /\ up \in SUBSET Host /\ changes = 0
    /\ preference = NoHost /\ phase = [f \in File |-> "idle"]
    /\ candidates = [f \in File |-> <<>>] /\ urls = [f \in File |-> <<>>]
    /\ answered = [f \in File |-> {}] /\ passed = [f \in File |-> {}]
    /\ fetch = [f \in File |-> [s \in Segment |-> "none"]]
    /\ attempt = [f \in File |-> [s \in Segment |-> 0]]
    /\ steady = [f \in File |-> {}]

FileStep(f) ==
    \/ \E hosts \in Located : Select(f, hosts)
    \/ \E h \in Host : ProbeEnds(f, h)
    \/ RankProbes(f)
SegmentStep(f, s) == Answer(f, s) \/ Remember(f, s) \/ Forget(f, s)

Next ==
    \/ \E f \in File : FileStep(f) \/ \E s \in Segment : SegmentStep(f, s)
    \/ \E h \in Host : HostChanges(h)
    \/ PreferenceExpires

Spec == Init /\ [][Next]_vars
=============================================================================
