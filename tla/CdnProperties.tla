--------------------------- MODULE CdnProperties ---------------------------
(***************************************************************************)
(* What the choice of CDN routes promises to every download, however stale *)
(* the preference is that the downloads share.                             *)
(***************************************************************************)
EXTENDS CdnRoutes

FetchState == {"none", "open", "received", "broken", "done", "failed"}

(* The types of the preference and of each download; a segment has a route *)
(* to try from the moment it is open, and makes retries + 1 attempts.      *)
TypeOK ==
    /\ up \subseteq Host /\ changes \in 0..MaxChanges
    /\ preference \in Cdn \cup {NoHost}
    /\ phase \in [File -> {"idle", "probing", "fetching"}]
    /\ candidates \in [File -> Seq(Host)] /\ urls \in [File -> Seq(Host)]
    /\ answered \in [File -> SUBSET Host] /\ passed \in [File -> SUBSET Host]
    /\ fetch \in [File -> [Segment -> FetchState]]
    /\ attempt \in [File -> [Segment -> 0..Retries]]
    /\ steady \in [File -> SUBSET Host]
    /\ \A f \in File : phase[f] = "fetching" => urls[f] # <<>>

(* Ranking loses no route and repeats none of the CDN: the routes of a     *)
(* download are its candidates, and after a probe no host that failed it   *)
(* comes before one that passed (streams.py 177-184, 234-240).  URLs of    *)
(* other hosts are taken as they were located.                             *)
RoutesRanked == \A f \in File : phase[f] = "fetching" =>
    LET n == Len(urls[f])
    IN  /\ ToSet(urls[f]) = ToSet(candidates[f])
        /\ ToSet(urls[f]) \cap Cdn # {} => Cardinality(ToSet(urls[f])) = n
        /\ \A i, j \in 1..n : i < j /\ urls[f][j] \in passed[f] => urls[f][i] \in passed[f]

(* A stale preference, a lost probe or a host that dies later cost         *)
(* attempts, never the download: while one of its routes stays up, and     *)
(* there are attempts for every route, no segment fails (streams.py        *)
(* 177-184, 312-356).                                                      *)
SteadyHostWins == \A f \in File, s \in Segment :
    fetch[f][s] = "failed" /\ Len(urls[f]) <= Retries + 1 => steady[f] = {}

(* Every probe, request and pause has a timeout, and the event loop and    *)
(* the pools run what is ready.                                            *)
Fairness == \A f \in File :
    /\ \A h \in Host : WF_vars(ProbeEnds(f, h))
    /\ WF_vars(RankProbes(f))
    /\ \A s \in Segment : WF_vars(SegmentStep(f, s))

FairSpec == Spec /\ Fairness

(* A download that began to choose its routes gets an end for each of its  *)
(* segments, whatever the other downloads do to the preference.            *)
EveryFetchEnds == \A f \in File, s \in Segment :
    phase[f] # "idle" ~> fetch[f][s] \in {"done", "failed"}

(* A host that has died stops being preferred once a download meets it,    *)
(* without waiting for the preference to expire, unless it comes up again  *)
(* (streams.py 169-174, 353).                                              *)
DeadHostForgotten == \A h \in Cdn, f \in File, s \in Segment :
    preference = h /\ h \notin up /\ fetch[f][s] = "open" /\ RouteOf(f, s) = h
        ~> preference # h \/ h \in up
=============================================================================
