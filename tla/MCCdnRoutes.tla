---------------------------- MODULE MCCdnRoutes ----------------------------
(***************************************************************************)
(* Instances of CdnRoutes for TLC: what Baidu may locate (one host of the  *)
(* CDN, one twice beside another host, only another host), and a fallback *)
(* host that it does not name.                                             *)
(***************************************************************************)
EXTENDS CdnProperties

CONSTANTS h1, h2, x1

LocatedHosts == {<<h1>>, <<x1, h1, h1>>, <<x1, x1>>}
FallbackHosts == <<h1, h2>>
=============================================================================
