--------------------------- MODULE MCRangeStream ---------------------------
(***************************************************************************)
(* Instances of RangeStream for TLC: the configurations give its constants *)
(* their values.                                                           *)
(***************************************************************************)
EXTENDS StreamProperties
=============================================================================
