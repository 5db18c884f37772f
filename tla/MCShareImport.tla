--------------------------- MODULE MCShareImport ---------------------------
(***************************************************************************)
(* Instances of ShareImport for TLC: a share with more directories beside  *)
(* one another than list_tree scans at a time, one nested in another, and  *)
(* an account with room for one of two shares.                             *)
(***************************************************************************)
EXTENDS ImportProperties

CONSTANTS root, a, b, c, d, f, g, h

ShareEntries == {a, b, c, d, f, g, h}
ShareListing == root :> <<a, b, c, f>> @@ a :> <<g>> @@ b :> <<d>> @@ c :> <<>> @@ d :> <<h>>
ShareSize == [j \in Job |-> 4]
=============================================================================
