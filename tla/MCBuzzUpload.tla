---------------------------- MODULE MCBuzzUpload ----------------------------
(***************************************************************************)
(* Instances of BuzzUpload for TLC: the configurations give its constants  *)
(* their values.                                                           *)
(***************************************************************************)
EXTENDS UploadProperties
=============================================================================
