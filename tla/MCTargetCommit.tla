--------------------------- MODULE MCTargetCommit ---------------------------
(* Three locales; every mix of old, missing and irregular files at first.  *)
EXTENDS TargetCommit
=============================================================================
