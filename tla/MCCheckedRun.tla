---------------------------- MODULE MCCheckedRun ----------------------------
(***************************************************************************)
(* Small instances of CheckedRun; every constant is given in the cfg.      *)
(***************************************************************************)
EXTENDS CheckedRun
=============================================================================
