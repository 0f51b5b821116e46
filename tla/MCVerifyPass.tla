---------------------------- MODULE MCVerifyPass ----------------------------
(***************************************************************************)
(* A small instance of VerifyPass; every constant is given in the cfg.     *)
(***************************************************************************)
EXTENDS VerifyPass
=============================================================================
