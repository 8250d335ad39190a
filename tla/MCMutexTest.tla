---------------------------- MODULE MCMutexTest -----------------------------
(***************************************************************************)
(* The mutex test with two helpers instead of ten.                         *)
(***************************************************************************)
EXTENDS MutexTest
=============================================================================
