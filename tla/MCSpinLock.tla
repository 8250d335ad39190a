----------------------------- MODULE MCSpinLock -----------------------------
(***************************************************************************)
(* Three threads on one mutex: an owner, a thread that has exchanged and   *)
(* not looked, and a third that can overtake either.                       *)
(***************************************************************************)
EXTENDS SpinLock
=============================================================================
