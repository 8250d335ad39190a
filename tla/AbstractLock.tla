---------------------------- MODULE AbstractLock ----------------------------
(***************************************************************************)
(* What a mutex_t promises its users, with no cell and no spinning: at any *)
(* moment at most one thread is the owner, only a free lock is acquired,   *)
(* and only its owner gives it back.                                       *)
(***************************************************************************)
CONSTANT Threads

VARIABLE owners     \* the threads that own the lock: none or one

AbsInit == owners = {}

AbsAcquire(t) ==
    /\ owners = {}
    /\ owners' = {t}

AbsRelease(t) ==
    /\ owners = {t}
    /\ owners' = {}

AbsNext == \E t \in Threads : AbsAcquire(t) \/ AbsRelease(t)

AbsSpec == AbsInit /\ [][AbsNext]_owners
=============================================================================
