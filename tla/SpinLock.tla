------------------------------ MODULE SpinLock ------------------------------
(***************************************************************************)
(* The mutex of ministd_threads.c: an atomic int that is 0 when the lock   *)
(* is free and 1 when it is taken.  mutex_try_lock exchanges the cell with *)
(* 1 and then looks at the value that came back; mutex_lock repeats        *)
(* mutex_try_lock until it succeeds; mutex_unlock exchanges the cell with  *)
(* 0.  The exchange is one instruction.  Looking at its result is a later  *)
(* one, and other threads run between the two, so a thread can own the     *)
(* lock before it knows that it does.                                      *)
(***************************************************************************)
EXTENDS Integers

CONSTANT Threads        \* the threads that share one mutex_t

VARIABLES
    lock,       \* the atomic int behind the mutex_t
    pc,         \* where each thread is: outside, about to exchange,
                \* about to look at the result, or inside
    got,        \* the value the thread's last exchange returned
    spins       \* TRUE in mutex_lock, FALSE in a bare mutex_try_lock

vars == <<lock, pc, got, spins>>

PCs == {"out", "swap", "test", "in"}

\* mutex_new makes the cell with value 0; every thread starts outside.
Init ==
    /\ lock = 0
    /\ pc = [t \in Threads |-> "out"]
    /\ got = [t \in Threads |-> 0]
    /\ spins = [t \in Threads |-> FALSE]

Call(t, blocking) ==
    /\ pc[t] = "out"
    /\ pc' = [pc EXCEPT ![t] = "swap"]
    /\ spins' = [spins EXCEPT ![t] = blocking]
    /\ UNCHANGED <<lock, got>>

MutexLock(t) == Call(t, TRUE)

MutexTryLock(t) == Call(t, FALSE)

\* atomic_swap_i(this, 1): the cell becomes 1 whatever it was.
Swap_Adds(t) ==             \* mutant: fetch_add where the swap should be
    /\ pc[t] = "swap"
    /\ got' = [got EXCEPT ![t] = lock]
    /\ lock' = lock + 1
    /\ pc' = [pc EXCEPT ![t] = "test"]
    /\ UNCHANGED spins

Swap(t) ==
    /\ pc[t] = "swap"
    /\ got' = [got EXCEPT ![t] = lock]
    /\ lock' = 1
    /\ pc' = [pc EXCEPT ![t] = "test"]
    /\ UNCHANGED spins

\* ... == 0: the lock was free, so it is this thread's now.
Acquired_Unchecked(t) ==    \* mutant: the result is not compared with 0
    /\ pc[t] = "test"
    /\ pc' = [pc EXCEPT ![t] = "in"]
    /\ UNCHANGED <<lock, got, spins>>

Acquired(t) ==
    /\ pc[t] = "test"
    /\ got[t] = 0
    /\ pc' = [pc EXCEPT ![t] = "in"]
    /\ UNCHANGED <<lock, got, spins>>

\* The lock was taken: mutex_lock goes round its loop, mutex_try_lock
\* returns false.
Refused_Undoes(t) ==        \* mutant: a refused attempt puts the 0 back
    /\ pc[t] = "test"
    /\ got[t] # 0
    /\ pc' = [pc EXCEPT ![t] = IF spins[t] THEN "swap" ELSE "out"]
    /\ lock' = 0
    /\ UNCHANGED <<got, spins>>

Refused(t) ==
    /\ pc[t] = "test"
    /\ got[t] # 0
    /\ pc' = [pc EXCEPT ![t] = IF spins[t] THEN "swap" ELSE "out"]
    /\ UNCHANGED <<lock, got, spins>>

\* atomic_swap_i(this, 0); its result is dropped.
MutexUnlock_Swaps1(t) ==    \* mutant: the constant of mutex_try_lock
    /\ pc[t] = "in"
    /\ lock' = 1
    /\ pc' = [pc EXCEPT ![t] = "out"]
    /\ UNCHANGED <<got, spins>>

MutexUnlock(t) ==
    /\ pc[t] = "in"
    /\ lock' = 0
    /\ pc' = [pc EXCEPT ![t] = "out"]
    /\ UNCHANGED <<got, spins>>

\* The steps a thread takes without being asked to: those inside a call,
\* and the unlock that ends its critical section.
Run(t) == Swap(t) \/ Acquired(t) \/ Refused(t) \/ MutexUnlock(t)

Next == \E t \in Threads : MutexLock(t) \/ MutexTryLock(t) \/ Run(t)

Spec == Init /\ [][Next]_vars

\* The kernel schedules every thread that can run, and critical sections end.
Fairness == \A t \in Threads : WF_vars(Run(t))

FairSpec == Spec /\ Fairness

-----------------------------------------------------------------------------
TypeOK ==
    /\ lock \in {0, 1}
    /\ pc \in [Threads -> PCs]
    /\ got \in [Threads -> {0, 1}]
    /\ spins \in [Threads -> BOOLEAN]

\* A thread owns the lock from the exchange that returned 0 to it, not from
\* the test that tells it so.
Owns(t) == pc[t] = "in" \/ (pc[t] = "test" /\ got[t] = 0)

Owners == {t \in Threads : Owns(t)}

(***************************************************************************)
(* mutex_lock and mutex_try_lock never let two threads inside at once.     *)
(***************************************************************************)
MutualExclusion ==
    \A t, u \in Threads : pc[t] = "in" /\ pc[u] = "in" => t = u

(***************************************************************************)
(* The cell is 1 exactly while somebody owns the lock: a failed exchange,  *)
(* which also writes 1, never takes a free lock with it, and a release     *)
(* never frees a lock somebody else has already taken.                     *)
(***************************************************************************)
CellTellsOwned == lock = 1 <=> Owners # {}

(***************************************************************************)
(* The inductive invariant: two owners cannot exist, even when one of them *)
(* has not looked at the result of its exchange yet.                       *)
(***************************************************************************)
OneOwner == \A t, u \in Threads : Owns(t) /\ Owns(u) => t = u

IInv == TypeOK /\ OneOwner /\ CellTellsOwned

A == INSTANCE AbstractLock WITH owners <- Owners

(***************************************************************************)
(* The mutex implements the abstract lock: the exchange that returns 0 is  *)
(* the acquisition, mutex_unlock's exchange the release, and every other   *)
(* step changes no owner.                                                  *)
(***************************************************************************)
ImplementsLock == A!AbsSpec

(***************************************************************************)
(* While some thread is spinning in mutex_lock, somebody gets in: the lock *)
(* is never left taken with nobody inside.  (Which thread is not promised: *)
(* one thread may lose every race.)                                        *)
(***************************************************************************)
SomeoneGetsIn ==
    (\E t \in Threads : pc[t] = "swap" /\ spins[t])
        ~> (\E t \in Threads : pc[t] = "in")
=============================================================================
