----------------------------- MODULE MutexTest ------------------------------
(***************************************************************************)
(* The library's own test of its mutex (ministd_threads.c, TEST_FN(mutex)) *)
(* as a client of SpinLock: the main thread clones N helpers, waits until  *)
(* a shared counter says that all have run, and asserts that each has set  *)
(* its flag.  A helper holds the mutex while it counts and sets its flag;  *)
(* the main thread reads both without the mutex.                           *)
(***************************************************************************)
EXTENDS Integers

CONSTANT N              \* N_THREADS

Helpers == 0 .. N - 1

VARIABLES
    lock, pc, got, spins,       \* the mutex: see SpinLock
    helper,         \* where each helper is in mutex_helper
    reg,            \* the helper's register in ++num_executed
    num_executed, has_executed, \* the test's globals
    main,           \* "launch", "wait", "check", "passed" or "failed"
    i               \* main's loop variable

mutex == INSTANCE SpinLock WITH Threads <- Helpers

mutexVars == <<lock, pc, got, spins>>
vars == <<mutexVars, helper, reg, num_executed, has_executed, main, i>>

Init ==
    /\ mutex!Init
    /\ helper = [t \in Helpers |-> "unborn"]
    /\ reg = [t \in Helpers |-> 0]
    /\ num_executed = 0
    /\ has_executed = [t \in Helpers |-> FALSE]
    /\ main = "launch"
    /\ i = 0

\* clone(mutex_helper, arg, &cl_args, NULL): the thread starts, or clone3
\* fails and nobody is told.
Launch ==
    /\ main = "launch"
    /\ i < N
    /\ \E started \in BOOLEAN :
          helper' = IF started THEN [helper EXCEPT ![i] = "lock"] ELSE helper
    /\ i' = i + 1
    /\ UNCHANGED <<mutexVars, reg, num_executed, has_executed, main>>

AllLaunched ==
    /\ main = "launch"
    /\ i = N
    /\ main' = "wait"
    /\ UNCHANGED <<mutexVars, helper, reg, num_executed, has_executed, i>>

\* while (num_executed < N_THREADS) {}
CountSeen ==
    /\ main = "wait"
    /\ num_executed >= N
    /\ main' = "check"
    /\ i' = 0
    /\ UNCHANGED <<mutexVars, helper, reg, num_executed, has_executed>>

\* ASSERT(has_executed[i], "thread didn't execute")
Check ==
    /\ main = "check"
    /\ \/ /\ i = N
          /\ main' = "passed"
          /\ i' = i
       \/ /\ i < N
          /\ main' = IF has_executed[i] THEN "check" ELSE "failed"
          /\ i' = i + 1
    /\ UNCHANGED <<mutexVars, helper, reg, num_executed, has_executed>>

\* mutex_lock(arg->lock)
EnterHelper(t) ==
    /\ helper[t] = "lock"
    /\ \/ mutex!MutexLock(t) \/ mutex!Swap(t) \/ mutex!Refused(t)
       \/ mutex!Acquired(t)
    /\ helper' = [helper EXCEPT ![t] = IF pc'[t] = "in" THEN "load" ELSE "lock"]
    /\ UNCHANGED <<reg, num_executed, has_executed, main, i>>

\* ++num_executed is a load and a store: the counter is volatile, not atomic.
Load(t) ==
    /\ helper[t] = "load"
    /\ reg' = [reg EXCEPT ![t] = num_executed]
    /\ helper' = [helper EXCEPT ![t] = "store"]
    /\ UNCHANGED <<mutexVars, num_executed, has_executed, main, i>>

Store(t) ==
    /\ helper[t] = "store"
    /\ num_executed' = reg[t] + 1
    /\ helper' = [helper EXCEPT ![t] = "flag"]
    /\ UNCHANGED <<mutexVars, reg, has_executed, main, i>>

SetFlag(t) ==
    /\ helper[t] = "flag"
    /\ has_executed' = [has_executed EXCEPT ![t] = TRUE]
    /\ helper' = [helper EXCEPT ![t] = "unlock"]
    /\ UNCHANGED <<mutexVars, reg, num_executed, main, i>>

\* mutex_unlock, then the return that ends the thread.
Leave(t) ==
    /\ helper[t] = "unlock"
    /\ mutex!MutexUnlock(t)
    /\ helper' = [helper EXCEPT ![t] = "exited"]
    /\ UNCHANGED <<reg, num_executed, has_executed, main, i>>

Next ==
    \/ Launch \/ AllLaunched \/ CountSeen \/ Check
    \/ \E t \in Helpers :
          EnterHelper(t) \/ Load(t) \/ Store(t) \/ SetFlag(t) \/ Leave(t)

Spec == Init /\ [][Next]_vars

-----------------------------------------------------------------------------
(***************************************************************************)
(* ASSERT(has_executed[i], "thread didn't execute"): once the counter says *)
(* that N helpers have run, each of them has set its flag.                 *)
(***************************************************************************)
AssertionHolds == main # "failed"
=============================================================================
