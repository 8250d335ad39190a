--------------------------- MODULE SpinLockProofs ---------------------------
(***************************************************************************)
(* The mutex excludes, for any set of threads, and implements the abstract *)
(* lock.  The argument: a thread owns the lock from its successful         *)
(* exchange (SpinLock!Owns), there is never more than one owner, and the   *)
(* cell is 1 exactly while there is one.                                   *)
(***************************************************************************)
EXTENDS SpinLock, TLAPS

(***************************************************************************)
(* Every step keeps the cell, the program counters and the results of the  *)
(* exchanges in their ranges.                                              *)
(***************************************************************************)
THEOREM TypeCorrect == Spec => []TypeOK
<1>1. Init => TypeOK
  BY DEF Init, TypeOK, PCs
<1>2. TypeOK /\ [Next]_vars => TypeOK'
  BY DEF TypeOK, PCs, Next, Run, MutexLock, MutexTryLock, Call, Swap,
         Acquired, Refused, MutexUnlock, vars
<1>. QED  BY <1>1, <1>2, PTL DEF Spec

(***************************************************************************)
(* Ownership and the cell agree in the initial state.                      *)
(***************************************************************************)
LEMMA InitIInv == Init => IInv
BY DEF Init, IInv, TypeOK, PCs, OneOwner, CellTellsOwned, Owners, Owns

(***************************************************************************)
(* One exchange, test or release keeps one owner at most and the cell      *)
(* telling whether there is one.                                           *)
(***************************************************************************)
LEMMA NextIInv == IInv /\ [Next]_vars => IInv'
<1> SUFFICES ASSUME IInv, [Next]_vars PROVE IInv'
  OBVIOUS
<1> USE DEF IInv
<1>0. TypeOK'
  BY DEF TypeOK, PCs, Next, Run, MutexLock, MutexTryLock, Call, Swap,
         Acquired, Refused, MutexUnlock, vars
<1>1. ASSUME NEW t \in Threads, MutexLock(t) \/ MutexTryLock(t)
      PROVE  (OneOwner /\ CellTellsOwned)'
  <2>1. \A u \in Threads : Owns(u)' <=> Owns(u)
    BY <1>1 DEF MutexLock, MutexTryLock, Call, Owns, TypeOK
  <2>. QED  BY <1>1, <2>1 DEF MutexLock, MutexTryLock, Call, OneOwner,
                              CellTellsOwned, Owners
<1>2. ASSUME NEW t \in Threads, Swap(t)
      PROVE  (OneOwner /\ CellTellsOwned)'
  <2>1. ~Owns(t) /\ (Owns(t)' <=> lock = 0) /\ lock' = 1
    BY <1>2 DEF Swap, Owns, TypeOK
  <2>2. \A u \in Threads : u # t => (Owns(u)' <=> Owns(u))
    BY <1>2 DEF Swap, Owns, TypeOK
  <2>3. CASE lock = 0
    <3>1. \A u \in Threads : ~Owns(u)
      BY <2>3 DEF CellTellsOwned, Owners
    <3>2. \A u \in Threads : Owns(u)' <=> u = t
      BY <2>1, <2>2, <2>3, <3>1
    <3>. QED  BY <3>2, <2>1 DEF OneOwner, CellTellsOwned, Owners
  <2>4. CASE lock = 1
    <3>1. \A u \in Threads : Owns(u)' <=> Owns(u)
      BY <2>1, <2>2, <2>4
    <3>. QED  BY <3>1, <2>1, <2>4 DEF OneOwner, CellTellsOwned, Owners
  <2>. QED  BY <2>3, <2>4 DEF TypeOK
<1>3. ASSUME NEW t \in Threads, Acquired(t) \/ Refused(t)
      PROVE  (OneOwner /\ CellTellsOwned)'
  <2>1. \A u \in Threads : Owns(u)' <=> Owns(u)
    BY <1>3 DEF Acquired, Refused, Owns, TypeOK
  <2>. QED  BY <1>3, <2>1 DEF Acquired, Refused, OneOwner,
                              CellTellsOwned, Owners
<1>4. ASSUME NEW t \in Threads, MutexUnlock(t)
      PROVE  (OneOwner /\ CellTellsOwned)'
  <2>1. \A u \in Threads : Owns(u) <=> u = t
    BY <1>4 DEF MutexUnlock, Owns, OneOwner
  <2>2. \A u \in Threads : ~Owns(u)'
    BY <1>4, <2>1 DEF MutexUnlock, Owns, TypeOK
  <2>. QED  BY <1>4, <2>2 DEF MutexUnlock, OneOwner, CellTellsOwned, Owners
<1>5. CASE UNCHANGED vars
  BY <1>0, <1>5 DEF vars, OneOwner, CellTellsOwned, Owners, Owns
<1>. QED  BY <1>0, <1>1, <1>2, <1>3, <1>4, <1>5 DEF Next, Run

(***************************************************************************)
(* Two threads are never inside the same mutex.                            *)
(***************************************************************************)
THEOREM Exclusion == Spec => []MutualExclusion
<1>1. IInv => MutualExclusion
  BY DEF IInv, OneOwner, MutualExclusion, Owns
<1>. QED  BY InitIInv, NextIInv, <1>1, PTL DEF Spec

(***************************************************************************)
(* The cell is 1 exactly while a thread owns the mutex.                    *)
(***************************************************************************)
THEOREM CellIsOwnership == Spec => []CellTellsOwned
<1>1. IInv => CellTellsOwned
  BY DEF IInv
<1>. QED  BY InitIInv, NextIInv, <1>1, PTL DEF Spec

(***************************************************************************)
(* Each step of the mutex is a step of the abstract lock or changes no     *)
(* owner.                                                                  *)
(***************************************************************************)
LEMMA StepRefines == IInv /\ [Next]_vars => [A!AbsNext]_Owners
<1> SUFFICES ASSUME IInv, [Next]_vars PROVE [A!AbsNext]_Owners
  OBVIOUS
<1> USE DEF IInv
<1>1. ASSUME NEW t \in Threads, Swap(t)
      PROVE  [A!AbsNext]_Owners
  <2>1. \A u \in Threads : u # t => (Owns(u)' <=> Owns(u))
    BY <1>1 DEF Swap, Owns, TypeOK
  <2>2. ~Owns(t) /\ (Owns(t)' <=> lock = 0)
    BY <1>1 DEF Swap, Owns, TypeOK
  <2>3. CASE lock = 0
    <3>1. Owners = {}
      BY <2>3 DEF CellTellsOwned
    <3>2. Owners' = {t}
      BY <2>1, <2>2, <2>3, <3>1 DEF Owners
    <3>. QED  BY <3>1, <3>2 DEF A!AbsNext, A!AbsAcquire
  <2>4. CASE lock # 0
    <3>1. Owners' = Owners
      BY <2>1, <2>2, <2>4 DEF Owners
    <3>. QED  BY <3>1
  <2>. QED  BY <2>3, <2>4
<1>2. ASSUME NEW t \in Threads,
             MutexLock(t) \/ MutexTryLock(t) \/ Acquired(t) \/ Refused(t)
      PROVE  [A!AbsNext]_Owners
  <2>1. \A u \in Threads : Owns(u)' <=> Owns(u)
    BY <1>2 DEF MutexLock, MutexTryLock, Call, Acquired, Refused, Owns, TypeOK
  <2>2. Owners' = Owners
    BY <2>1 DEF Owners
  <2>. QED  BY <2>2
<1>3. ASSUME NEW t \in Threads, MutexUnlock(t)
      PROVE  [A!AbsNext]_Owners
  <2>1. \A u \in Threads : Owns(u) <=> u = t
    BY <1>3 DEF MutexUnlock, Owns, OneOwner
  <2>2. \A u \in Threads : ~Owns(u)'
    BY <1>3, <2>1 DEF MutexUnlock, Owns, TypeOK
  <2>3. Owners = {t} /\ Owners' = {}
    BY <2>1, <2>2 DEF Owners
  <2>. QED  BY <2>3 DEF A!AbsNext, A!AbsRelease
<1>4. CASE UNCHANGED vars
  BY <1>4 DEF vars, Owners, Owns
<1>. QED  BY <1>1, <1>2, <1>3, <1>4 DEF Next, Run

(***************************************************************************)
(* The mutex implements the abstract lock.                                 *)
(***************************************************************************)
THEOREM MutexImplementsLock == Spec => ImplementsLock
<1>1. Init => A!AbsInit
  BY DEF Init, A!AbsInit, Owners, Owns
<1>. QED  BY <1>1, InitIInv, NextIInv, StepRefines, PTL
          DEF Spec, ImplementsLock, A!AbsSpec
=============================================================================
