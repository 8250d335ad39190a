------------------------------ MODULE Atomics -------------------------------
(***************************************************************************)
(* The atomics of ministd_atomic.c on the memory of x86-64.  A mov to      *)
(* memory goes through the store buffer of its thread and is seen by the   *)
(* others later; mfence and every locked instruction wait until the buffer *)
(* is empty.  With MO_STRICT each operation has an mfence before its       *)
(* instruction, and none after it.  fetch_or, xor, and, min and max load   *)
(* the cell and repeat a compare-exchange until the cell is unchanged.     *)
(***************************************************************************)
EXTENDS Integers, Sequences

CONSTANTS
    Threads, Cells, Values,
    Initial,            \* what atomic_new_* put into every cell
    Calls,              \* the calls that threads make
    Combine(_, _, _),   \* Combine(op, v, arg): what a fetch operation computes
    MaxCalls            \* bound on the calls of each thread

Movs == {"load", "store"}
Instructions == {"swap", "add", "sub", "cas"}   \* xchg, lock xadd, lock cmpxchg
Loops == {"or", "xor", "and", "min", "max"}
Orders == {"relaxed", "strict"}

\* expected is for compare_exchange; arg is its new value.
AllCalls == [op : Movs \cup Instructions \cup Loops, cell : Cells,
             arg : Values, expected : Values, order : Orders]

ASSUME CallsAssumption ==
    Calls \subseteq AllCalls /\ Calls # {} /\ Initial \in Values
ASSUME CombineAssumption ==
    \A op \in {"add", "sub"} \cup Loops, v, a \in Values : Combine(op, v, a) \in Values
ASSUME MaxCallsAssumption == MaxCalls \in Nat

VARIABLES
    mem,        \* what all threads see
    buf,        \* each thread's stores that are not in mem yet, oldest first
    pc,         \* "idle", or before the "mfence", the "instr" or the "cmpxchg"
    call,       \* each thread's call in progress, or its last
    old,        \* the local variable of the fetch loops
    done        \* each thread's calls that returned, with their results

vars == <<mem, buf, pc, call, old, done>>

Init ==
    /\ mem = [c \in Cells |-> Initial]
    /\ buf = [t \in Threads |-> <<>>]
    /\ pc = [t \in Threads |-> "idle"]
    /\ call = [t \in Threads |-> CHOOSE c \in Calls : TRUE]
    /\ old = [t \in Threads |-> Initial]
    /\ done = [t \in Threads |-> <<>>]

-----------------------------------------------------------------------------
\* What a call does to a cell that holds v, and what it returns: the value it
\* found.  (compare_exchange returns whether that was the expected one, and
\* puts it into *old if not.  A store returns nothing; its argument stands in.)
Effect_Unbounded(c, v) ==     \* mutant: fetch_add does not wrap around
    CASE c.op = "load" -> v
      [] c.op \in {"store", "swap"} -> c.arg
      [] c.op = "cas" -> IF v = c.expected THEN c.arg ELSE v
      [] c.op = "add" -> v + c.arg
      [] OTHER -> Combine(c.op, v, c.arg)

Effect(c, v) ==
    CASE c.op = "load" -> v
      [] c.op = "store" -> c.arg
      [] c.op = "swap" -> c.arg
      [] c.op = "cas" -> IF v = c.expected THEN c.arg ELSE v
      [] OTHER -> Combine(c.op, v, c.arg)

Result(c, v) == IF c.op = "store" THEN c.arg ELSE v

Return(t, v) ==
    /\ pc' = [pc EXCEPT ![t] = "idle"]
    /\ done' = [done EXCEPT ![t] = Append(@, [call |-> call[t], result |-> v])]

Call(t, c) ==
    /\ pc[t] = "idle"
    /\ Len(done[t]) < MaxCalls
    /\ call' = [call EXCEPT ![t] = c]
    /\ pc' = [pc EXCEPT ![t] = IF c.order = "strict" THEN "mfence" ELSE "instr"]
    /\ UNCHANGED <<mem, buf, old, done>>

\* Nothing of the thread's is under way.
Flushed(t) == buf[t] = <<>>

Fence_Weak(t) ==            \* mutant: a fence that waits for nothing
    /\ pc[t] = "mfence"
    /\ pc' = [pc EXCEPT ![t] = "instr"]
    /\ UNCHANGED <<mem, buf, call, old, done>>

Fence(t) ==
    /\ pc[t] = "mfence"
    /\ Flushed(t)
    /\ pc' = [pc EXCEPT ![t] = "instr"]
    /\ UNCHANGED <<mem, buf, call, old, done>>

\* Thread t reads v in cell c: its own latest store there, if one is under way.
Reads(t, c, v) ==
    LET own == {i \in 1 .. Len(buf[t]) : buf[t][i].cell = c}
    IN  \/ own = {} /\ v = mem[c]
        \/ \E i \in own : (\A j \in own : j <= i) /\ v = buf[t][i].val

At(t, ops) == pc[t] = "instr" /\ call[t].op \in ops

AtomicLoad(t) ==
    /\ At(t, {"load"})
    /\ \E v \in Values : Reads(t, call[t].cell, v) /\ Return(t, v)
    /\ UNCHANGED <<mem, buf, call, old>>

AtomicStore(t) ==
    /\ At(t, {"store"})
    /\ buf' = [buf EXCEPT ![t] =
                  Append(@, [cell |-> call[t].cell, val |-> call[t].arg])]
    /\ Return(t, call[t].arg)
    /\ UNCHANGED <<mem, call, old>>

\* swap, fetch_add, fetch_sub and compare_exchange: one locked instruction.
Locked(t) ==
    /\ At(t, Instructions)
    /\ Flushed(t)
    /\ LET c == call[t] IN
          /\ mem' = [mem EXCEPT ![c.cell] = Effect(c, @)]
          /\ Return(t, Result(c, mem[c.cell]))
    /\ UNCHANGED <<buf, call, old>>

\* The fetch loops: old = atomic_load(this) ...
LoopLoad(t) ==
    /\ At(t, Loops)
    /\ \E v \in Values :
          /\ Reads(t, call[t].cell, v)
          /\ old' = [old EXCEPT ![t] = v]
    /\ pc' = [pc EXCEPT ![t] = "cmpxchg"]
    /\ UNCHANGED <<mem, buf, call, done>>

\* ... then compare_exchange(this, &old, OP(old, val)), which succeeds ...
Exchange_Unchecked(t) ==    \* mutant: a store in the place of the exchange
    /\ pc[t] = "cmpxchg"
    /\ Flushed(t)
    /\ mem' = [mem EXCEPT ![call[t].cell] = Combine(call[t].op, old[t], call[t].arg)]
    /\ Return(t, old[t])
    /\ UNCHANGED <<buf, call, old>>

Exchange(t) ==
    /\ pc[t] = "cmpxchg"
    /\ Flushed(t)
    /\ mem[call[t].cell] = old[t]
    /\ mem' = [mem EXCEPT ![call[t].cell] = Combine(call[t].op, old[t], call[t].arg)]
    /\ Return(t, old[t])
    /\ UNCHANGED <<buf, call, old>>

\* ... or fails, and leaves in old what it found.
Refused_Forgets(t) ==       \* mutant: old is passed by value
    /\ pc[t] = "cmpxchg"
    /\ Flushed(t)
    /\ mem[call[t].cell] # old[t]
    /\ UNCHANGED vars

Refused(t) ==
    /\ pc[t] = "cmpxchg"
    /\ Flushed(t)
    /\ mem[call[t].cell] # old[t]
    /\ old' = [old EXCEPT ![t] = mem[call[t].cell]]
    /\ UNCHANGED <<mem, buf, pc, call, done>>

\* The processor carries out the oldest store that is under way.
Drain_Newest(t) ==          \* mutant: the buffer is a stack
    /\ ~Flushed(t)
    /\ LET s == buf[t][Len(buf[t])] IN mem' = [mem EXCEPT ![s.cell] = s.val]
    /\ buf' = [buf EXCEPT ![t] = SubSeq(@, 1, Len(@) - 1)]
    /\ UNCHANGED <<pc, call, old, done>>

Drain(t) ==
    /\ ~Flushed(t)
    /\ LET s == Head(buf[t]) IN mem' = [mem EXCEPT ![s.cell] = s.val]
    /\ buf' = [buf EXCEPT ![t] = Tail(@)]
    /\ UNCHANGED <<pc, call, old, done>>

Run(t) ==
    \/ Fence(t) \/ AtomicLoad(t) \/ AtomicStore(t) \/ Locked(t)
    \/ LoopLoad(t) \/ Exchange(t) \/ Refused(t)

Next ==
    \E t \in Threads : Run(t) \/ Drain(t) \/ \E c \in Calls : Call(t, c)

Spec == Init /\ [][Next]_vars

\* The kernel schedules every thread inside a call, and stores under way arrive.
Fairness == \A t \in Threads : WF_vars(Run(t)) /\ WF_vars(Drain(t))

FairSpec == Spec /\ Fairness

-----------------------------------------------------------------------------
PCs == {"idle", "mfence", "instr", "cmpxchg"}

TypeOK ==
    /\ mem \in [Cells -> Values]
    /\ buf \in [Threads -> Seq([cell : Cells, val : Values])]
    /\ pc \in [Threads -> PCs]
    /\ call \in [Threads -> Calls]
    /\ old \in [Threads -> Values]
    /\ done \in [Threads -> Seq([call : Calls, result : Values])]

Pending(t, i) == done[t][Len(done[t]) - Len(buf[t]) + i]

LastOnesPend(t) ==
    /\ Len(buf[t]) <= Len(done[t])
    /\ \A i \in 1 .. Len(buf[t]) :
          LET p == Pending(t, i) IN
          /\ p.call.op = "store"
          /\ p.call.cell = buf[t][i].cell
          /\ p.call.arg = buf[t][i].val
          /\ p.result = p.call.arg

(***************************************************************************)
(* The stores a thread has under way are those of its last calls, in the   *)
(* order of the calls: nothing it called after them has returned.  That    *)
(* takes every atomic_load to be MO_STRICT.                                *)
(***************************************************************************)
PendingAreLast == \A t \in Threads : LastOnesPend(t)

LoadsAreStrict == \A c \in Calls : c.op = "load" => c.order = "strict"

\* A thread past the fence of a load has no store under way.
LoadsAreFenced ==
    \A t \in Threads : At(t, {"load"}) => Flushed(t)

\* Only the fetch loops come to a compare-exchange of their own.
InLoop == \A t \in Threads : pc[t] = "cmpxchg" => call[t].op \in Loops

IInv == TypeOK /\ InLoop /\ PendingAreLast /\ LoadsAreFenced

\* A store counts when it reaches memory, whenever its call returned.
Arrived == [t \in Threads |-> SubSeq(done[t], 1, Len(done[t]) - Len(buf[t]))]

SC == INSTANCE SeqMemory WITH done <- Arrived

(***************************************************************************)
(* With every atomic_load MO_STRICT, whatever the order of the stores and  *)
(* of the fetch operations is, the atomics are a sequentially consistent   *)
(* memory, on which a fetch loop, for all its retries, is one operation    *)
(* that returns the value it replaced.                                     *)
(***************************************************************************)
ImplementsSeqMemory == SC!SeqSpec

(***************************************************************************)
(* Every call returns when threads make finitely many: a compare-exchange  *)
(* of a fetch loop fails only if another thread's operation got through.   *)
(***************************************************************************)
CallsReturn == \A t \in Threads : pc[t] # "idle" ~> pc[t] = "idle"

\* A MO_STRICT store of t to x, and a later load of y that found Initial.
StoredThenMissed(t, x, y) ==
    \E i, j \in 1 .. Len(done[t]) :
        LET s == done[t][i].call
            l == done[t][j].call
        IN  /\ i < j
            /\ s.op = "store" /\ s.order = "strict" /\ s.cell = x /\ s.arg # Initial
            /\ l.op = "load" /\ l.cell = y /\ done[t][j].result = Initial

(***************************************************************************)
(* features.md: "MO_STRICT prevents all memory reorderings across the      *)
(* operation".  Then of two threads that each store to a cell of their own *)
(* with MO_STRICT and load the other's later, one finds the other's value. *)
(***************************************************************************)
StrictPreventsReordering ==
    \A t, u \in Threads, x, y \in Cells :
        t # u /\ x # y => ~(StoredThenMissed(t, x, y) /\ StoredThenMissed(u, y, x))
=============================================================================
