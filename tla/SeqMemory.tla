----------------------------- MODULE SeqMemory ------------------------------
(***************************************************************************)
(* A sequentially consistent memory of atomics: every operation takes      *)
(* effect on its cell at once, and each thread's operations do so in the   *)
(* order in which the thread called them.                                  *)
(***************************************************************************)
EXTENDS Sequences

CONSTANTS
    Threads, Cells, Initial,
    Calls,          \* what a thread may ask for
    Effect(_, _),   \* Effect(call, v): what the cell that held v becomes
    Result(_, _)    \* Result(call, v): what the call returns then

VARIABLES mem, done

SeqInit ==
    /\ mem = [c \in Cells |-> Initial]
    /\ done = [t \in Threads |-> <<>>]

Perform(t, call) ==
    LET v == mem[call.cell] IN
    /\ mem' = [mem EXCEPT ![call.cell] = Effect(call, v)]
    /\ done' = [done EXCEPT ![t] =
                   Append(@, [call |-> call, result |-> Result(call, v)])]

SeqNext == \E t \in Threads, call \in Calls : Perform(t, call)

SeqSpec == SeqInit /\ [][SeqNext]_<<mem, done>>
=============================================================================
