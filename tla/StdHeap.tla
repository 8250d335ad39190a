------------------------------ MODULE StdHeap -------------------------------
(***************************************************************************)
(* The std allocator (ministd_memory.c), which maps one block per          *)
(* allocation.  A heap is a function from addresses to the contents of the *)
(* blocks mapped there, as long as the size in the block's header; an      *)
(* unmapped address has <<>>.  A call is the set of its outcomes: the heap *)
(* after it, the pointer it returns and its error.                         *)
(***************************************************************************)
EXTENDS Integers, Sequences

CONSTANT Addrs          \* where a block can be mapped

ASSUME AddrsAssumption == Addrs \subseteq Nat \ {0}

Null == 0
OK == "ERR_OK"
ERR_NOMEM == "ERR_NOMEM"

\* The kernel gives pages that are zero.
Zeros(n) == [i \in 1 .. n |-> 0]

Outcome(h, a, e) == [heap |-> h, at |-> a, err |-> e]

\* Nothing is asked for and NULL given, or mmap maps a new block or fails.
Alloc(h, n) ==
    IF n = 0 THEN {Outcome(h, Null, OK)}
    ELSE {Outcome(h, Null, ERR_NOMEM)} \cup
         {Outcome([h EXCEPT ![a] = Zeros(n)], a, OK) : a \in {b \in Addrs : h[b] = <<>>}}

Freed(h, a) == IF a = Null THEN h ELSE [h EXCEPT ![a] = <<>>]

\* The block moves when its header says it is too small.  The old block is
\* freed also when there is no new one.
Moved_Keeps(h, a, n) ==         \* mutant: the old block stays mapped
    {IF r.err = OK THEN [r EXCEPT !.heap[r.at] = h[a] \o Zeros(n - Len(h[a]))] ELSE r : r \in Alloc(h, n)}

Moved_Forgets(h, a, n) ==       \* mutant: the contents are not copied
    {[r EXCEPT !.heap = Freed(@, a)] : r \in Alloc(h, n)}

Moved(h, a, n) ==
    {[r EXCEPT !.heap = Freed(IF r.err = OK THEN [@ EXCEPT ![r.at] = h[a] \o Zeros(n - Len(h[a]))]
                                            ELSE @, a)] : r \in Alloc(h, n)}

Realloc(h, a, n) ==
    IF a = Null THEN Alloc(h, n)
    ELSE IF n = 0 THEN {Outcome(Freed(h, a), Null, OK)}
    ELSE IF Len(h[a]) >= n THEN {Outcome(h, a, OK)}
    ELSE Moved(h, a, n)
=============================================================================
