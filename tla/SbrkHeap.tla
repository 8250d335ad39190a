------------------------------ MODULE SbrkHeap ------------------------------
(***************************************************************************)
(* The sbrk allocator and the wrappers that multiply (ministd_memory.c).   *)
(* Blocks lie between Base and the program break, a header before each,    *)
(* and are kept in a list in the order they were made: sbrk_head is its    *)
(* first block and sbrk_tail its last.  Sizes and addresses have W bits.   *)
(* brk refuses a break past Limit, and answers with the one there is.      *)
(***************************************************************************)
EXTENDS Integers, Sequences, FiniteSets

CONSTANTS
    W,          \* the width of usz
    Header,     \* sizeof(sbrk_header_t)
    Base, Limit,
    Sizes,      \* what clients ask for: size bytes ...
    Counts      \* ... n times

Word == 0 .. 2^W - 1
Wrap(k) == k % 2^W

ASSUME WidthAssumption == W \in Nat \ {0} /\ Base \in Word /\ Limit \in Base .. 2^W - 1
ASSUME SizesAssumption == Header \in Word \ {0} /\ Sizes \subseteq Word /\ Counts \subseteq Word

VARIABLES
    brk,        \* the program break
    list,       \* the blocks: where the buffer is, header.size and is_free
    held,       \* the buffers clients have, and how many bytes they need there
    forgotten,  \* history: buffers clients gave back and the allocator kept
    lost,       \* history: blocks that were unlinked, below the break
    astray      \* history: a block was had, though brk refused or the header wrapped

vars == <<brk, list, held, forgotten, lost, astray>>

Init ==
    /\ brk = Base /\ list = <<>>
    /\ held = {} /\ forgotten = {} /\ lost = {}
    /\ astray = FALSE

Null == 0

\* sbrk: the break after it, the address returned (or Null, an error), and
\* whether brk has moved the break as told.
Sbrk(k) ==
    LET target == Wrap(brk + k) IN
    IF k = 0 THEN [brk |-> brk, at |-> brk, done |-> TRUE]
    ELSE IF target < brk THEN [brk |-> brk, at |-> Null, done |-> FALSE]
    ELSE IF target <= Limit THEN [brk |-> target, at |-> Wrap(target - k), done |-> TRUE]
    ELSE [brk |-> brk, at |-> Wrap(brk - k), done |-> FALSE]

\* sbrk_get_free_block: the first that is large enough.
Fitting(bytes) == {i \in DOMAIN list : list[i].free /\ list[i].size >= bytes}

First(S) == CHOOSE i \in S : \A j \in S : i <= j

(***************************************************************************)
(* sbrk_alloc of bytes, not 0, which a client needs for need bytes: blocks *)
(* and break after it, and the buffer or Null.                             *)
(***************************************************************************)
Reused(l, i) == [l EXCEPT ![i].free = FALSE]

Appended(bytes, at) == Append(list, [at |-> at + Header, size |-> bytes, free |-> FALSE])

SbrkAlloc(bytes) ==
    LET total == Wrap(Header + bytes)
        r == Sbrk(total) IN
    IF Fitting(bytes) # {}
    THEN [list |-> Reused(list, First(Fitting(bytes))), brk |-> brk,
          at |-> list[First(Fitting(bytes))].at, astray |-> FALSE]
    ELSE IF r.at = Null THEN [list |-> list, brk |-> brk, at |-> Null, astray |-> FALSE]
    ELSE [list |-> Appended(bytes, r.at), brk |-> r.brk, at |-> Wrap(r.at + Header),
          astray |-> ~r.done \/ total # Header + bytes]

(***************************************************************************)
(* sbrk_free: a block that ends at the break is unlinked and its memory    *)
(* given back, by a negative increment, which sbrk takes for an overflow.  *)
(* The rest are marked free.                                               *)
(***************************************************************************)
Block(l, at) == CHOOSE i \in DOMAIN l : l[i].at = at

Unlinked(l) == SubSeq(l, 1, Len(l) - 1)

SbrkFree_Keeps(l, b, at) ==     \* mutant: the last block stays linked, and free
    [list |-> [l EXCEPT ![Block(l, at)].free = TRUE],
     brk |-> IF at + l[Block(l, at)].size = b THEN at - Header ELSE b, lost |-> {}]

SbrkFree(l, b, at) ==
    LET block == l[Block(l, at)]
        back == Wrap(0 - Header - block.size) IN
    IF at + block.size = b
    THEN [list |-> Unlinked(l), brk |-> IF Wrap(b + back) < b THEN b ELSE Wrap(b + back),
          lost |-> {<<at, block.size>>}]
    ELSE [list |-> [l EXCEPT ![Block(l, at)].free = TRUE], brk |-> b, lost |-> {}]

\* a_nalloc, a_nrealloc: the product is not 0, and dividing it again gives the size.
Fits_Once(size, n) == size # 0 /\ n # 0 /\ Wrap(size * n) >= size     \* mutant: only compares

Fits(size, n) == size # 0 /\ n # 0 /\ Wrap(size * n) \div n = size

-----------------------------------------------------------------------------
NAlloc(size, n) ==
    /\ Fits(size, n)
    /\ LET r == SbrkAlloc(Wrap(size * n)) IN
          /\ list' = r.list /\ brk' = r.brk /\ astray' = r.astray
          /\ held' = IF r.at = Null THEN held ELSE held \cup {<<r.at, size * n>>}
    /\ UNCHANGED <<forgotten, lost>>

SFree(h) ==
    /\ LET r == SbrkFree(list, brk, h[1]) IN list' = r.list /\ brk' = r.brk /\ lost' = lost \cup r.lost
    /\ held' = held \ {h}
    /\ UNCHANGED <<forgotten, astray>>

\* To nothing, or to too much: the buffer is given to the std allocator, whose
\* munmap does nothing when the address is not that of a page (assumed here).
NReallocGivesUp(h, size, n) ==
    /\ ~Fits(size, n)
    /\ held' = held \ {h} /\ forgotten' = forgotten \cup {h[1]}
    /\ UNCHANGED <<brk, list, lost, astray>>

\* a_realloc to 0 bytes comes to sbrk_alloc(0), and the buffer is not freed.
ReallocToNothing(h) ==
    /\ held' = held \ {h} /\ forgotten' = forgotten \cup {h[1]}
    /\ UNCHANGED <<brk, list, lost, astray>>

\* A larger block is had first, and the old one freed after the copy.
NRealloc(h, size, n) ==
    /\ Fits(size, n)
    /\ LET bytes == Wrap(size * n)
           r == SbrkAlloc(bytes)
           f == SbrkFree(r.list, r.brk, h[1]) IN
       IF list[Block(list, h[1])].size >= bytes
       THEN held' = (held \ {h}) \cup {<<h[1], size * n>>} /\ UNCHANGED <<brk, list, lost, astray>>
       ELSE IF r.at = Null THEN UNCHANGED <<brk, list, held, lost, astray>>
       ELSE IF r.astray THEN astray' = TRUE /\ UNCHANGED <<brk, list, held, lost>>
       ELSE /\ list' = f.list /\ brk' = f.brk /\ lost' = lost \cup f.lost
            /\ held' = (held \ {h}) \cup {<<r.at, size * n>>}
            /\ UNCHANGED astray
    /\ UNCHANGED forgotten

Next ==
    \/ /\ ~astray
       /\ \/ \E size \in Sizes, n \in Counts : NAlloc(size, n)
          \/ \E h \in held :
                \/ SFree(h) \/ ReallocToNothing(h)
                \/ \E size \in Sizes, n \in Counts : NReallocGivesUp(h, size, n) \/ NRealloc(h, size, n)
    \/ astray /\ UNCHANGED vars

Spec == Init /\ [][Next]_vars

-----------------------------------------------------------------------------
Extent(at, size) == at - Header .. at + size - 1

(***************************************************************************)
(* Every buffer a client has is as large as it needs, in exact arithmetic, *)
(* below the break, and shares no byte with another's or with any header,  *)
(* unless brk has refused a break or the header's size has wrapped the     *)
(* request round, neither of which the allocator sees.                     *)
(***************************************************************************)
BuffersDisjoint ==
    ~astray =>
      /\ \A h \in held : \E i \in DOMAIN list : list[i].at = h[1] /\ ~list[i].free /\ h[2] <= list[i].size
      /\ \A i \in DOMAIN list : Extent(list[i].at, list[i].size) \subseteq Base .. brk - 1
      /\ \A i, j \in DOMAIN list : i # j => Extent(list[i].at, list[i].size) \cap Extent(list[j].at, list[j].size) = {}
      /\ \A g, h \in held : g[1] = h[1] => g = h

(***************************************************************************)
(* All memory below the break is in a block, and each block is held, free  *)
(* for reuse, or one that a realloc to nothing or too much has forgotten   *)
(* or a free of the last block has lost: nothing else leaks.               *)
(***************************************************************************)
NothingElseLeaks ==
    ~astray =>
      /\ (UNION {Extent(list[i].at, list[i].size) : i \in DOMAIN list}) \cup (UNION {Extent(b[1], b[2]) : b \in lost})
           = Base .. brk - 1
      /\ \A i \in DOMAIN list : ~list[i].free => list[i].at \in forgotten \cup {h[1] : h \in held}
      /\ \A b \in lost : \A i \in DOMAIN list : b[1] # list[i].at
=============================================================================
