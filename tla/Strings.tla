------------------------------ MODULE Strings ------------------------------
(***************************************************************************)
(* A String (ministd_string.c): a buffer from the std allocator, a length  *)
(* and a capacity, grown by allocations that may fail.  One thread uses    *)
(* one string, and copies of it.  A client goes on with a string whose     *)
(* growth has failed, as the interface lets it.  The first access outside  *)
(* of mapped blocks ends the behaviour, and so does a loop without end.    *)
(* A call that only reports an error changes nothing and is not a step.    *)
(***************************************************************************)
EXTENDS StdHeap

CONSTANTS
    Chars,      \* what strings are made of; a NUL is 0
    Texts,      \* what clients create strings from and append
    DefaultCap, \* DEFAULT_STRING_SIZE
    MaxCap,     \* bound: capacities
    MaxObjects, \* bound: objects at once, a copy being one
    None        \* no object

Bytes == Chars \cup {0}

ASSUME TextsAssumption == Chars \subseteq Nat \ {0} /\ Texts \subseteq Seq(Bytes)
ASSUME CapsAssumption == DefaultCap \in Nat /\ MaxCap \in Nat
ASSUME NoneAssumption == None \notin [buf : Nat, len : Nat, cap : Nat] /\ None \notin Nat

VARIABLES
    heap,       \* the blocks that hold bytes
    str,        \* the String, or None
    copy,       \* the block of the string or cstring made from it last, or None
    objects,    \* how many String, view and file objects are allocated
    lost,       \* history: a failed growth freed the string's buffer
    fate        \* "runs", "strays" out of mapped memory, or "hangs"

svars == <<heap, str, copy, objects, lost, fate>>

Init ==
    /\ heap = [a \in Addrs |-> <<>>]
    /\ str = None /\ copy = None
    /\ objects = 0
    /\ lost = FALSE
    /\ fate = "runs"

Shorter(m, n) == IF m < n THEN m ELSE n

\* The n bytes from offset off of the block at a; at none, none are touched.
Mapped(h, a, off, n) == n = 0 \/ (a # Null /\ off + n <= Len(h[a]))
At(h, a, off, n) == IF n = 0 THEN <<>> ELSE SubSeq(h[a], off + 1, off + n)
Put(h, a, off, d) ==
    IF d = <<>> THEN h
    ELSE [h EXCEPT ![a] = [i \in DOMAIN @ |-> IF i \in off + 1 .. off + Len(d) THEN d[i - off] ELSE @[i]]]

Stray == fate' = "strays" /\ UNCHANGED <<heap, str, copy, objects, lost>>

-----------------------------------------------------------------------------
\* The object, then its buffer; without a buffer the object is freed again.
New(cap, d) ==
    \E r \in Alloc(heap, cap) :
       /\ r.err = OK
       /\ heap' = Put(r.heap, r.at, 0, d)
       /\ str' = [buf |-> r.at, len |-> Len(d), cap |-> cap]
       /\ objects' = objects + 1

SNew ==
    /\ str = None
    /\ \/ \E cap \in 0 .. DefaultCap : New(cap, <<>>)
       \/ \E d \in Texts : New(Len(d), d)
    /\ lost' = FALSE
    /\ UNCHANGED <<copy, fate>>

SFree ==
    /\ str # None
    /\ heap' = Freed(heap, str.buf)
    /\ str' = None /\ objects' = objects - 1
    /\ UNCHANGED <<copy, lost, fate>>

-----------------------------------------------------------------------------
(***************************************************************************)
(* s_reserve to cap: the outcomes of realloc.  On failure the string has   *)
(* the NULL that realloc returned, and its old length and capacity.        *)
(***************************************************************************)
Resized_KeepsLen(r, cap) == IF r.err # OK THEN [str EXCEPT !.buf = r.at] ELSE [str EXCEPT !.buf = r.at, !.cap = cap]    \* mutant

Resized_NullReturns(r, cap) ==  \* mutant: returns when realloc gave NULL
    IF r.at = Null THEN [str EXCEPT !.buf = Null] ELSE [buf |-> r.at, cap |-> cap, len |-> Shorter(str.len, cap)]

Resized(r, cap) ==
    IF r.err # OK THEN [str EXCEPT !.buf = r.at]
    ELSE [buf |-> r.at, cap |-> cap, len |-> Shorter(str.len, cap)]

Reserved(cap) ==
    IF cap = str.cap THEN {[heap |-> heap, str |-> str, err |-> OK]}
    ELSE {[heap |-> r.heap, str |-> Resized(r, cap), err |-> r.err] : r \in Realloc(heap, str.buf, cap)}

Take(r) ==
    /\ heap' = r.heap /\ str' = r.str
    /\ lost' = (lost \/ r.err # OK)
    /\ UNCHANGED <<copy, objects, fate>>

\* s_reserve, s_grow
SReserve == str # None /\ \E cap \in 0 .. MaxCap : \E r \in Reserved(cap) : Take(r)

SShrink ==
    /\ str # None
    /\ \E k \in 1 .. str.len : str' = [str EXCEPT !.len = @ - k]
    /\ UNCHANGED <<heap, copy, objects, lost, fate>>

\* s_clear does not touch the buffer.
SClear == str # None /\ Take([heap |-> heap, str |-> [str EXCEPT !.len = 0], err |-> OK])

SSet(i, c) ==
    /\ str # None
    /\ i < str.len
    /\ IF ~Mapped(heap, str.buf, i, 1) THEN Stray
       ELSE Take([heap |-> Put(heap, str.buf, i, <<c>>), str |-> str, err |-> OK])

\* d goes behind the text of a string that has been grown to r.
Stored(r, d) ==
    IF r.err # OK THEN Take(r)
    ELSE IF ~Mapped(r.heap, r.str.buf, r.str.len, Len(d)) THEN Stray
    ELSE Take([r EXCEPT !.heap = Put(@, r.str.buf, r.str.len, d), !.str.len = @ + Len(d)])

\* s_push doubles a full string by its length.
Pushed_Late(c) ==               \* mutant: grows only when the length is past the capacity
    \E r \in Reserved(str.cap + (IF str.len > str.cap THEN str.len ELSE 0)) : Stored(r, <<c>>)

Pushed(c) == \E r \in Reserved(str.cap + (IF str.len = str.cap THEN str.len ELSE 0)) : Stored(r, <<c>>)

SPush(c) ==
    /\ str # None
    /\ str.len = str.cap => str.cap + str.len <= MaxCap
    /\ Pushed(c)

(***************************************************************************)
(* s_append grows by the capacity, doubled until n bytes fit.  A capacity  *)
(* of 0 stays 0 however often it is doubled.                               *)
(***************************************************************************)
Over(n) == IF n > str.cap - str.len THEN n - (str.cap - str.len) ELSE 0

GrowBy(n) ==
    IF Over(n) = 0 THEN 0
    ELSE CHOOSE g \in {str.cap * 2^k : k \in 0 .. Over(n)} : g >= Over(n) /\ (g = str.cap \/ g < 2 * Over(n))

Hang == fate' = "hangs" /\ UNCHANGED <<heap, str, copy, objects, lost>>

SAppend(d) ==
    /\ str # None
    /\ IF Over(Len(d)) > 0 /\ str.cap = 0 THEN Hang
       ELSE /\ str.cap + GrowBy(Len(d)) <= MaxCap
            /\ \E r \in Reserved(str.cap + GrowBy(Len(d))) : Stored(r, d)

\* s_sappend of a string to itself reads from the buffer it had before it grew.
SAppendSelf ==
    /\ str # None
    /\ str.cap + GrowBy(str.len) <= MaxCap
    /\ \E r \in Reserved(str.cap + GrowBy(str.len)) :
          IF r.err = OK /\ ~Mapped(r.heap, str.buf, 0, str.len) THEN Stray
          ELSE Stored(r, IF r.err = OK THEN At(r.heap, str.buf, 0, str.len) ELSE <<>>)

-----------------------------------------------------------------------------
(***************************************************************************)
(* A new string or cstring of n bytes at off of block a, with z more bytes *)
(* for a terminator; o objects come with it or go.                         *)
(***************************************************************************)
Duplicate(a, off, n, z, o) ==
    /\ copy = None /\ objects < MaxObjects
    /\ \E r \in Alloc(heap, n + z) :
          IF r.err # OK THEN UNCHANGED <<heap, copy, fate>>
          ELSE IF ~Mapped(heap, a, off, n) THEN fate' = "strays" /\ UNCHANGED <<heap, copy>>
          ELSE /\ heap' = Put(r.heap, r.at, 0, At(heap, a, off, n))
               /\ copy' = r.at /\ UNCHANGED fate
    /\ objects' = objects + o
    /\ UNCHANGED <<str, lost>>

\* s_cstr, and s_copy, whose object is not counted: it goes with copy.
SCopy == str # None /\ \E z \in {0, 1} : Duplicate(str.buf, 0, str.len, z, 0)

\* s_to_cstr: on failure the string is still there.
SToCstr ==
    /\ str # None /\ copy = None
    /\ str.len = str.cap => str.cap + str.len <= MaxCap
    /\ \E r \in Reserved(str.cap + (IF str.len = str.cap THEN str.len ELSE 0)) :
          IF r.err # OK \/ ~Mapped(r.heap, r.str.buf, r.str.len, 1) THEN Stored(r, <<0>>)
          ELSE /\ heap' = Put(r.heap, r.str.buf, r.str.len, <<0>>)
               /\ copy' = r.str.buf
               /\ str' = None /\ objects' = objects - 1
               /\ UNCHANGED <<lost, fate>>

DropCopy ==
    /\ copy # None
    /\ heap' = Freed(heap, copy)
    /\ copy' = None
    /\ UNCHANGED <<str, objects, lost, fate>>

StringCall ==
    \/ SNew \/ SFree
    \/ SReserve \/ SShrink \/ SClear
    \/ \E i \in 0 .. MaxCap, c \in Chars : SSet(i, c)
    \/ \E c \in Chars : SPush(c)
    \/ \E d \in Texts : SAppend(d)
    \/ SAppendSelf
    \/ SCopy \/ SToCstr \/ DropCopy
=============================================================================
