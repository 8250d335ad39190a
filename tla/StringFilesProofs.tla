------------------------- MODULE StringFilesProofs -------------------------
(***************************************************************************)
(* What a String promises, with views, files and copies beside it, for     *)
(* every set of addresses, characters and texts and every capacity.  The   *)
(* heap's part comes first: what an allocation and a move leave of the     *)
(* other blocks and of the contents.  Then growing, which is where each    *)
(* call that writes gets its room from, and then the calls.                *)
(***************************************************************************)
EXTENDS StringFiles, SequenceTheorems, TLAPS, FiniteSets, FunctionTheorems, FiniteSetTheorems, WellFoundedInduction

Mem == [Addrs -> Seq(Bytes)]
Ptr == Addrs \cup {Null}

\* A call of the allocator that may have moved the block at a to r.at: the
\* other blocks are as they were, and there is no block more.
Beside(r, h, a) ==
    /\ r.heap \in Mem /\ r.at \in Ptr
    /\ \A b \in Addrs : r.heap[b] # <<>> <=> (b = r.at \/ (b # a /\ h[b] # <<>>))
    /\ \A b \in Addrs : b # a /\ h[b] # <<>> => b # r.at /\ r.heap[b] = h[b]

\* It has room for n bytes unless it has failed.
Roomy(r, n) == IF r.err # OK \/ n = 0 THEN r.at = Null ELSE r.at \in Addrs /\ n <= Len(r.heap[r.at])

\* And it begins as the one at a did.
Carries(r, h, a) ==
    a # Null /\ r.at # Null => /\ Len(h[a]) <= Len(r.heap[r.at])
                               /\ \A i \in 1 .. Len(h[a]) : r.heap[r.at][i] = h[a][i]

-----------------------------------------------------------------------------
(***************************************************************************)
(* New pages are a sequence of bytes.                                      *)
(***************************************************************************)
LEMMA ZerosFacts ==
  ASSUME NEW n \in Nat
  PROVE  Zeros(n) \in Seq(Bytes) /\ Len(Zeros(n)) = n /\ (n # 0 => Zeros(n) # <<>>)
<1>1. Zeros(n) \in [1 .. n -> Bytes]
  BY DEF Zeros, Bytes
<1>2. Zeros(n) \in Seq(Bytes)
  BY <1>1, SeqDef
<1>3. DOMAIN Zeros(n) = 1 .. n
  BY DEF Zeros
<1>4. Len(Zeros(n)) = n
  BY <1>2, <1>3, LenProperties
<1>. QED  BY <1>2, <1>4, EmptySeq

(***************************************************************************)
(* alloc maps a block where there was none, or nothing.                    *)
(***************************************************************************)
LEMMA AllocFacts ==
  ASSUME NEW h \in Mem, NEW n \in Nat, NEW r \in Alloc(h, n)
  PROVE  Beside(r, h, Null) /\ Roomy(r, n) /\ (r.at # Null => h[r.at] = <<>>)
<1>0. \A b \in Addrs : b # Null
  BY AddrsAssumption DEF Null
<1>1. CASE r.heap = h /\ r.at = Null /\ (r.err # OK \/ n = 0)
  BY <1>0, <1>1 DEF Beside, Roomy, Ptr
<1>2. ASSUME NEW a \in Addrs, h[a] = <<>>, n # 0, r = Outcome([h EXCEPT ![a] = Zeros(n)], a, OK)
      PROVE  Beside(r, h, Null) /\ Roomy(r, n) /\ (r.at # Null => h[r.at] = <<>>)
  <2>1. r.heap = [h EXCEPT ![a] = Zeros(n)] /\ r.at = a /\ r.err = OK
    BY <1>2 DEF Outcome
  <2>2. Zeros(n) \in Seq(Bytes) /\ Len(Zeros(n)) = n /\ Zeros(n) # <<>>
    BY <1>2, ZerosFacts
  <2>3. r.heap \in Mem /\ r.heap[a] = Zeros(n) /\ \A b \in Addrs \ {a} : r.heap[b] = h[b]
    BY <2>1, <2>2 DEF Mem
  <2>4. Roomy(r, n)
    <3>1. Len(r.heap[a]) = n /\ r.at \in Addrs
      BY <2>1, <2>2, <2>3
    <3>. QED  BY <1>2, <2>1, <3>1 DEF Roomy
  <2>5. \A b \in Addrs : r.heap[b] # <<>> <=> (b = a \/ h[b] # <<>>)
    BY <1>2, <2>2, <2>3
  <2>6. \A b \in Addrs : h[b] # <<>> => b # a /\ r.heap[b] = h[b]
    BY <1>2, <2>3
  <2>7. Beside(r, h, Null)
    BY <1>0, <2>1, <2>3, <2>5, <2>6 DEF Beside, Ptr
  <2>. QED  BY <1>2, <2>1, <2>4, <2>7
<1>3. CASE n = 0
  <2>1. r = Outcome(h, Null, OK)
    BY <1>3 DEF Alloc
  <2>. QED  BY <1>1, <1>3, <2>1 DEF Outcome
<1>4. CASE n # 0 /\ r = Outcome(h, Null, ERR_NOMEM)
  BY <1>1, <1>4 DEF Outcome, OK, ERR_NOMEM
<1>5. CASE n # 0 /\ \E a \in Addrs : h[a] = <<>> /\ r = Outcome([h EXCEPT ![a] = Zeros(n)], a, OK)
  BY <1>2, <1>5
<1>6. n = 0 \/ r = Outcome(h, Null, ERR_NOMEM) \/ \E a \in Addrs : h[a] = <<>> /\ r = Outcome([h EXCEPT ![a] = Zeros(n)], a, OK)
  BY DEF Alloc
<1>. QED  BY <1>3, <1>4, <1>5, <1>6

(***************************************************************************)
(* free unmaps one block.                                                  *)
(***************************************************************************)
LEMMA FreedFacts ==
  ASSUME NEW h \in Mem, NEW a \in Ptr
  PROVE  /\ Freed(h, a) \in Mem
         /\ \A b \in Addrs : Freed(h, a)[b] = IF b = a THEN <<>> ELSE h[b]
<1>1. <<>> \in Seq(Bytes) /\ \A b \in Addrs : b # Null
  BY AddrsAssumption DEF Null
<1>. QED  BY <1>1 DEF Freed, Mem, Ptr

(***************************************************************************)
(* A move copies the block to a new one and frees it, or only frees it.    *)
(***************************************************************************)
LEMMA MovedFacts ==
  ASSUME NEW h \in Mem, NEW a \in Addrs, h[a] # <<>>, NEW n \in Nat, Len(h[a]) < n, NEW r \in Moved(h, a, n)
  PROVE  Beside(r, h, a) /\ Roomy(r, n) /\ Carries(r, h, a) /\ (r.at # Null => r.at # a)
<1> DEFINE z == Zeros(n - Len(h[a]))
<1>0. (\A b \in Addrs : b # Null) /\ h[a] \in Seq(Bytes) /\ Len(h[a]) \in Nat
  BY AddrsAssumption, LenProperties DEF Null, Mem
<1>1. PICK q \in Alloc(h, n) :
         r = [q EXCEPT !.heap = Freed(IF q.err = OK THEN [@ EXCEPT ![q.at] = h[a] \o z] ELSE @, a)]
  BY DEF Moved
<1>2. q = [heap |-> q.heap, at |-> q.at, err |-> q.err]
  BY DEF Alloc, Outcome
<1>3. Beside(q, h, Null) /\ Roomy(q, n) /\ (q.at # Null => h[q.at] = <<>>)
  BY AllocFacts
<1>4. r.heap = Freed(IF q.err = OK THEN [q.heap EXCEPT ![q.at] = h[a] \o z] ELSE q.heap, a) /\ r.at = q.at /\ r.err = q.err
  BY <1>1, <1>2
<1>5. q.heap \in Mem /\ a \in Ptr /\ n # 0
  BY <1>0, <1>3 DEF Beside, Ptr
<1>6. CASE q.err # OK
  <2>1. q.at = Null /\ r.heap = Freed(q.heap, a)
    BY <1>3, <1>4, <1>6 DEF Roomy
  <2>2. r.heap \in Mem /\ \A b \in Addrs : r.heap[b] = IF b = a THEN <<>> ELSE q.heap[b]
    BY <1>5, <2>1, FreedFacts
  <2>3. \A b \in Addrs : (q.heap[b] # <<>> <=> h[b] # <<>>) /\ (h[b] # <<>> => q.heap[b] = h[b])
    BY <1>0, <1>3, <2>1 DEF Beside
  <2>4. Beside(r, h, a)
    BY <1>0, <1>4, <2>1, <2>2, <2>3 DEF Beside, Ptr
  <2>5. Roomy(r, n) /\ Carries(r, h, a)
    BY <1>4, <1>6, <2>1 DEF Roomy, Carries
  <2>. QED  BY <1>4, <2>1, <2>4, <2>5
<1>7. CASE q.err = OK
  <2> DEFINE c == h[a] \o z
             g == [q.heap EXCEPT ![q.at] = c]
  <2>1. n - Len(h[a]) \in Nat
    BY <1>0
  <2>2. z \in Seq(Bytes) /\ Len(z) = n - Len(h[a])
    BY <2>1, ZerosFacts
  <2>3. /\ c \in Seq(Bytes) /\ Len(c) = n
        /\ \A i \in 1 .. Len(h[a]) : c[i] = h[a][i]
    <3> HIDE DEF z
    <3>1. c \in Seq(Bytes) /\ Len(c) = Len(h[a]) + Len(z)
      BY <1>0, <2>2, ConcatProperties
    <3>2. \A i \in 1 .. Len(h[a]) + Len(z) : c[i] = IF i <= Len(h[a]) THEN h[a][i] ELSE z[i - Len(h[a])]
      BY <1>0, <2>2, ConcatProperties
    <3>3. \A i \in 1 .. Len(h[a]) : i \in 1 .. Len(h[a]) + Len(z) /\ i <= Len(h[a])
      BY <1>0, <2>1, <2>2
    <3>. QED  BY <1>0, <2>1, <2>2, <3>1, <3>2, <3>3
  <2> HIDE DEF c, z
  <2>4. c # <<>>
    BY <1>5, <2>3, EmptySeq
  <2>5. q.at \in Addrs /\ q.at # Null /\ h[q.at] = <<>> /\ q.at # a
    BY <1>0, <1>3, <1>5, <1>7 DEF Roomy
  <2>6. g \in Mem /\ \A b \in Addrs : g[b] = IF b = q.at THEN c ELSE q.heap[b]
    BY <1>5, <2>3, <2>5 DEF Mem
  <2>7. r.heap = Freed(g, a)
    BY <1>4, <1>7 DEF c, z
  <2> HIDE DEF g
  <2>8. r.heap \in Mem /\ \A b \in Addrs : r.heap[b] = IF b = a THEN <<>> ELSE IF b = q.at THEN c ELSE q.heap[b]
    BY <1>5, <2>6, <2>7, FreedFacts
  <2>9. \A b \in Addrs : b # q.at => (q.heap[b] # <<>> <=> h[b] # <<>>) /\ (h[b] # <<>> => q.heap[b] = h[b])
    BY <1>0, <1>3 DEF Beside
  <2>10. /\ \A b \in Addrs : r.heap[b] # <<>> <=> (b = q.at \/ (b # a /\ h[b] # <<>>))
         /\ \A b \in Addrs : b # a /\ h[b] # <<>> => b # q.at /\ r.heap[b] = h[b]
    BY <2>4, <2>5, <2>8, <2>9
  <2>11. Beside(r, h, a)
    BY <1>4, <2>5, <2>8, <2>10 DEF Beside, Ptr
  <2>12. r.heap[r.at] = c
    BY <1>4, <2>5, <2>8
  <2>13. Roomy(r, n)
    BY <1>4, <1>7, <2>3, <2>5, <2>12 DEF Roomy
  <2>14. Carries(r, h, a)
    BY <1>0, <2>3, <2>12 DEF Carries
  <2>. QED  BY <1>4, <2>5, <2>11, <2>13, <2>14
<1>. QED  BY <1>6, <1>7

(***************************************************************************)
(* realloc touches the caller's block only, has room for what was asked or *)
(* fails with nothing, and carries the contents over.                      *)
(***************************************************************************)
LEMMA ReallocFacts ==
  ASSUME NEW h \in Mem, NEW a \in Ptr, a # Null => h[a] # <<>>, NEW n \in Nat, NEW r \in Realloc(h, a, n)
  PROVE  Beside(r, h, a) /\ Roomy(r, n) /\ Carries(r, h, a)
<1>0. \A b \in Addrs : b # Null
  BY AddrsAssumption DEF Null
<1>1. CASE a = Null
  BY <1>1, AllocFacts DEF Realloc, Carries
<1>2. CASE a # Null /\ n = 0
  <2>1. r.heap = Freed(h, a) /\ r.at = Null /\ r.err = OK
    BY <1>2 DEF Realloc, Outcome
  <2>2. r.heap \in Mem /\ \A b \in Addrs : r.heap[b] = IF b = a THEN <<>> ELSE h[b]
    BY <2>1, FreedFacts
  <2>. QED  BY <1>0, <1>2, <2>1, <2>2 DEF Beside, Roomy, Carries, Ptr
<1>3. CASE a # Null /\ n # 0 /\ Len(h[a]) >= n
  <2>1. r.heap = h /\ r.at = a /\ r.err = OK
    BY <1>3 DEF Realloc, Outcome
  <2>2. a \in Addrs /\ h[a] \in Seq(Bytes) /\ Len(h[a]) \in Nat
    BY <1>3, LenProperties DEF Ptr, Mem
  <2>3. Roomy(r, n) /\ Carries(r, h, a)
    BY <1>3, <2>1, <2>2 DEF Roomy, Carries
  <2>4. Beside(r, h, a)
    BY <1>3, <2>1, <2>2 DEF Beside, Ptr
  <2>. QED  BY <2>3, <2>4
<1>4. CASE a # Null /\ n # 0 /\ ~(Len(h[a]) >= n)
  <2>1. a \in Addrs /\ h[a] # <<>> /\ h[a] \in Seq(Bytes) /\ Len(h[a]) \in Nat
    BY <1>4, LenProperties DEF Ptr, Mem
  <2>2. r \in Moved(h, a, n) /\ Len(h[a]) < n
    BY <1>4, <2>1 DEF Realloc
  <2>. QED  BY <2>1, <2>2, MovedFacts
<1>. QED  BY <1>1, <1>2, <1>3, <1>4

-----------------------------------------------------------------------------
Str == [buf : Ptr, len : Nat, cap : Nat]

\* A string, in heap h, whose memory is gone only if l.
Good(h, s, l) ==
    /\ s \in Str /\ s.len <= s.cap
    /\ s.cap = 0 => s.buf = Null
    /\ s.buf # Null => h[s.buf] # <<>> /\ s.cap <= Len(h[s.buf])
    /\ s.buf = Null => s.cap = 0 \/ l

Sure(h, s) == Good(h, s, FALSE)

\* What reserving cap leaves: the string's block is the only one touched, and
\* the text is as it was, or shorter.
Fits(r, cap) ==
    /\ r.heap \in Mem /\ Good(r.heap, r.str, lost \/ r.err # OK)
    /\ r.err = OK => r.str.cap = cap /\ r.str.len = Shorter(str.len, cap)
    /\ \A b \in Addrs : r.heap[b] # <<>> <=> (b = r.str.buf \/ (b # str.buf /\ heap[b] # <<>>))
    /\ \A b \in Addrs : b # str.buf /\ heap[b] # <<>> => b # r.str.buf /\ r.heap[b] = heap[b]
    /\ ~lost /\ r.err = OK => \A i \in 1 .. r.str.len : r.heap[r.str.buf][i] = heap[str.buf][i]

(***************************************************************************)
(* s_reserve, whatever realloc does.                                       *)
(***************************************************************************)
LEMMA ReservedFacts ==
  ASSUME heap \in Mem, Good(heap, str, lost), NEW cap \in Nat, NEW r \in Reserved(cap)
  PROVE  Fits(r, cap)
<1>0. /\ \A b \in Addrs : b # Null
      /\ str.buf \in Ptr /\ str.len \in Nat /\ str.cap \in Nat /\ str.len <= str.cap
      /\ str.buf # Null => heap[str.buf] # <<>> /\ str.buf \in Addrs
  BY AddrsAssumption DEF Null, Good, Str, Ptr
<1>1. CASE cap = str.cap
  <2>1. r.heap = heap /\ r.str = str /\ r.err = OK
    BY <1>1 DEF Reserved
  <2>2. Good(r.heap, r.str, lost \/ r.err # OK)
    BY <2>1 DEF Good
  <2>3. Shorter(str.len, cap) = str.len
    BY <1>0, <1>1 DEF Shorter
  <2>. QED  BY <1>0, <1>1, <2>1, <2>2, <2>3 DEF Fits
<1>2. ASSUME cap # str.cap, NEW q \in Realloc(heap, str.buf, cap),
             r = [heap |-> q.heap, str |-> Resized(q, cap), err |-> q.err]
      PROVE  Fits(r, cap)
  <2>1. Beside(q, heap, str.buf) /\ Roomy(q, cap) /\ Carries(q, heap, str.buf)
    BY <1>0, ReallocFacts
  <2>2. r.heap = q.heap /\ r.str = Resized(q, cap) /\ r.err = q.err /\ q.heap \in Mem /\ q.at \in Ptr
    BY <1>2, <2>1 DEF Beside
  <2>3. r.str.buf = q.at
    BY <1>0, <2>2 DEF Resized, Good, Str
  <2>4. /\ \A b \in Addrs : r.heap[b] # <<>> <=> (b = r.str.buf \/ (b # str.buf /\ heap[b] # <<>>))
        /\ \A b \in Addrs : b # str.buf /\ heap[b] # <<>> => b # r.str.buf /\ r.heap[b] = heap[b]
    BY <2>1, <2>2, <2>3 DEF Beside
  <2>5. q.at # Null => q.at \in Addrs /\ r.heap[q.at] # <<>>
    BY <2>2, <2>3, <2>4 DEF Ptr
  <2>6. CASE q.err # OK
    <3>1. q.at = Null
      BY <2>1, <2>6 DEF Roomy
    <3>2. r.str = [str EXCEPT !.buf = Null]
      BY <2>2, <2>6, <3>1 DEF Resized
    <3>3. Good(r.heap, r.str, lost \/ r.err # OK)
      BY <1>0, <2>2, <2>6, <3>2 DEF Good, Str, Ptr
    <3>. QED  BY <2>2, <2>4, <2>6, <3>3 DEF Fits
  <2>7. CASE q.err = OK
    <3>1. r.str = [buf |-> q.at, cap |-> cap, len |-> Shorter(str.len, cap)]
      BY <2>2, <2>7 DEF Resized
    <3>2. Shorter(str.len, cap) \in Nat /\ Shorter(str.len, cap) <= cap /\ Shorter(str.len, cap) <= str.len
      BY <1>0 DEF Shorter
    <3>3. (cap = 0 => q.at = Null) /\ (q.at = Null => cap = 0) /\ (q.at # Null => cap <= Len(q.heap[q.at]))
      BY <1>0, <2>1, <2>7 DEF Roomy
    <3>4. Good(r.heap, r.str, lost \/ r.err # OK)
      BY <2>2, <2>5, <3>1, <3>2, <3>3 DEF Good, Str
    <3>5. ASSUME ~lost, NEW i \in 1 .. r.str.len PROVE r.heap[r.str.buf][i] = heap[str.buf][i]
      <4>1. str.cap # 0 /\ cap # 0
        BY <1>0, <3>1, <3>2, <3>5
      <4>2. str.buf # Null /\ q.at # Null
        BY <3>3, <3>5, <4>1 DEF Good
      <4>3. heap[str.buf] \in Seq(Bytes) /\ Len(heap[str.buf]) \in Nat /\ str.cap <= Len(heap[str.buf])
        BY <1>0, <4>2, LenProperties DEF Good, Mem
      <4>4. i \in 1 .. Len(heap[str.buf])
        BY <1>0, <3>1, <3>2, <3>5, <4>3
      <4>. QED  BY <2>1, <2>2, <2>3, <4>2, <4>4 DEF Carries
    <3>. QED  BY <2>2, <2>4, <2>7, <3>1, <3>4, <3>5 DEF Fits
  <2>. QED  BY <2>6, <2>7
<1>3. cap = str.cap \/ \E q \in Realloc(heap, str.buf, cap) : r = [heap |-> q.heap, str |-> Resized(q, cap), err |-> q.err]
  BY DEF Reserved
<1>. QED  BY <1>1, <1>2, <1>3

-----------------------------------------------------------------------------
(***************************************************************************)
(* Powers of two double: the subsets of n + 1 elements are those of n,     *)
(* with and without the last.                                              *)
(***************************************************************************)
LEMMA Doubling ==
  ASSUME NEW n \in Nat
  PROVE  2^n \in Nat /\ 2^(n + 1) = 2^n + 2^n
<1> DEFINE S == 1 .. n
           x == n + 1
           T == 1 .. n + 1
           With == {B \cup {x} : B \in SUBSET S}
           f == [B \in SUBSET S |-> B \cup {x}]
<1>1. IsFiniteSet(S) /\ Cardinality(S) = n /\ IsFiniteSet(T) /\ Cardinality(T) = n + 1
  BY FS_Interval
<1>2. x \notin S /\ T = S \cup {x}
  OBVIOUS
<1> HIDE DEF S, T, x
<1>3. IsFiniteSet(SUBSET S) /\ Cardinality(SUBSET S) = 2^n /\ Cardinality(SUBSET T) = 2^(n + 1)
  BY <1>1, FS_SUBSET
<1>4. SUBSET T = (SUBSET S) \cup With
  <2>1. ASSUME NEW B \in SUBSET T, x \in B PROVE B \in With
    <3>1. B \ {x} \in SUBSET S /\ B = (B \ {x}) \cup {x}
      BY <1>2, <2>1
    <3>. QED  BY <3>1
  <2>2. ASSUME NEW B \in SUBSET T, x \notin B PROVE B \in SUBSET S
    BY <1>2, <2>2
  <2>3. \A B \in SUBSET S : B \in SUBSET T /\ B \cup {x} \in SUBSET T
    BY <1>2
  <2>. QED  BY <2>1, <2>2, <2>3
<1>5. (SUBSET S) \cap With = {}
  BY <1>2
<1>6. ExistsBijection(SUBSET S, With)
  <2>1. f \in [SUBSET S -> With]
    BY Zenon
  <2>2. ASSUME NEW B \in SUBSET S, NEW C \in SUBSET S, f[B] = f[C] PROVE B = C
    BY <1>2, <2>2, Zenon
  <2>3. f \in Injection(SUBSET S, With)
    BY <2>1, <2>2, Fun_IsInj, Zenon
  <2>4. f \in Surjection(SUBSET S, With)
    BY Zenon DEF Surjection
  <2>5. f \in Bijection(SUBSET S, With)
    BY <2>3, <2>4 DEF Bijection
  <2>. QED  BY <2>5, Zenon DEF ExistsBijection
<1>7. IsFiniteSet(With) /\ Cardinality(With) = 2^n
  BY <1>3, <1>6, FS_Bijection
<1>8. Cardinality(SUBSET T) = Cardinality(SUBSET S) + Cardinality(With) - Cardinality((SUBSET S) \cap With)
  BY <1>3, <1>4, <1>7, FS_Union, Zenon
<1>9. Cardinality((SUBSET S) \cap With) = 0 /\ Cardinality(SUBSET S) \in Nat
  BY <1>3, <1>5, FS_EmptySet, FS_CardinalityType, Zenon
<1>. QED  BY <1>3, <1>7, <1>8, <1>9

(***************************************************************************)
(* A set of numbers has a least one.                                       *)
(***************************************************************************)
LEMMA LeastOf ==
  ASSUME NEW T \in SUBSET Nat, T # {}
  PROVE  \E x \in T : \A y \in T : x <= y
<1> DEFINE R == {p \in Nat \X Nat : p[1] < p[2]}
<1>1. IsWellFoundedOn(R, Nat)
  BY NatLessThanWellFounded DEF OpToRel
<1> HIDE DEF R
<1>2. PICK x \in T : \A y \in T : <<y, x>> \notin R
  BY <1>1, WFMin
<1>3. ASSUME NEW y \in T, y < x PROVE FALSE
  <2>1. <<y, x>> \in R
    BY <1>3 DEF R
  <2>. QED  BY <1>2, <2>1
<1>. QED  BY <1>3

(***************************************************************************)
(* So doubling n times is enough to reach n.                               *)
(***************************************************************************)
LEMMA PowersGrow == \A n \in Nat : 2^n \in Nat /\ n < 2^n
<1> DEFINE T == {n \in Nat : ~(n < 2^n)}
<1>1. SUFFICES ASSUME T # {} PROVE FALSE
  BY Doubling
<1>2. PICK n \in T : \A m \in T : n <= m
  BY <1>1, LeastOf
<1>3. 2^0 = 1
  OBVIOUS
<1>4. n \in Nat /\ n # 0
  <2>1. n \in Nat /\ ~(n < 2^n)
    BY <1>2
  <2>2. n # 0
    <3>1. 0 < 2^0
      BY <1>3
    <3>. QED  BY <2>1, <3>1
  <2>. QED  BY <2>1, <2>2
<1> DEFINE m == n - 1
<1>5. m \in Nat /\ m + 1 = n /\ m < n
  BY <1>4
<1> HIDE DEF m
<1>6. 2^m \in Nat /\ 2^n = 2^m + 2^m
  BY <1>5, Doubling
<1>7. m < 2^m
  BY <1>2, <1>5
<1>. QED  BY <1>2, <1>5, <1>6, <1>7

(***************************************************************************)
(* s_append's amount is found, and enough, unless it starts from nothing.  *)
(***************************************************************************)
LEMMA GrowByFacts ==
  ASSUME str.len \in Nat, str.cap \in Nat, str.len <= str.cap, NEW n \in Nat, Over(n) > 0 => str.cap # 0
  PROVE  Over(n) \in Nat /\ GrowBy(n) \in Nat /\ str.len + n <= str.cap + GrowBy(n)
<1> DEFINE c == str.cap
           o == Over(n)
<1>1. o \in Nat /\ str.len + n <= c + o /\ c \in Nat
  BY DEF Over
<1>2. CASE o = 0
  BY <1>1, <1>2 DEF GrowBy
<1>3. CASE o # 0
  <2> DEFINE T == {k \in Nat : c * 2^k >= o}
             P(g) == g >= o /\ (g = c \/ g < 2 * o)
             G == {c * 2^k : k \in 0 .. o}
  <2>1. GrowBy(n) = CHOOSE g \in G : P(g)
    BY <1>3 DEF GrowBy
  <2>2. c \in Nat /\ c # 0 /\ o \in Nat /\ o # 0
    BY <1>1, <1>3
  <2> HIDE DEF c, o
  <2>3. \A k \in Nat : 2^k \in Nat /\ k < 2^k
    BY PowersGrow
  <2>4. o \in T
    <3>1. \A x, y \in Nat : x # 0 => x * y >= y
      OBVIOUS
    <3>2. c * 2^o >= 2^o /\ c * 2^o \in Nat
      BY <2>2, <2>3, <3>1
    <3>. QED  BY <2>2, <2>3, <3>2
  <2>5. PICK k \in T : \A j \in T : k <= j
    <3>1. T \in SUBSET Nat /\ T # {}
      BY <2>4
    <3> HIDE DEF T
    <3>. QED  BY <3>1, LeastOf
  <2>6. k \in 0 .. o /\ c * 2^k >= o
    BY <2>2, <2>4, <2>5
  <2>7. c * 2^k = c \/ c * 2^k < 2 * o
    <3>1. CASE k = 0
      <4>1. 2^0 = 1
        OBVIOUS
      <4>. QED  BY <2>2, <3>1, <4>1
    <3>2. CASE k # 0
      <4> DEFINE m == k - 1
      <4>1. m \in Nat /\ m + 1 = k /\ m < k
        BY <2>6, <3>2
      <4> HIDE DEF m
      <4>2. 2^m \in Nat /\ 2^k = 2^m + 2^m
        BY <4>1, Doubling
      <4>3. m \notin T
        BY <2>5, <4>1
      <4>4. ~(c * 2^m >= o) /\ c * 2^m \in Nat
        BY <2>2, <4>1, <4>2, <4>3
      <4>5. \A x, y \in Nat : x * (y + y) = x * y + x * y
        OBVIOUS
      <4>6. c * 2^k = c * 2^m + c * 2^m
        BY <2>2, <4>2, <4>5
      <4>. QED  BY <2>2, <4>4, <4>6
    <3>. QED  BY <3>1, <3>2
  <2>8. P(c * 2^k) /\ c * 2^k \in G
    BY <2>6, <2>7
  <2>9. G \subseteq Nat
    <3>1. \A j \in 0 .. o : j \in Nat /\ c * 2^j \in Nat
      BY <2>2, <2>3
    <3>. QED  BY <3>1
  <2> HIDE DEF P, G
  <2>10. GrowBy(n) \in G /\ P(GrowBy(n))
    BY <2>1, <2>8
  <2>11. GrowBy(n) \in Nat /\ GrowBy(n) >= o
    BY <2>9, <2>10 DEF P
  <2>. QED  BY <1>1, <2>2, <2>11 DEF c, o
<1>. QED  BY <1>2, <1>3

-----------------------------------------------------------------------------
\* Heap g is h with d written at off of the block at a.
Written(g, h, a, off, d) ==
    /\ g \in Mem
    /\ \A b \in Addrs : /\ Len(g[b]) = Len(h[b])
                        /\ g[b] # <<>> <=> h[b] # <<>>
                        /\ b # a => g[b] = h[b]
    /\ a # Null => \A i \in 1 .. Len(h[a]) : g[a][i] = IF i \in off + 1 .. off + Len(d) THEN d[i - off] ELSE h[a][i]

(***************************************************************************)
(* Reading bytes of a block, as a sequence.                                *)
(***************************************************************************)
LEMMA AtFacts ==
  ASSUME NEW h \in Mem, NEW a \in Ptr, NEW off \in Nat, NEW n \in Nat, Mapped(h, a, off, n)
  PROVE  /\ At(h, a, off, n) \in Seq(Bytes) /\ Len(At(h, a, off, n)) = n
         /\ \A i \in 1 .. n : At(h, a, off, n)[i] = h[a][off + i]
<1>1. CASE n = 0
  BY <1>1, EmptySeq DEF At
<1>2. CASE n # 0
  <2>1. a \in Addrs /\ off + n <= Len(h[a])
    BY <1>2 DEF Mapped, Ptr
  <2>2. h[a] \in Seq(Bytes) /\ Len(h[a]) \in Nat
    BY <2>1, LenProperties DEF Mem
  <2>3. \A i \in off + 1 .. off + n : h[a][i] \in Bytes
    BY <2>1, <2>2, ElementOfSeq
  <2> DEFINE u == SubSeq(h[a], off + 1, off + n)
  <2>4. /\ u \in Seq(Bytes)
        /\ Len(u) = IF off + 1 <= off + n THEN off + n - (off + 1) + 1 ELSE 0
        /\ \A i \in 1 .. off + n - (off + 1) + 1 : u[i] = h[a][off + 1 + i - 1]
    <3>1. off + 1 \in Int /\ off + n \in Int
      OBVIOUS
    <3>. QED  BY <2>3, <3>1, SubSeqProperties
  <2>5. At(h, a, off, n) = u
    BY <1>2 DEF At
  <2> HIDE DEF u
  <2>6. off + n - (off + 1) + 1 = n /\ off + 1 <= off + n /\ \A i \in 1 .. n : off + 1 + i - 1 = off + i
    BY <1>2
  <2>. QED  BY <2>4, <2>5, <2>6
<1>. QED  BY <1>1, <1>2

(***************************************************************************)
(* Writing them changes those bytes and no size.                           *)
(***************************************************************************)
LEMMA PutFacts ==
  ASSUME NEW h \in Mem, NEW a \in Ptr, NEW off \in Nat, NEW d \in Seq(Bytes), Mapped(h, a, off, Len(d))
  PROVE  Written(Put(h, a, off, d), h, a, off, d)
<1> DEFINE g == Put(h, a, off, d)
<1>0. Len(d) \in Nat /\ (d # <<>> => Len(d) # 0) /\ (d = <<>> => Len(d) = 0)
  BY LenProperties, EmptySeq
<1>1. CASE d = <<>>
  BY <1>0, <1>1 DEF Put, Written
<1>2. CASE d # <<>>
  <2>1. a \in Addrs /\ a # Null /\ off + Len(d) <= Len(h[a])
    BY <1>0, <1>2 DEF Mapped, Ptr
  <2> DEFINE N == Len(h[a])
             e == [i \in DOMAIN h[a] |-> IF i \in off + 1 .. off + Len(d) THEN d[i - off] ELSE h[a][i]]
  <2>2. h[a] \in Seq(Bytes) /\ N \in Nat /\ DOMAIN h[a] = 1 .. N
    BY <2>1, LenProperties DEF Mem
  <2>3. \A i \in 1 .. N : (IF i \in off + 1 .. off + Len(d) THEN d[i - off] ELSE h[a][i]) \in Bytes
    <3>1. \A i \in 1 .. N : i \in off + 1 .. off + Len(d) => i - off \in 1 .. Len(d)
      BY <1>0, <2>2
    <3>2. (\A j \in 1 .. Len(d) : d[j] \in Bytes) /\ \A j \in 1 .. N : h[a][j] \in Bytes
      BY <2>2, ElementOfSeq
    <3>. QED  BY <3>1, <3>2
  <2>4. e \in [1 .. N -> Bytes]
    BY <2>2, <2>3
  <2>5. e \in Seq(Bytes) /\ Len(e) = N /\ DOMAIN e = 1 .. N
    <3> HIDE DEF e
    <3>1. e \in Seq(Bytes)
      BY <2>2, <2>4, SeqDef
    <3>2. DOMAIN e = 1 .. N
      BY <2>4
    <3>. QED  BY <2>2, <3>1, <3>2, LenProperties
  <2>6. g = [h EXCEPT ![a] = e]
    BY <1>2 DEF Put
  <2>7. \A i \in 1 .. N : e[i] = IF i \in off + 1 .. off + Len(d) THEN d[i - off] ELSE h[a][i]
    BY <2>2
  <2> HIDE DEF e, g
  <2>8. g \in Mem /\ g[a] = e /\ \A b \in Addrs : b # a => g[b] = h[b]
    BY <2>1, <2>5, <2>6 DEF Mem
  <2>9. h[a] # <<>> /\ e # <<>>
    BY <1>0, <1>2, <2>1, <2>2, <2>5, EmptySeq
  <2>10. \A b \in Addrs : Len(g[b]) = Len(h[b]) /\ (g[b] # <<>> <=> h[b] # <<>>)
    BY <2>5, <2>8, <2>9
  <2>11. Written(g, h, a, off, d)
    BY <2>7, <2>8, <2>10 DEF Written
  <2>. QED  BY <2>11 DEF g
<1>. QED  BY <1>1, <1>2

(***************************************************************************)
(* A string whose memory is not gone has its text mapped.                  *)
(***************************************************************************)
LEMMA TextFacts ==
  ASSUME NEW h \in Mem, NEW s, Sure(h, s)
  PROVE  LET u == At(h, s.buf, 0, s.len) IN
         /\ u \in Seq(Bytes) /\ Len(u) = s.len /\ s.len \in Nat
         /\ \A i \in 1 .. s.len : u[i] = h[s.buf][i]
<1>1. s.buf \in Ptr /\ s.len \in Nat /\ s.cap \in Nat /\ s.len <= s.cap
  BY DEF Sure, Good, Str
<1>2. Mapped(h, s.buf, 0, s.len)
  <2>1. CASE s.buf = Null
    BY <1>1, <2>1 DEF Sure, Good, Mapped
  <2>2. CASE s.buf # Null
    <3>1. s.buf \in Addrs /\ Len(h[s.buf]) \in Nat
      BY <1>1, <2>2, LenProperties DEF Ptr, Mem
    <3>. QED  BY <1>1, <2>2, <3>1 DEF Sure, Good, Mapped
  <2>. QED  BY <2>1, <2>2
<1>3. PICK a \in Ptr, n \in Nat : a = s.buf /\ n = s.len
  BY <1>1
<1>4. PICK u : u = At(h, a, 0, n)
  OBVIOUS
<1>5. u \in Seq(Bytes) /\ Len(u) = n /\ \A i \in 1 .. n : u[i] = h[a][0 + i]
  BY <1>2, <1>3, <1>4, AtFacts
<1>6. \A i \in 1 .. n : 0 + i = i
  BY <1>3
<1>. QED  BY <1>3, <1>4, <1>5, <1>6

(***************************************************************************)
(* A string that is no longer, with the same bytes, says the same cut off. *)
(***************************************************************************)
LEMMA CutText ==
  ASSUME NEW h \in Mem, NEW s, Sure(h, s), NEW g \in Mem, NEW t, Sure(g, t),
         t.len <= s.len, \A i \in 1 .. t.len : g[t.buf][i] = h[s.buf][i]
  PROVE  /\ At(g, t.buf, 0, t.len) = SubSeq(At(h, s.buf, 0, s.len), 1, t.len)
         /\ t.len \in 0 .. Len(At(h, s.buf, 0, s.len))
<1> DEFINE u == At(h, s.buf, 0, s.len)
           v == At(g, t.buf, 0, t.len)
           w == SubSeq(u, 1, t.len)
<1>1. u \in Seq(Bytes) /\ Len(u) = s.len /\ s.len \in Nat /\ \A i \in 1 .. s.len : u[i] = h[s.buf][i]
  BY TextFacts
<1>2. v \in Seq(Bytes) /\ Len(v) = t.len /\ t.len \in Nat /\ \A i \in 1 .. t.len : v[i] = g[t.buf][i]
  BY TextFacts
<1> HIDE DEF u, v
<1>3. t.len \in 0 .. Len(u)
  BY <1>1, <1>2
<1>4. w \in Seq(Bytes) /\ Len(w) = t.len /\ \A i \in 1 .. t.len : w[i] = u[i]
  <2>1. \A i \in 1 .. t.len : u[i] \in Bytes
    BY <1>1, <1>2, ElementOfSeq
  <2>2. 1 \in Int /\ t.len \in Int
    BY <1>2
  <2>3. w \in Seq(Bytes) /\ (Len(w) = IF 1 <= t.len THEN t.len - 1 + 1 ELSE 0) /\ \A i \in 1 .. t.len - 1 + 1 : w[i] = u[1 + i - 1]
    BY <2>1, <2>2, SubSeqProperties
  <2>4. t.len - 1 + 1 = t.len /\ \A i \in 1 .. t.len : 1 + i - 1 = i
    BY <1>2
  <2>. QED  BY <1>2, <2>3, <2>4
<1> HIDE DEF w
<1>5. \A i \in 1 .. Len(v) : v[i] = w[i]
  BY <1>1, <1>2, <1>3, <1>4
<1>6. v = w
  BY <1>2, <1>4, <1>5, SeqEqual
<1>. QED  BY <1>3, <1>6 DEF u, v, w

Continues(g, t, h, s, d) ==
    /\ t.len = s.len + Len(d)
    /\ \A i \in 1 .. s.len : g[t.buf][i] = h[s.buf][i]
    /\ \A i \in 1 .. Len(d) : g[t.buf][s.len + i] = d[i]

(***************************************************************************)
(* One that has d behind the same bytes says d more.                       *)
(***************************************************************************)
LEMMA LongerText ==
  ASSUME NEW h \in Mem, NEW s, Sure(h, s), NEW g \in Mem, NEW t, Sure(g, t),
         NEW d \in Seq(Bytes), Continues(g, t, h, s, d)
  PROVE  At(g, t.buf, 0, t.len) = At(h, s.buf, 0, s.len) \o d
<1> DEFINE u == At(h, s.buf, 0, s.len)
           v == At(g, t.buf, 0, t.len)
           w == u \o d
<1>0. /\ t.len = s.len + Len(d)
      /\ \A i \in 1 .. s.len : g[t.buf][i] = h[s.buf][i]
      /\ \A i \in 1 .. Len(d) : g[t.buf][s.len + i] = d[i]
  BY DEF Continues
<1>1. u \in Seq(Bytes) /\ Len(u) = s.len /\ s.len \in Nat /\ \A i \in 1 .. s.len : u[i] = h[s.buf][i]
  BY TextFacts
<1>2. v \in Seq(Bytes) /\ Len(v) = t.len /\ t.len \in Nat /\ \A i \in 1 .. t.len : v[i] = g[t.buf][i]
  BY TextFacts
<1> HIDE DEF u, v
<1>3. Len(d) \in Nat
  BY LenProperties
<1>4. /\ w \in Seq(Bytes) /\ Len(w) = Len(u) + Len(d)
      /\ \A i \in 1 .. Len(u) + Len(d) : w[i] = IF i <= Len(u) THEN u[i] ELSE d[i - Len(u)]
  BY <1>1, ConcatProperties
<1> HIDE DEF w
<1>5. ASSUME NEW i \in 1 .. Len(v) PROVE v[i] = w[i]
  <2>1. CASE i <= s.len
    BY <1>0, <1>1, <1>2, <1>3, <1>4, <2>1
  <2>2. CASE i > s.len
    <3> DEFINE j == i - s.len
    <3>1. j \in 1 .. Len(d) /\ s.len + j = i
      BY <1>0, <1>1, <1>2, <1>3, <2>2
    <3>2. v[i] = g[t.buf][s.len + j]
      BY <1>2, <3>1
    <3>3. w[i] = d[j]
      BY <1>0, <1>1, <1>2, <1>3, <1>4, <2>2
    <3> HIDE DEF j
    <3>. QED  BY <1>0, <3>1, <3>2, <3>3
  <2>. QED  BY <1>1, <1>2, <2>1, <2>2
<1>6. Len(v) = Len(w)
  BY <1>0, <1>1, <1>2, <1>4
<1>7. v = w
  BY <1>2, <1>4, <1>5, <1>6, SeqEqual
<1>. QED  BY <1>7 DEF u, v, w

-----------------------------------------------------------------------------
Fates == {"runs", "strays", "hangs"}

\* Of the string and the copy, without views and files.
StrInv ==
    /\ heap \in Mem /\ copy \in Ptr \cup {None} /\ lost \in BOOLEAN /\ objects \in Nat
    /\ str # None => Good(heap, str, lost)
    /\ \A b \in Addrs : heap[b] # <<>> <=> ((str # None /\ b = str.buf) \/ b = copy)
    /\ str # None /\ copy # None /\ str.buf = copy => copy = Null

\* What a step may do to the text.
Says == Text' = Text \/ TB!TBNext

Step ==
    /\ StrInv' /\ fate' \in Fates /\ Says
    /\ objects' = objects + There(str') - There(str)

(***************************************************************************)
(* Strings, pointers and texts are something.                              *)
(***************************************************************************)
LEMMA Something ==
  /\ \A s \in Str : s # None
  /\ \A a \in Ptr : a # None
  /\ \A u \in Seq(Bytes) : u # None /\ u # Lost
  /\ Lost # None
<1>1. Ptr \subseteq Nat
  BY AddrsAssumption DEF Ptr, Null
<1>2. \A s \in Str : s \in [buf : Nat, len : Nat, cap : Nat]
  BY <1>1 DEF Str
<1>. QED  BY <1>1, <1>2, NoneAssumption, ObjectsAssumption

(***************************************************************************)
(* The text is mapped, or there is none.                                   *)
(***************************************************************************)
LEMMA TextThere ==
  ASSUME StrInv, str # None, ~lost
  PROVE  /\ Sure(heap, str)
         /\ Text = At(heap, str.buf, 0, str.len)
         /\ Text \in Seq(Bytes) /\ Len(Text) = str.len /\ TB!There
<1>1. Sure(heap, str)
  BY DEF StrInv, Good, Sure
<1>2. Text = At(heap, str.buf, 0, str.len)
  BY DEF Text
<1>3. Text \in Seq(Bytes) /\ Len(Text) = str.len
  BY <1>1, <1>2, TextFacts DEF StrInv
<1>4. TB!There
  BY <1>3, Something DEF TB!There
<1>. QED  BY <1>1, <1>2, <1>3, <1>4

(***************************************************************************)
(* The same of the string before a step and after it.                      *)
(***************************************************************************)
LEMMA LongerNow ==
  ASSUME heap \in Mem, Sure(heap, str), heap' \in Mem, Sure(heap', str'),
         NEW d \in Seq(Bytes), Continues(heap', str', heap, str, d)
  PROVE  At(heap', str'.buf, 0, str'.len) = At(heap, str.buf, 0, str.len) \o d
BY LongerText

(***************************************************************************)
(* And when it is cut.                                                     *)
(***************************************************************************)
LEMMA CutNow ==
  ASSUME heap \in Mem, Sure(heap, str), heap' \in Mem, Sure(heap', str'),
         str'.len <= str.len, \A i \in 1 .. str'.len : heap'[str'.buf][i] = heap[str.buf][i]
  PROVE  /\ At(heap', str'.buf, 0, str'.len) = SubSeq(At(heap, str.buf, 0, str.len), 1, str'.len)
         /\ str'.len \in 0 .. Len(At(heap, str.buf, 0, str.len))
BY CutText

(***************************************************************************)
(* Nothing changes where the call ends in no answer.                       *)
(***************************************************************************)
LEMMA NoStep ==
  ASSUME StrInv, UNCHANGED <<heap, str, copy, objects, lost>>, fate' \in Fates
  PROVE  Step
<1>1. StrInv'
  BY DEF StrInv
<1>2. Text' = Text
  BY DEF Text
<1>3. objects' = objects + There(str') - There(str)
  BY DEF There, StrInv
<1>. QED  BY <1>1, <1>2, <1>3 DEF Step, Says

(***************************************************************************)
(* The blocks stay one for the string and one for the copy when the string *)
(* has the block that reserving gave it.                                   *)
(***************************************************************************)
LEMMA StillOwned ==
  ASSUME StrInv, str # None, NEW cap \in Nat, NEW r, Fits(r, cap),
         heap' \in Mem, \A b \in Addrs : heap'[b] # <<>> <=> r.heap[b] # <<>>,
         str' \in Str, str'.buf = r.str.buf, copy' = copy
  PROVE  /\ \A b \in Addrs : heap'[b] # <<>> <=> ((str' # None /\ b = str'.buf) \/ b = copy')
         /\ str' # None /\ copy' # None /\ str'.buf = copy' => copy' = Null
<1>1. str' # None
  BY Something
<1>2. copy \in Addrs => heap[copy] # <<>> /\ copy # str.buf
  <2>1. \A b \in Addrs : b # Null /\ b # None
    BY AddrsAssumption, NoneAssumption DEF Null
  <2>. QED  BY <2>1 DEF StrInv
<1>3. copy \in Addrs => copy # r.str.buf
  BY <1>2 DEF Fits
<1>4. ASSUME NEW b \in Addrs
      PROVE  heap'[b] # <<>> <=> (b = str'.buf \/ b = copy')
  <2>1. heap'[b] # <<>> <=> (b = r.str.buf \/ (b # str.buf /\ heap[b] # <<>>))
    BY DEF Fits
  <2>2. heap[b] # <<>> <=> (b = str.buf \/ b = copy)
    BY DEF StrInv
  <2>. QED  BY <1>2, <2>1, <2>2
<1>5. copy' # None /\ str'.buf = copy' => copy' = Null
  BY <1>3 DEF StrInv, Ptr
<1>. QED  BY <1>1, <1>4, <1>5

(***************************************************************************)
(* s_reserve keeps the text, cuts it off, or loses it.                     *)
(***************************************************************************)
LEMMA ReserveStep ==
  ASSUME StrInv, fate \in Fates, str # None, NEW cap \in Nat, NEW r \in Reserved(cap), Take(r)
  PROVE  Step
<1>1. heap \in Mem /\ Good(heap, str, lost)
  BY DEF StrInv
<1>2. Fits(r, cap)
  BY <1>1, ReservedFacts
<1>3. /\ heap' = r.heap /\ str' = r.str /\ (lost' <=> (lost \/ r.err # OK)) /\ lost' \in BOOLEAN
      /\ copy' = copy /\ objects' = objects /\ fate' = fate
  BY DEF Take
<1>4. heap' \in Mem /\ Good(heap', str', lost') /\ str' \in Str /\ str' # None
  <2>1. r.heap \in Mem /\ Good(r.heap, r.str, lost \/ r.err # OK)
    BY <1>2 DEF Fits
  <2>2. Good(heap', str', lost')
    BY <1>3, <2>1 DEF Good
  <2>. QED  BY <1>3, <2>1, <2>2, Something DEF Good
<1>5. StrInv'
  <2>1. \A b \in Addrs : heap'[b] # <<>> <=> r.heap[b] # <<>>
    BY <1>3
  <2>2. /\ \A b \in Addrs : heap'[b] # <<>> <=> ((str' # None /\ b = str'.buf) \/ b = copy')
        /\ str' # None /\ copy' # None /\ str'.buf = copy' => copy' = Null
    BY <1>2, <1>3, <1>4, <2>1, StillOwned
  <2>3. copy' \in Ptr \cup {None} /\ objects' \in Nat
    BY <1>3 DEF StrInv
  <2>. QED  BY <1>3, <1>4, <2>2, <2>3 DEF StrInv
<1>6. Says
  <2>1. CASE lost
    BY <1>3, <1>4, <2>1 DEF Says, Text
  <2>2. CASE ~lost /\ lost'
    <3>1. TB!There
      BY <2>2, TextThere
    <3>2. Text' = Lost
      BY <1>4, <2>2 DEF Text
    <3>. QED  BY <3>1, <3>2 DEF Says, TB!TBNext, TB!Lose
  <2>3. CASE ~lost /\ ~lost'
    <3>1. Sure(heap, str) /\ Text = At(heap, str.buf, 0, str.len) /\ TB!There
      BY <2>3, TextThere
    <3>2. Sure(heap', str') /\ Text' = At(heap', str'.buf, 0, str'.len)
      BY <1>4, <2>3 DEF Sure, Good, Text
    <3>3. str'.len <= str.len
      <4>1. str'.len = Shorter(str.len, cap) /\ str.len \in Nat
        BY <1>1, <1>2, <1>3, <2>3 DEF Fits, Good, Str
      <4>. QED  BY <4>1 DEF Shorter
    <3>4. \A i \in 1 .. str'.len : heap'[str'.buf][i] = heap[str.buf][i]
      BY <1>2, <1>3, <2>3 DEF Fits
    <3>5. Text' = SubSeq(Text, 1, str'.len) /\ str'.len \in 0 .. Len(Text)
      BY <1>1, <1>4, <3>1, <3>2, <3>3, <3>4, CutText
    <3>. QED  BY <3>1, <3>5 DEF Says, TB!TBNext, TB!Cut
  <2>. QED  BY <2>1, <2>2, <2>3
<1>7. objects' = objects + There(str') - There(str)
  BY <1>3, <1>4 DEF There, StrInv
<1>. QED  BY <1>3, <1>5, <1>6, <1>7 DEF Step

Data == Texts \cup {<<c>> : c \in Chars} \cup {<<>>}

\* The string is there, and its text is what it was, or d longer, where it is
\* not lost.
Longer(d) == str' # None /\ (~lost /\ ~lost' => Text' = Text \/ Text' = Text \o d)

(***************************************************************************)
(* Writing behind the text of a string that was grown enough: the text has *)
(* that much more, or is lost, or the program has strayed.                 *)
(***************************************************************************)
LEMMA StoredStep ==
  ASSUME StrInv, fate \in Fates, str # None, NEW cap \in Nat, NEW r \in Reserved(cap),
         NEW d \in Seq(Bytes), d \in Data \/ (~lost => d = Text), str.len + Len(d) <= cap, Stored(r, d)
  PROVE  Step /\ Longer(d)
<1> DEFINE off == r.str.len
           g == Put(r.heap, r.str.buf, off, d)
<1>1. heap \in Mem /\ Good(heap, str, lost) /\ str.len \in Nat /\ Len(d) \in Nat
  BY LenProperties DEF StrInv, Good, Str
<1>2. Fits(r, cap)
  BY <1>1, ReservedFacts
<1>3. CASE r.err # OK
  <2>1. Take(r)
    BY <1>3 DEF Stored
  <2>2. str' # None
    <3>1. r.str \in Str /\ str' = r.str
      BY <1>2, <2>1 DEF Fits, Good, Take
    <3>. QED  BY <3>1, Something
  <2>3. Longer(d)
    BY <1>3, <2>1, <2>2 DEF Take, Longer
  <2>. QED  BY <2>1, <2>3, ReserveStep
<1>4. CASE r.err = OK /\ ~Mapped(r.heap, r.str.buf, off, Len(d))
  <2>1. Stray
    BY <1>4 DEF Stored
  <2>2. Longer(d)
    BY <2>1 DEF Stray, Text, Longer
  <2>. QED  BY <2>1, <2>2, NoStep DEF Stray, Fates
<1>5. CASE r.err = OK /\ Mapped(r.heap, r.str.buf, off, Len(d))
  <2>1. r.heap \in Mem /\ Good(r.heap, r.str, lost) /\ r.str.cap = cap /\ off = str.len
    <3>1. off = Shorter(str.len, cap) /\ r.str.cap = cap /\ r.heap \in Mem
      BY <1>2, <1>5 DEF Fits
    <3>2. Good(r.heap, r.str, lost)
      BY <1>2, <1>5 DEF Fits, Good
    <3>. QED  BY <1>1, <3>1, <3>2 DEF Shorter
  <2>2. r = [heap |-> r.heap, str |-> r.str, err |-> r.err]
    BY DEF Reserved
  <2>3. r.str \in Str
    BY <2>1 DEF Good
  <2>4. Take([r EXCEPT !.heap = Put(@, r.str.buf, r.str.len, d), !.str.len = @ + Len(d)])
    BY <1>5 DEF Stored
  <2>5. /\ heap' = g /\ str' = [r.str EXCEPT !.len = @ + Len(d)]
        /\ (lost' <=> lost) /\ lost' \in BOOLEAN /\ copy' = copy /\ objects' = objects /\ fate' = fate
    BY <1>5, <2>2, <2>4 DEF Take
  <2>6. str'.buf = r.str.buf /\ str'.len = str.len + Len(d) /\ str'.cap = cap /\ str' \in Str /\ str' # None
    BY <1>1, <2>1, <2>3, <2>5, Something DEF Str
  <2>7. /\ g \in Mem
        /\ \A b \in Addrs : Len(g[b]) = Len(r.heap[b]) /\ (g[b] # <<>> <=> r.heap[b] # <<>>)
        /\ r.str.buf # Null => \A i \in 1 .. Len(r.heap[r.str.buf]) :
               g[r.str.buf][i] = IF i \in off + 1 .. off + Len(d) THEN d[i - off] ELSE r.heap[r.str.buf][i]
    <3>1. r.str.buf \in Ptr /\ off \in Nat
      BY <2>3 DEF Str
    <3>2. Written(g, r.heap, r.str.buf, off, d)
      BY <1>5, <2>1, <3>1, PutFacts
    <3> HIDE DEF g, off
    <3>. QED  BY <3>2 DEF Written
  <2> HIDE DEF g, off
  <2>8. Good(heap', str', lost')
    <3>1. str'.buf # Null => heap'[str'.buf] # <<>> /\ cap <= Len(heap'[str'.buf])
      BY <2>1, <2>3, <2>5, <2>6, <2>7 DEF Good, Str, Ptr
    <3>2. (cap = 0 => str'.buf = Null) /\ (str'.buf = Null => cap = 0 \/ lost)
      BY <2>1, <2>6 DEF Good
    <3>. QED  BY <2>5, <2>6, <3>1, <3>2 DEF Good
  <2>9. StrInv'
    <3>1. /\ \A b \in Addrs : heap'[b] # <<>> <=> ((str' # None /\ b = str'.buf) \/ b = copy')
          /\ str' # None /\ copy' # None /\ str'.buf = copy' => copy' = Null
      BY <1>2, <2>5, <2>6, <2>7, StillOwned
    <3>2. copy' \in Ptr \cup {None} /\ objects' \in Nat
      BY <2>5 DEF StrInv
    <3>. QED  BY <2>5, <2>7, <2>8, <3>1, <3>2 DEF StrInv
  <2>10. Says /\ Longer(d)
    <3>1. CASE lost
      BY <2>5, <2>6, <3>1 DEF Says, Text, Longer
    <3>3. heap' \in Mem
      BY <2>5, <2>7
    <3>2. CASE ~lost
      <4>1. Sure(heap, str) /\ Text = At(heap, str.buf, 0, str.len) /\ TB!There
        BY <3>2, TextThere
      <4>2. Sure(heap', str') /\ Text' = At(heap', str'.buf, 0, str'.len)
        BY <2>5, <2>6, <2>8, <3>2 DEF Sure, Good, Text
      <4>3. ASSUME r.str.buf = Null PROVE Continues(heap', str', heap, str, d)
        <5>1. cap = 0 /\ str.len = 0 /\ Len(d) = 0
          BY <1>1, <2>1, <3>2, <4>3 DEF Good
        <5>2. /\ \A i \in 1 .. str.len : heap'[str'.buf][i] = heap[str.buf][i]
              /\ \A i \in 1 .. Len(d) : heap'[str'.buf][str.len + i] = d[i]
          BY <5>1
        <5>3. Continues(heap', str', heap, str, d)
          BY <2>6, <5>2 DEF Continues
        <5>. QED  BY <5>3
      <4>4. ASSUME r.str.buf # Null PROVE Continues(heap', str', heap, str, d)
        <5> DEFINE N == Len(r.heap[r.str.buf])
        <5>1. N \in Nat /\ cap <= N
          <6>1. r.str.buf \in Addrs /\ cap <= N
            BY <2>1, <2>3, <4>4 DEF Good, Str, Ptr
          <6>. QED  BY <2>1, <6>1, LenProperties DEF Mem
        <5> HIDE DEF N
        <5>2. ASSUME NEW i \in 1 .. str.len PROVE heap'[str'.buf][i] = heap[str.buf][i]
          <6>1. i \in 1 .. N /\ i \notin off + 1 .. off + Len(d)
            BY <1>1, <2>1, <5>1
          <6>2. heap'[str'.buf][i] = r.heap[r.str.buf][i]
            BY <2>5, <2>6, <2>7, <4>4, <6>1 DEF N
          <6>3. r.heap[r.str.buf][i] = heap[str.buf][i]
            BY <1>2, <1>5, <2>1, <3>2 DEF Fits, off
          <6>. QED  BY <6>2, <6>3
        <5>3. ASSUME NEW i \in 1 .. Len(d) PROVE heap'[str'.buf][str.len + i] = d[i]
          <6> DEFINE j == str.len + i
          <6>1. j \in 1 .. N /\ j \in off + 1 .. off + Len(d) /\ j - off = i
            BY <1>1, <2>1, <5>1
          <6> HIDE DEF j
          <6>2. heap'[str'.buf][j] = d[i]
            BY <2>5, <2>6, <2>7, <4>4, <6>1 DEF N
          <6>. QED  BY <6>2 DEF j
        <5>4. Continues(heap', str', heap, str, d)
          BY <2>6, <5>2, <5>3 DEF Continues
        <5>. QED  BY <5>4
      <4>5. Text' = Text \o d
        <5>1. Continues(heap', str', heap, str, d)
          BY <4>3, <4>4
        <5>2. heap \in Mem /\ Sure(heap, str) /\ Sure(heap', str')
          BY <1>1, <4>1, <4>2
        <5>3. At(heap', str'.buf, 0, str'.len) = At(heap, str.buf, 0, str.len) \o d
          BY <3>3, <5>1, <5>2, LongerNow
        <5>. QED  BY <4>1, <4>2, <5>3
      <4>6. CASE d \in Data
        BY <2>6, <4>1, <4>5, <4>6 DEF Says, TB!TBNext, TB!Append1, Data, Longer
      <4>7. CASE d = Text
        BY <2>6, <4>1, <4>5, <4>7 DEF Says, TB!TBNext, TB!Twice, Longer
      <4>. QED  BY <3>2, <4>6, <4>7
    <3>. QED  BY <3>1, <3>2
  <2>11. objects' = objects + There(str') - There(str)
    BY <2>5, <2>6 DEF There, StrInv
  <2>. QED  BY <2>5, <2>9, <2>10, <2>11 DEF Step
<1>. QED  BY <1>3, <1>4, <1>5

-----------------------------------------------------------------------------
(***************************************************************************)
(* s_shrink and s_clear cut the text and leave the buffer.                 *)
(***************************************************************************)
LEMMA LengthStep ==
  ASSUME StrInv, str # None, NEW k \in 0 .. str.len, str' = [str EXCEPT !.len = k],
         UNCHANGED <<heap, copy, objects>>, lost' <=> lost, lost' \in BOOLEAN, fate' \in Fates
  PROVE  Step
<1>1. /\ Good(heap, str, lost) /\ str \in Str /\ str.len \in Nat /\ str.cap \in Nat /\ str.len <= str.cap
      /\ k \in Nat /\ k <= str.len
  BY DEF StrInv, Good, Str
<1>2. /\ str' \in Str /\ str'.buf = str.buf /\ str'.len = k /\ str'.cap = str.cap /\ str' # None
      /\ heap' = heap /\ copy' = copy /\ objects' = objects /\ heap \in Mem
  BY <1>1, Something DEF Str, StrInv
<1>3. Good(heap', str', lost')
  BY <1>1, <1>2 DEF Good
<1>4. StrInv'
  BY <1>2, <1>3 DEF StrInv
<1>5. Says
  <2>1. CASE lost
    BY <1>2, <2>1 DEF Says, Text
  <2>2. CASE ~lost
    <3>1. Sure(heap, str) /\ Text = At(heap, str.buf, 0, str.len) /\ TB!There
      BY <2>2, TextThere
    <3>2. Sure(heap', str') /\ Text' = At(heap', str'.buf, 0, str'.len)
      BY <1>2, <1>3, <2>2 DEF Sure, Good, Text
    <3>3. str'.len <= str.len /\ \A i \in 1 .. str'.len : heap'[str'.buf][i] = heap[str.buf][i]
      BY <1>1, <1>2
    <3>4. Text' = SubSeq(Text, 1, str'.len) /\ str'.len \in 0 .. Len(Text)
      <4>1. heap' \in Mem /\ Sure(heap, str) /\ Sure(heap', str')
        BY <1>2, <3>1, <3>2
      <4>2. /\ At(heap', str'.buf, 0, str'.len) = SubSeq(At(heap, str.buf, 0, str.len), 1, str'.len)
            /\ str'.len \in 0 .. Len(At(heap, str.buf, 0, str.len))
        BY <1>2, <3>3, <4>1, CutNow
      <4>. QED  BY <3>1, <3>2, <4>2
    <3>. QED  BY <3>1, <3>4 DEF Says, TB!TBNext, TB!Cut
  <2>. QED  BY <2>1, <2>2
<1>6. objects' = objects + There(str') - There(str)
  BY <1>2 DEF There, StrInv
<1>. QED  BY <1>4, <1>5, <1>6 DEF Step

(***************************************************************************)
(* s_set overwrites one byte.                                              *)
(***************************************************************************)
LEMMA SetStep ==
  ASSUME StrInv, fate \in Fates, NEW i \in Nat, NEW c \in Chars, SSet(i, c)
  PROVE  Step
<1> DEFINE d == <<c>>
           g == Put(heap, str.buf, i, d)
<1>1. /\ str # None /\ i < str.len /\ Good(heap, str, lost) /\ heap \in Mem /\ str \in Str
      /\ str.buf \in Ptr /\ str.len \in Nat /\ str.cap \in Nat /\ str.len <= str.cap
  BY DEF SSet, StrInv, Good, Str
<1>2. d \in Seq(Bytes) /\ Len(d) = 1 /\ d[1] = c /\ c \in Bytes
  BY DEF Bytes
<1>3. CASE ~Mapped(heap, str.buf, i, 1)
  BY <1>3, NoStep DEF SSet, Stray, Fates
<1>4. CASE Mapped(heap, str.buf, i, 1)
  <2>1. /\ heap' = g /\ str' = str /\ (lost' <=> lost) /\ lost' \in BOOLEAN
        /\ copy' = copy /\ objects' = objects /\ fate' = fate
    BY <1>4 DEF SSet, Take, StrInv
  <2>2. Written(g, heap, str.buf, i, d)
    <3> HIDE DEF d
    <3>1. Mapped(heap, str.buf, i, Len(d))
      BY <1>2, <1>4
    <3>. QED  BY <1>1, <1>2, <3>1, PutFacts
  <2> HIDE DEF g, d
  <2>3. g \in Mem /\ \A b \in Addrs : Len(g[b]) = Len(heap[b]) /\ (g[b] # <<>> <=> heap[b] # <<>>)
    BY <2>2 DEF Written
  <2>4. Good(heap', str', lost')
    BY <1>1, <2>1, <2>3 DEF Good, Ptr
  <2>5. StrInv'
    BY <2>1, <2>3, <2>4 DEF StrInv
  <2>6. Says
    <3>1. CASE lost
      BY <1>1, <2>1, <3>1 DEF Says, Text
    <3>2. CASE ~lost
      <4>1. Sure(heap, str) /\ Text = At(heap, str.buf, 0, str.len) /\ TB!There /\ Text \in Seq(Bytes) /\ Len(Text) = str.len
        BY <1>1, <3>2, TextThere
      <4>2. Sure(heap', str') /\ Text' = At(heap', str'.buf, 0, str'.len)
        BY <1>1, <2>1, <2>4, <3>2 DEF Sure, Good, Text
      <4>3. \A j \in 1 .. str.len : Text[j] = heap[str.buf][j]
        BY <1>1, <4>1, TextFacts
      <4>4. Text' \in Seq(Bytes) /\ Len(Text') = str.len /\ \A j \in 1 .. str.len : Text'[j] = heap'[str.buf][j]
        <5>1. heap' \in Mem
          BY <2>1, <2>3
        <5>2. LET u == At(heap', str'.buf, 0, str'.len) IN
              u \in Seq(Bytes) /\ Len(u) = str'.len /\ \A j \in 1 .. str'.len : u[j] = heap'[str'.buf][j]
          BY <4>2, <5>1, TextFacts
        <5>. QED  BY <2>1, <4>2, <5>2
      <4>5. str.buf # Null /\ str.len <= Len(heap[str.buf]) /\ Len(heap[str.buf]) \in Nat
        <5>1. str.buf # Null
          BY <1>4 DEF Mapped
        <5>2. str.buf \in Addrs /\ str.cap <= Len(heap[str.buf])
          BY <1>1, <5>1 DEF Good, Ptr
        <5>3. Len(heap[str.buf]) \in Nat
          BY <1>1, <5>2, LenProperties DEF Mem
        <5>. QED  BY <1>1, <5>1, <5>2, <5>3
      <4>6. \A j \in 1 .. Len(heap[str.buf]) : g[str.buf][j] = IF j \in i + 1 .. i + Len(d) THEN d[j - i] ELSE heap[str.buf][j]
        BY <2>2, <4>5 DEF Written
      <4>7. \A j \in 1 .. str.len : Text'[j] = IF j = i + 1 THEN c ELSE Text[j]
        <5>1. ASSUME NEW j \in 1 .. str.len PROVE Text'[j] = IF j = i + 1 THEN c ELSE Text[j]
          <6>1. j \in 1 .. Len(heap[str.buf]) /\ (j \in i + 1 .. i + Len(d) <=> j = i + 1) /\ (j = i + 1 => j - i = 1)
            BY <1>1, <1>2, <4>5
          <6>. QED  BY <1>2, <2>1, <4>3, <4>4, <4>6, <6>1
        <5>. QED  BY <5>1
      <4>8. i + 1 \in 1 .. Len(Text)
        BY <1>1, <4>1
      <4> DEFINE w == [Text EXCEPT ![i + 1] = c]
      <4>9. w \in Seq(Bytes) /\ Len(w) = str.len /\ \A j \in 1 .. str.len : w[j] = IF j = i + 1 THEN c ELSE Text[j]
        BY <1>2, <4>1, <4>8, ExceptSeq
      <4> HIDE DEF w
      <4>10. Text' = w
        <5>1. Len(Text') = Len(w) /\ \A j \in 1 .. Len(Text') : Text'[j] = w[j]
          BY <4>4, <4>7, <4>9
        <5>. QED  BY <4>4, <4>9, <5>1, SeqEqual
      <4>11. TB!Overwrite
        BY <1>2, <4>1, <4>8, <4>10 DEF TB!Overwrite, w
      <4>. QED  BY <4>11 DEF Says, TB!TBNext
    <3>. QED  BY <3>1, <3>2
  <2>7. objects' = objects + There(str') - There(str)
    BY <2>1 DEF There, StrInv
  <2>. QED  BY <2>1, <2>5, <2>6, <2>7 DEF Step
<1>. QED  BY <1>3, <1>4

(***************************************************************************)
(* A string of capacity 0 has no room for a byte, and none is made.        *)
(***************************************************************************)
LEMMA NoRoomStep ==
  ASSUME StrInv, fate \in Fates, str # None, str.cap = 0, NEW r \in Reserved(0), NEW d, Len(d) = 1, Stored(r, d)
  PROVE  Step
<1>1. r.heap = heap /\ r.str = str /\ r.err = OK
  BY DEF Reserved
<1>2. str.buf = Null
  BY DEF StrInv, Good
<1>3. ~Mapped(r.heap, r.str.buf, r.str.len, Len(d))
  BY <1>1, <1>2 DEF Mapped
<1>. QED  BY <1>1, <1>3, NoStep DEF Stored, Stray, Fates

(***************************************************************************)
(* s_push, which doubles a full string.                                    *)
(***************************************************************************)
LEMMA PushStep ==
  ASSUME StrInv, fate \in Fates, NEW c \in Chars, SPush(c)
  PROVE  Step
<1> DEFINE d == <<c>>
           cap == str.cap + (IF str.len = str.cap THEN str.len ELSE 0)
<1>1. str # None /\ str.len \in Nat /\ str.cap \in Nat /\ str.len <= str.cap
  BY DEF SPush, StrInv, Good, Str
<1>2. d \in Seq(Bytes) /\ Len(d) = 1 /\ d \in Data
  BY DEF Bytes, Data
<1>3. PICK r \in Reserved(cap) : Stored(r, d)
  BY DEF SPush, Pushed
<1> HIDE DEF d
<1>4. CASE str.cap = 0
  <2>1. cap = 0
    BY <1>1, <1>4
  <2> HIDE DEF cap
  <2>. QED  BY <1>1, <1>2, <1>3, <1>4, <2>1, NoRoomStep
<1>5. CASE str.cap # 0
  <2>1. cap \in Nat /\ str.len + Len(d) <= cap
    BY <1>1, <1>2, <1>5
  <2> HIDE DEF cap
  <2>. QED  BY <1>1, <1>2, <1>3, <2>1, StoredStep
<1>. QED  BY <1>4, <1>5

(***************************************************************************)
(* s_append of bytes that are not the string's own.                        *)
(***************************************************************************)
LEMMA AppendStep ==
  ASSUME StrInv, fate \in Fates, NEW d \in Texts, SAppend(d)
  PROVE  Step /\ Longer(d)
<1> DEFINE cap == str.cap + GrowBy(Len(d))
<1>1. str # None /\ str.len \in Nat /\ str.cap \in Nat /\ str.len <= str.cap
  BY DEF SAppend, StrInv, Good, Str
<1>2. d \in Seq(Bytes) /\ Len(d) \in Nat /\ d \in Data
  BY TextsAssumption, LenProperties DEF Data
<1>3. CASE Over(Len(d)) > 0 /\ str.cap = 0
  <2>1. Hang
    BY <1>3 DEF SAppend
  <2>2. Longer(d)
    BY <1>1, <2>1 DEF Hang, Text, Longer
  <2>. QED  BY <2>1, <2>2, NoStep DEF Hang, Fates
<1>4. CASE ~(Over(Len(d)) > 0 /\ str.cap = 0)
  <2>1. PICK r \in Reserved(cap) : Stored(r, d)
    BY <1>4 DEF SAppend
  <2>2. cap \in Nat /\ str.len + Len(d) <= cap
    <3> DEFINE n == Len(d)
    <3>1. n \in Nat /\ (Over(n) > 0 => str.cap # 0)
      BY <1>2, <1>4
    <3> HIDE DEF n
    <3>2. GrowBy(n) \in Nat /\ str.len + n <= str.cap + GrowBy(n)
      BY <1>1, <3>1, GrowByFacts
    <3>. QED  BY <1>1, <3>2 DEF n
  <2> HIDE DEF cap
  <2>. QED  BY <1>1, <1>2, <2>1, <2>2, StoredStep
<1>. QED  BY <1>3, <1>4

(***************************************************************************)
(* s_sappend of a string to itself: what it reads is the text, or it has   *)
(* strayed into the buffer the growth has freed.                           *)
(***************************************************************************)
LEMMA AppendSelfStep ==
  ASSUME StrInv, fate \in Fates, SAppendSelf
  PROVE  Step
<1> DEFINE cap == str.cap + GrowBy(str.len)
<1>1. /\ str # None /\ Good(heap, str, lost) /\ heap \in Mem /\ str.buf \in Ptr
      /\ str.len \in Nat /\ str.cap \in Nat /\ str.len <= str.cap
  BY DEF SAppendSelf, StrInv, Good, Str
<1>2. cap \in Nat /\ str.len + str.len <= cap
  <2>1. Over(str.len) > 0 => str.cap # 0
    BY <1>1 DEF Over
  <2>. QED  BY <1>1, <2>1, GrowByFacts
<1>3. PICK r \in Reserved(cap) :
         IF r.err = OK /\ ~Mapped(r.heap, str.buf, 0, str.len) THEN Stray
         ELSE Stored(r, IF r.err = OK THEN At(r.heap, str.buf, 0, str.len) ELSE <<>>)
  BY DEF SAppendSelf
<1> HIDE DEF cap
<1>4. Fits(r, cap)
  BY <1>1, <1>2, ReservedFacts
<1>5. CASE r.err = OK /\ ~Mapped(r.heap, str.buf, 0, str.len)
  BY <1>3, <1>5, NoStep DEF Stray, Fates
<1>6. CASE r.err # OK
  BY <1>1, <1>2, <1>3, <1>6, ReserveStep DEF Stored
<1>7. CASE r.err = OK /\ Mapped(r.heap, str.buf, 0, str.len)
  <2> DEFINE d == At(r.heap, str.buf, 0, str.len)
  <2>1. Stored(r, d)
    BY <1>3, <1>7
  <2>2. r.heap \in Mem
    BY <1>4 DEF Fits
  <2>3. d \in Seq(Bytes) /\ Len(d) = str.len /\ \A i \in 1 .. str.len : d[i] = r.heap[str.buf][0 + i]
    BY <1>1, <1>7, <2>2, AtFacts
  <2>4. \A i \in 1 .. str.len : d[i] = r.heap[str.buf][i]
    BY <1>1, <2>3
  <2> HIDE DEF d
  <2>5. ASSUME ~lost PROVE d = Text
    <3>1. Text \in Seq(Bytes) /\ Len(Text) = str.len /\ \A i \in 1 .. str.len : Text[i] = heap[str.buf][i]
      <4>1. Sure(heap, str) /\ Text = At(heap, str.buf, 0, str.len)
        BY <1>1, <2>5, TextThere
      <4>. QED  BY <1>1, <4>1, TextFacts
    <3>2. ASSUME NEW i \in 1 .. str.len PROVE r.heap[str.buf][i] = heap[str.buf][i]
      <4>1. str.buf \in Addrs /\ str.len <= Len(r.heap[str.buf])
        BY <1>1, <1>7 DEF Mapped, Ptr
      <4>2. r.heap[str.buf] # <<>>
        BY <1>1, <4>1, EmptySeq
      <4>3. str.buf = r.str.buf
        BY <1>4, <4>1, <4>2 DEF Fits
      <4>4. r.str.len = str.len
        BY <1>1, <1>2, <1>4, <1>7 DEF Fits, Shorter
      <4>. QED  BY <1>4, <1>7, <2>5, <4>3, <4>4 DEF Fits
    <3>. QED  BY <2>3, <2>4, <3>1, <3>2, SeqEqual
  <2>. QED  BY <1>1, <1>2, <2>1, <2>3, <2>5, StoredStep
<1>. QED  BY <1>5, <1>6, <1>7

(***************************************************************************)
(* s_with_capacity, s_new, s_from_cstring: a block of its own, and the     *)
(* text in it.                                                             *)
(***************************************************************************)
LEMMA NewStep ==
  ASSUME StrInv, fate \in Fates, SNew
  PROVE  Step
<1>1. str = None /\ lost' = FALSE /\ copy' = copy /\ fate' = fate
  BY DEF SNew
<1>2. PICK cap \in Nat, d \in Seq(Bytes) : New(cap, d) /\ Len(d) <= cap /\ d \in Data
  <2>1. CASE \E cap \in 0 .. DefaultCap : New(cap, <<>>)
    <3>1. PICK cap \in 0 .. DefaultCap : New(cap, <<>>)
      BY <2>1
    <3>2. <<>> \in Seq(Bytes) /\ Len(<<>>) = 0 /\ <<>> \in Data
      BY DEF Data
    <3>3. cap \in Nat /\ 0 <= cap
      BY CapsAssumption
    <3>. QED  BY <3>1, <3>2, <3>3
  <2>2. CASE \E d \in Texts : New(Len(d), d)
    <3>1. PICK d \in Texts : New(Len(d), d)
      BY <2>2
    <3>2. d \in Seq(Bytes) /\ Len(d) \in Nat /\ d \in Data /\ Len(d) <= Len(d)
      BY TextsAssumption, LenProperties DEF Data
    <3>. QED  BY <3>1, <3>2
  <2>. QED  BY <2>1, <2>2 DEF SNew
<1>3. PICK r \in Alloc(heap, cap) :
         /\ r.err = OK
         /\ heap' = Put(r.heap, r.at, 0, d)
         /\ str' = [buf |-> r.at, len |-> Len(d), cap |-> cap]
         /\ objects' = objects + 1
  BY <1>2 DEF New
<1>4. heap \in Mem /\ Len(d) \in Nat
  BY LenProperties DEF StrInv
<1>5. Beside(r, heap, Null) /\ Roomy(r, cap) /\ (r.at # Null => heap[r.at] = <<>>)
  BY <1>4, AllocFacts
<1>6. r.heap \in Mem /\ r.at \in Ptr /\ (cap = 0 => r.at = Null) /\ (cap # 0 => r.at \in Addrs /\ r.at # Null /\ cap <= Len(r.heap[r.at]))
  <2>1. \A b \in Addrs : b # Null
    BY AddrsAssumption DEF Null
  <2>. QED  BY <1>3, <1>5, <2>1 DEF Beside, Roomy
<1>7. Written(heap', r.heap, r.at, 0, d)
  <2>1. Mapped(r.heap, r.at, 0, Len(d))
    <3>1. CASE cap = 0
      BY <1>2, <1>4, <3>1 DEF Mapped
    <3>2. CASE cap # 0
      <4>1. Len(r.heap[r.at]) \in Nat
        BY <1>6, <3>2, LenProperties DEF Mem
      <4>. QED  BY <1>2, <1>4, <1>6, <3>2, <4>1 DEF Mapped
    <3>. QED  BY <3>1, <3>2
  <2>2. Written(Put(r.heap, r.at, 0, d), r.heap, r.at, 0, d)
    BY <1>6, <2>1, PutFacts
  <2>. QED  BY <1>3, <2>2
<1>8. heap' \in Mem /\ \A b \in Addrs : Len(heap'[b]) = Len(r.heap[b]) /\ (heap'[b] # <<>> <=> r.heap[b] # <<>>)
  BY <1>7 DEF Written
<1>9. str' \in Str /\ str' # None /\ str'.buf = r.at /\ str'.len = Len(d) /\ str'.cap = cap
  BY <1>3, <1>4, <1>6, Something DEF Str
<1>10. \A b \in Addrs : heap'[b] # <<>> <=> (b = r.at \/ heap[b] # <<>>)
  <2>1. \A b \in Addrs : b # Null
    BY AddrsAssumption DEF Null
  <2>. QED  BY <1>5, <1>8, <2>1 DEF Beside
<1>11. Good(heap', str', FALSE) /\ Good(heap', str', lost')
  <2>1. r.at # Null => heap'[r.at] # <<>> /\ cap <= Len(heap'[r.at])
    BY <1>6, <1>8, <1>10 DEF Ptr
  <2>. QED  BY <1>2, <1>6, <1>9, <2>1 DEF Good
<1>12. StrInv'
  <2>1. \A b \in Addrs : heap'[b] # <<>> <=> ((str' # None /\ b = str'.buf) \/ b = copy')
    BY <1>1, <1>9, <1>10 DEF StrInv
  <2>2. copy' # None /\ str'.buf = copy' => copy' = Null
    <3>1. ASSUME copy \in Addrs, r.at = copy PROVE FALSE
      <4>1. heap[copy] # <<>> /\ copy # Null
        BY <3>1, AddrsAssumption DEF StrInv, Null
      <4>. QED  BY <1>5, <3>1, <4>1
    <3>. QED  BY <1>1, <1>9, <3>1 DEF StrInv, Ptr
  <2>3. objects' \in Nat /\ copy' \in Ptr \cup {None}
    BY <1>1, <1>3 DEF StrInv
  <2>4. lost' \in BOOLEAN
    BY <1>1
  <2>. QED  BY <1>8, <1>11, <2>1, <2>2, <2>3, <2>4 DEF StrInv
<1>13. Says
  <2>1. Text = None
    BY <1>1 DEF Text
  <2>2. Text' = At(heap', str'.buf, 0, str'.len)
    BY <1>1, <1>9 DEF Text
  <2>3. Sure(heap', str')
    BY <1>11 DEF Sure
  <2> DEFINE u == At(heap', str'.buf, 0, str'.len)
  <2>4. u \in Seq(Bytes) /\ Len(u) = Len(d) /\ \A i \in 1 .. Len(d) : u[i] = heap'[r.at][i]
    <3>1. LET v == At(heap', str'.buf, 0, str'.len) IN
          v \in Seq(Bytes) /\ Len(v) = str'.len /\ \A i \in 1 .. str'.len : v[i] = heap'[str'.buf][i]
      BY <1>8, <2>3, TextFacts
    <3>. QED  BY <1>9, <3>1
  <2>5. \A i \in 1 .. Len(d) : heap'[r.at][i] = d[i]
    <3>1. ASSUME NEW i \in 1 .. Len(d) PROVE heap'[r.at][i] = d[i]
      <4>1. cap # 0
        BY <1>2, <1>4, <3>1
      <4>2. Len(r.heap[r.at]) \in Nat
        BY <1>6, <4>1, LenProperties DEF Mem
      <4>3. i \in 1 .. Len(r.heap[r.at]) /\ i \in 0 + 1 .. 0 + Len(d) /\ i - 0 = i /\ r.at # Null
        BY <1>2, <1>4, <1>6, <4>1, <4>2
      <4>. QED  BY <1>7, <4>3 DEF Written
    <3>. QED  BY <3>1
  <2> HIDE DEF u
  <2>6. u = d
    BY <2>4, <2>5, SeqEqual
  <2>7. Text' = d
    BY <2>2, <2>6 DEF u
  <2>. QED  BY <1>2, <2>1, <2>7 DEF Says, TB!TBNext, TB!Create, Data
<1>14. objects' = objects + There(str') - There(str)
  BY <1>1, <1>3, <1>9 DEF There, StrInv
<1>. QED  BY <1>1, <1>12, <1>13, <1>14 DEF Step

-----------------------------------------------------------------------------
(***************************************************************************)
(* What happens to other blocks does not matter to the string.             *)
(***************************************************************************)
LEMMA Untouched ==
  ASSUME StrInv, str' = str, lost' = lost, heap' \in Mem,
         \A b \in Addrs : heap[b] # <<>> /\ b # copy => heap'[b] = heap[b]
  PROVE  Text' = Text /\ (str' # None => Good(heap', str', lost'))
<1>1. CASE str = None
  BY <1>1 DEF Text
<1>2. CASE str # None
  <2>1. Good(heap, str, lost) /\ str.buf \in Ptr /\ str.len \in Nat /\ str.cap \in Nat /\ str.len <= str.cap
    BY <1>2 DEF StrInv, Good, Str
  <2>2. str.buf # Null => heap'[str.buf] = heap[str.buf]
    <3>1. str.buf # Null => str.buf \in Addrs /\ heap[str.buf] # <<>>
      BY <2>1 DEF Good, Ptr
    <3>2. str.buf # Null => str.buf # copy
      <4>1. copy \in Ptr => copy # None
        BY Something
      <4>2. str.buf # None
        BY <2>1, Something
      <4>. QED  BY <1>2, <4>1, <4>2 DEF StrInv
    <3>. QED  BY <3>1, <3>2
  <2>3. Good(heap', str', lost')
    BY <2>1, <2>2 DEF Good
  <2>4. At(heap', str'.buf, 0, str'.len) = At(heap, str.buf, 0, str.len) \/ lost
    <3>1. CASE str.buf # Null
      BY <2>2, <3>1 DEF At
    <3>2. CASE str.buf = Null
      <4>1. lost \/ str.len = 0
        BY <2>1, <3>2 DEF Good
      <4>. QED  BY <4>1 DEF At
    <3>. QED  BY <3>1, <3>2
  <2>5. Text = IF lost THEN Lost ELSE At(heap, str.buf, 0, str.len)
    BY <1>2 DEF Text
  <2>6. Text' = IF lost' THEN Lost ELSE At(heap', str'.buf, 0, str'.len)
    BY <1>2 DEF Text
  <2>7. Text' = Text
    <3>1. lost \in BOOLEAN /\ (lost' <=> lost)
      BY DEF StrInv
    <3>2. CASE lost
      BY <2>5, <2>6, <3>1, <3>2
    <3>3. CASE ~lost
      BY <2>4, <2>5, <2>6, <3>1, <3>3
    <3>. QED  BY <3>2, <3>3
  <2>. QED  BY <2>3, <2>7
<1>. QED  BY <1>1, <1>2

(***************************************************************************)
(* A copy, of the string or of what a view sees, has a block of its own,   *)
(* or there is none.                                                       *)
(***************************************************************************)
LEMMA DuplicateFacts ==
  ASSUME StrInv, fate \in Fates, NEW a \in Ptr, NEW off \in Nat, NEW n \in Nat, NEW z \in {0, 1}, NEW o,
         objects + o \in Nat, Duplicate(a, off, n, z, o)
  PROVE  StrInv' /\ fate' \in Fates /\ Text' = Text /\ str' = str /\ lost' = lost /\ objects' = objects + o
<1>1. copy = None /\ objects' = objects + o /\ str' = str /\ lost' = lost /\ heap \in Mem
  BY DEF Duplicate, StrInv
<1>2. PICK r \in Alloc(heap, n + z) :
         IF r.err # OK THEN UNCHANGED <<heap, copy, fate>>
         ELSE IF ~Mapped(heap, a, off, n) THEN fate' = "strays" /\ UNCHANGED <<heap, copy>>
         ELSE /\ heap' = Put(r.heap, r.at, 0, At(heap, a, off, n))
              /\ copy' = r.at /\ UNCHANGED fate
  BY DEF Duplicate
<1>3. CASE UNCHANGED <<heap, copy>>
  <2>1. fate' \in Fates
    <3>1. copy # r.at
      <4>1. r.at \in Ptr
        BY <1>1, AllocFacts DEF Beside
      <4>. QED  BY <1>1, <4>1, Something
    <3>. QED  BY <1>2, <1>3, <3>1 DEF Fates
  <2>2. StrInv'
    BY <1>1, <1>3 DEF StrInv
  <2>3. Text' = Text
    BY <1>1, <1>3 DEF Text
  <2>. QED  BY <1>1, <2>1, <2>2, <2>3
<1>4. CASE r.err = OK /\ Mapped(heap, a, off, n)
  <2> DEFINE d == At(heap, a, off, n)
             m == n + z
  <2>1. d \in Seq(Bytes) /\ Len(d) = n
    BY <1>1, <1>4, AtFacts
  <2>2. heap' = Put(r.heap, r.at, 0, d) /\ copy' = r.at /\ fate' = fate
    BY <1>2, <1>4
  <2> HIDE DEF d
  <2>3. m \in Nat /\ n <= m
    OBVIOUS
  <2>4. Beside(r, heap, Null) /\ Roomy(r, m) /\ (r.at # Null => heap[r.at] = <<>>)
    BY <1>1, <2>3, AllocFacts
  <2> HIDE DEF m
  <2>5. \A b \in Addrs : b # Null
    BY AddrsAssumption DEF Null
  <2>6. r.heap \in Mem /\ r.at \in Ptr /\ Mapped(r.heap, r.at, 0, n)
    <3>1. r.heap \in Mem /\ r.at \in Ptr
      BY <2>4 DEF Beside
    <3>2. CASE m = 0
      BY <2>3, <3>1, <3>2 DEF Mapped
    <3>3. CASE m # 0
      <4>1. r.at \in Addrs /\ m <= Len(r.heap[r.at])
        BY <1>4, <2>4, <3>3 DEF Roomy
      <4>2. Len(r.heap[r.at]) \in Nat
        BY <3>1, <4>1, LenProperties DEF Mem
      <4>. QED  BY <2>3, <2>5, <3>1, <4>1, <4>2 DEF Mapped
    <3>. QED  BY <3>1, <3>2, <3>3
  <2>7. Written(heap', r.heap, r.at, 0, d)
    <3>1. Written(Put(r.heap, r.at, 0, d), r.heap, r.at, 0, d)
      BY <2>1, <2>6, PutFacts
    <3>. QED  BY <2>2, <3>1
  <2>8. heap' \in Mem /\ \A b \in Addrs : heap'[b] # <<>> <=> (b = r.at \/ heap[b] # <<>>)
    BY <2>4, <2>5, <2>7 DEF Beside, Written
  <2>9. \A b \in Addrs : heap[b] # <<>> => b # r.at /\ heap'[b] = heap[b]
    BY <2>4, <2>5, <2>7 DEF Beside, Written
  <2>10. Text' = Text /\ (str' # None => Good(heap', str', lost'))
    BY <1>1, <2>8, <2>9, Untouched
  <2>11. \A b \in Addrs : heap'[b] # <<>> <=> ((str' # None /\ b = str'.buf) \/ b = copy')
    <3>1. \A b \in Addrs : b # None
      BY Something DEF Ptr
    <3>. QED  BY <1>1, <2>2, <2>8, <3>1 DEF StrInv
  <2>12. str' # None /\ copy' # None /\ str'.buf = copy' => copy' = Null
    <3>1. str # None /\ str.buf # Null => str.buf \in Addrs /\ heap[str.buf] # <<>>
      BY DEF StrInv, Good, Str, Ptr
    <3>. QED  BY <1>1, <2>2, <2>9, <3>1
  <2>13. StrInv'
    <3>1. copy' \in Ptr \cup {None} /\ objects' \in Nat /\ lost' \in BOOLEAN
      BY <1>1, <2>2, <2>6 DEF StrInv
    <3>. QED  BY <2>8, <2>10, <2>11, <2>12, <3>1 DEF StrInv
  <2>. QED  BY <1>1, <2>2, <2>10, <2>13
<1>. QED  BY <1>2, <1>3, <1>4

(***************************************************************************)
(* s_cstr and s_copy.                                                      *)
(***************************************************************************)
LEMMA CopyStep ==
  ASSUME StrInv, fate \in Fates, SCopy
  PROVE  Step
<1>1. str # None /\ str.buf \in Ptr /\ str.len \in Nat /\ objects \in Nat /\ 0 \in Nat /\ objects + 0 \in Nat
  BY DEF SCopy, StrInv, Good, Str
<1>2. PICK z \in {0, 1} : Duplicate(str.buf, 0, str.len, z, 0)
  BY DEF SCopy
<1>3. StrInv' /\ fate' \in Fates /\ Text' = Text /\ str' = str /\ objects' = objects + 0
  BY <1>1, <1>2, DuplicateFacts
<1>. QED  BY <1>1, <1>3 DEF Step, Says, There

(***************************************************************************)
(* free of a copy.                                                         *)
(***************************************************************************)
LEMMA DropStep ==
  ASSUME StrInv, fate \in Fates, DropCopy
  PROVE  Step
<1>1. /\ copy \in Ptr /\ heap' = Freed(heap, copy) /\ copy' = None /\ heap \in Mem
      /\ str' = str /\ objects' = objects /\ lost' = lost /\ fate' = fate
  BY DEF DropCopy, StrInv
<1>2. heap' \in Mem /\ \A b \in Addrs : heap'[b] = IF b = copy THEN <<>> ELSE heap[b]
  BY <1>1, FreedFacts
<1>3. Text' = Text /\ (str' # None => Good(heap', str', lost'))
  BY <1>1, <1>2, Untouched
<1>4. \A b \in Addrs : b # None /\ b # Null
  BY Something, AddrsAssumption DEF Ptr, Null
<1>5. \A b \in Addrs : str # None /\ b = str.buf => b # copy
  <2>1. copy # None
    BY <1>1, Something
  <2>. QED  BY <1>4, <2>1 DEF StrInv
<1>6. \A b \in Addrs : heap'[b] # <<>> <=> ((str' # None /\ b = str'.buf) \/ b = copy')
  BY <1>1, <1>2, <1>4, <1>5 DEF StrInv
<1>7. StrInv'
  BY <1>1, <1>2, <1>3, <1>6 DEF StrInv
<1>. QED  BY <1>1, <1>3, <1>7 DEF Step, Says, There, StrInv

(***************************************************************************)
(* s_free.                                                                 *)
(***************************************************************************)
LEMMA FreeStep ==
  ASSUME StrInv, fate \in Fates, SFree, objects - 1 \in Nat
  PROVE  Step
<1>1. /\ str # None /\ str.buf \in Ptr /\ heap' = Freed(heap, str.buf) /\ str' = None /\ heap \in Mem
      /\ objects' = objects - 1 /\ copy' = copy /\ lost' = lost /\ fate' = fate
  BY DEF SFree, StrInv, Good, Str
<1>2. heap' \in Mem /\ \A b \in Addrs : heap'[b] = IF b = str.buf THEN <<>> ELSE heap[b]
  BY <1>1, FreedFacts
<1>3. \A b \in Addrs : b # None /\ b # Null
  BY Something, AddrsAssumption DEF Ptr, Null
<1>4. \A b \in Addrs : heap'[b] # <<>> <=> b = copy'
  BY <1>1, <1>2, <1>3 DEF StrInv
<1>5. StrInv'
  BY <1>1, <1>2, <1>4 DEF StrInv
<1>6. Text' = None /\ Text # None
  <2>1. str # None /\ lost => Text = Lost
    BY DEF Text
  <2>2. ~lost => Text \in Seq(Bytes)
    BY <1>1, TextThere
  <2>. QED  BY <1>1, <2>1, <2>2, Something DEF Text
<1>7. Says
  BY <1>6 DEF Says, TB!TBNext, TB!Drop
<1>. QED  BY <1>1, <1>5, <1>7 DEF Step, There, StrInv

(***************************************************************************)
(* s_to_cstr: the string's block becomes the cstring's.                    *)
(***************************************************************************)
LEMMA ToCstrStep ==
  ASSUME StrInv, fate \in Fates, SToCstr, objects - 1 \in Nat
  PROVE  Step
<1> DEFINE cap == str.cap + (IF str.len = str.cap THEN str.len ELSE 0)
           d == <<0>>
<1>1. /\ str # None /\ copy = None /\ Good(heap, str, lost) /\ heap \in Mem /\ lost \in BOOLEAN
      /\ str.buf \in Ptr /\ str.len \in Nat /\ str.cap \in Nat /\ cap \in Nat
  BY DEF SToCstr, StrInv, Good, Str
<1>2. d \in Seq(Bytes) /\ Len(d) = 1
  BY DEF Bytes
<1>3. PICK r \in Reserved(cap) :
         IF r.err # OK \/ ~Mapped(r.heap, r.str.buf, r.str.len, 1) THEN Stored(r, d)
         ELSE /\ heap' = Put(r.heap, r.str.buf, r.str.len, d)
              /\ copy' = r.str.buf
              /\ str' = None /\ objects' = objects - 1
              /\ UNCHANGED <<lost, fate>>
  BY DEF SToCstr
<1> HIDE DEF cap, d
<1>4. CASE r.err # OK
  BY <1>1, <1>3, <1>4, ReserveStep DEF Stored
<1>5. CASE r.err = OK /\ ~Mapped(r.heap, r.str.buf, r.str.len, 1)
  BY <1>2, <1>3, <1>5, NoStep DEF Stored, Stray, Fates
<1>6. CASE r.err = OK /\ Mapped(r.heap, r.str.buf, r.str.len, 1)
  <2>1. /\ heap' = Put(r.heap, r.str.buf, r.str.len, d) /\ copy' = r.str.buf
        /\ str' = None /\ objects' = objects - 1 /\ lost' = lost /\ fate' = fate
    BY <1>3, <1>6
  <2>2. Fits(r, cap)
    BY <1>1, ReservedFacts
  <2>3. r.heap \in Mem /\ r.str.buf \in Ptr /\ r.str.len \in Nat
    BY <2>2 DEF Fits, Good, Str
  <2>4. Written(heap', r.heap, r.str.buf, r.str.len, d)
    <3>1. Mapped(r.heap, r.str.buf, r.str.len, Len(d))
      BY <1>2, <1>6
    <3>2. Written(Put(r.heap, r.str.buf, r.str.len, d), r.heap, r.str.buf, r.str.len, d)
      BY <1>2, <2>3, <3>1, PutFacts
    <3>. QED  BY <2>1, <3>2
  <2>5. heap' \in Mem /\ \A b \in Addrs : heap'[b] # <<>> <=> r.heap[b] # <<>>
    BY <2>4 DEF Written
  <2>6. \A b \in Addrs : heap'[b] # <<>> <=> b = copy'
    <3>1. \A b \in Addrs : b # None
      BY Something DEF Ptr
    <3>2. ASSUME NEW b \in Addrs PROVE heap'[b] # <<>> <=> b = copy'
      <4>1. heap[b] # <<>> <=> ((str # None /\ b = str.buf) \/ b = copy)
        BY DEF StrInv
      <4>2. heap[b] # <<>> <=> b = str.buf
        BY <1>1, <3>1, <4>1
      <4>3. r.heap[b] # <<>> <=> (b = r.str.buf \/ (b # str.buf /\ heap[b] # <<>>))
        BY <2>2 DEF Fits
      <4>. QED  BY <2>1, <2>5, <4>2, <4>3
    <3>. QED  BY <3>2
  <2>7. StrInv'
    BY <1>1, <2>1, <2>3, <2>5, <2>6 DEF StrInv
  <2>8. Text' = None /\ Text # None
    <3>1. lost => Text = Lost
      BY <1>1 DEF Text
    <3>2. ~lost => Text \in Seq(Bytes)
      BY <1>1, TextThere
    <3>. QED  BY <2>1, <3>1, <3>2, Something DEF Text
  <2>9. Says
    BY <2>8 DEF Says, TB!TBNext, TB!Drop
  <2>10. objects' = objects + There(str') - There(str)
    BY <1>1, <2>1 DEF There, StrInv
  <2>. QED  BY <2>1, <2>7, <2>9, <2>10 DEF Step
<1>. QED  BY <1>4, <1>5, <1>6

(***************************************************************************)
(* Every operation of the string.                                          *)
(***************************************************************************)
LEMMA StringCallStep ==
  ASSUME StrInv, fate \in Fates, objects - There(str) \in Nat, StringCall
  PROVE  Step
<1>1. str # None => objects - 1 \in Nat
  BY DEF There
<1>2. ASSUME SReserve PROVE Step
  <2>1. PICK cap \in 0 .. MaxCap : \E r \in Reserved(cap) : Take(r)
    BY <1>2 DEF SReserve
  <2>2. str # None /\ cap \in Nat
    BY <1>2, CapsAssumption DEF SReserve
  <2>. QED  BY <2>1, <2>2, ReserveStep
<1>3. ASSUME SShrink PROVE Step
  <2>1. PICK k \in 1 .. str.len : str' = [str EXCEPT !.len = str.len - k]
    BY <1>3 DEF SShrink
  <2>2. str # None /\ str.len \in Nat /\ lost \in BOOLEAN /\ UNCHANGED <<heap, copy, objects, lost, fate>>
    BY <1>3 DEF SShrink, StrInv, Good, Str
  <2> DEFINE m == str.len - k
  <2>3. m \in 0 .. str.len /\ str' = [str EXCEPT !.len = m]
    BY <2>1, <2>2
  <2>4. (lost' <=> lost) /\ lost' \in BOOLEAN /\ fate' \in Fates
    BY <2>2
  <2> HIDE DEF m
  <2>. QED  BY <2>2, <2>3, <2>4, LengthStep
<1>4. ASSUME SClear PROVE Step
  <2>1. str # None /\ str.len \in Nat /\ lost \in BOOLEAN /\ UNCHANGED <<heap, copy, objects, fate>>
    BY <1>4 DEF SClear, Take, StrInv, Good, Str
  <2>2. str' = [str EXCEPT !.len = 0] /\ 0 \in 0 .. str.len
    BY <1>4, <2>1 DEF SClear, Take
  <2>3. lost' <=> lost
    BY <1>4, <2>1 DEF SClear, Take
  <2>4. lost' \in BOOLEAN
    BY <1>4 DEF SClear, Take
  <2>. QED  BY <2>1, <2>2, <2>3, <2>4, LengthStep
<1>5. ASSUME NEW i \in 0 .. MaxCap, NEW c \in Chars, SSet(i, c) PROVE Step
  <2>1. i \in Nat
    BY CapsAssumption
  <2>. QED  BY <1>5, <2>1, SetStep
<1>6. SFree \/ SToCstr => str # None
  BY DEF SFree, SToCstr
<1>. QED  BY <1>1, <1>2, <1>3, <1>4, <1>5, <1>6, NewStep, FreeStep, PushStep, AppendStep, AppendSelfStep,
             CopyStep, ToCstrStep, DropStep DEF StringCall

-----------------------------------------------------------------------------
\* A file that still says what the text begins with.
Following ==
    file # None /\ file.follows =>
        /\ file.kind # "view" /\ ~lost /\ file.pos <= str.len
        /\ file.seen = At(heap, str.buf, 0, file.pos)

\* Of views and files, and who has the objects.
FilesInv ==
    /\ view # None => view \in Views /\ view.buf \in Ptr
    /\ file # None => file \in Files /\ (file.kind = "view" => view # None)
    /\ str = None => view = None /\ file = None
    /\ objects = There(str) + There(view) + There(file)

IInv == StrInv /\ fate \in Fates /\ FilesInv /\ Following

\* What is proved of a step.
Kept == IInv' /\ Says

(***************************************************************************)
(* A string that is not lost has all of its text in mapped memory.         *)
(***************************************************************************)
LEMMA SureMapped ==
  ASSUME NEW h \in Mem, NEW s, Sure(h, s), NEW m \in Nat, NEW n \in Nat, m + n <= s.cap
  PROVE  Mapped(h, s.buf, m, n)
<1>1. s.buf \in Ptr /\ s.cap \in Nat /\ (s.buf = Null => s.cap = 0) /\ (s.buf # Null => s.cap <= Len(h[s.buf]))
  BY DEF Sure, Good, Str
<1>2. CASE n = 0
  BY <1>2 DEF Mapped
<1>3. CASE n # 0
  <2>1. s.buf # Null /\ s.buf \in Addrs
    BY <1>1, <1>3 DEF Ptr
  <2>2. Len(h[s.buf]) \in Nat
    BY <2>1, LenProperties DEF Mem
  <2>. QED  BY <1>1, <2>1, <2>2 DEF Mapped
<1>. QED  BY <1>2, <1>3

(***************************************************************************)
(* Blocks with the same bytes in front read the same there.                *)
(***************************************************************************)
LEMMA SameFront ==
  ASSUME NEW h \in Mem, NEW a \in Ptr, NEW g \in Mem, NEW b \in Ptr, NEW m \in Nat,
         Mapped(h, a, 0, m), Mapped(g, b, 0, m), \A i \in 1 .. m : g[b][i] = h[a][i]
  PROVE  At(g, b, 0, m) = At(h, a, 0, m)
<1> DEFINE u == At(h, a, 0, m)
           v == At(g, b, 0, m)
<1>1. u \in Seq(Bytes) /\ Len(u) = m /\ \A i \in 1 .. m : u[i] = h[a][0 + i]
  BY AtFacts
<1>2. v \in Seq(Bytes) /\ Len(v) = m /\ \A i \in 1 .. m : v[i] = g[b][0 + i]
  BY AtFacts
<1> HIDE DEF u, v
<1>3. ASSUME NEW i \in 1 .. m PROVE v[i] = u[i]
  <2>1. 0 + i = i
    OBVIOUS
  <2>. QED  BY <1>1, <1>2, <2>1
<1>4. u = v
  BY <1>1, <1>2, <1>3, SeqEqual
<1>. QED  BY <1>4 DEF u, v

(***************************************************************************)
(* Two pieces one behind the other are one piece.                          *)
(***************************************************************************)
LEMMA AtJoins ==
  ASSUME NEW h \in Mem, NEW a \in Ptr, NEW m \in Nat, NEW n \in Nat,
         Mapped(h, a, 0, m), Mapped(h, a, m, n), Mapped(h, a, 0, m + n)
  PROVE  At(h, a, 0, m) \o At(h, a, m, n) = At(h, a, 0, m + n)
<1> DEFINE u == At(h, a, 0, m)
           v == At(h, a, m, n)
           k == m + n
           w == At(h, a, 0, k)
           x == u \o v
<1>0. k \in Nat
  OBVIOUS
<1>1. u \in Seq(Bytes) /\ Len(u) = m /\ \A i \in 1 .. m : u[i] = h[a][0 + i]
  BY AtFacts
<1>2. v \in Seq(Bytes) /\ Len(v) = n /\ \A i \in 1 .. n : v[i] = h[a][m + i]
  BY AtFacts
<1>3. w \in Seq(Bytes) /\ Len(w) = k /\ \A i \in 1 .. k : w[i] = h[a][0 + i]
  BY <1>0, AtFacts
<1> HIDE DEF u, v, w
<1>4. x \in Seq(Bytes) /\ Len(x) = m + n /\ \A i \in 1 .. m + n : x[i] = IF i <= m THEN u[i] ELSE v[i - m]
  <2>1. /\ x \in Seq(Bytes) /\ Len(x) = Len(u) + Len(v)
        /\ \A i \in 1 .. Len(u) + Len(v) : x[i] = IF i <= Len(u) THEN u[i] ELSE v[i - Len(u)]
    BY <1>1, <1>2, ConcatProperties, ZenonT(30)
  <2>. QED  BY <1>1, <1>2, <2>1
<1> HIDE DEF x
<1>5. ASSUME NEW i \in 1 .. k PROVE x[i] = w[i]
  <2>1. CASE i <= m
    <3>1. i \in 1 .. m /\ i \in 1 .. m + n
      BY <2>1 DEF k
    <3>. QED  BY <1>1, <1>3, <1>4, <2>1, <3>1
  <2>2. CASE ~(i <= m)
    <3> DEFINE j == i - m
    <3>1. j \in 1 .. n /\ m + j = 0 + i /\ i \in 1 .. m + n
      BY <2>2 DEF k
    <3> HIDE DEF j
    <3>2. v[j] = h[a][m + j]
      BY <1>2, <3>1
    <3>. QED  BY <1>3, <1>4, <2>2, <3>1, <3>2 DEF j
  <2>. QED  BY <2>1, <2>2
<1>6. x = w
  BY <1>3, <1>4, <1>5, SeqEqual DEF k
<1>. QED  BY <1>6 DEF u, v, w, x, k

(***************************************************************************)
(* A file goes on following where the string only gets longer.             *)
(***************************************************************************)
LEMMA StillFollows ==
  ASSUME StrInv, StrInv', FilesInv, Following, file # None, file' = file, ~lost', str # None, str' # None,
         str'.len >= str.len, \A i \in 1 .. str.len : heap'[str'.buf][i] = heap[str.buf][i]
  PROVE  Following'
<1>1. SUFFICES ASSUME file.follows PROVE Following'
  BY DEF Following
<1>2. ~lost /\ file.kind # "view" /\ file.pos <= str.len /\ file.seen = At(heap, str.buf, 0, file.pos) /\ file.pos \in Nat
  BY <1>1 DEF Following, FilesInv, Files
<1>3. Sure(heap, str) /\ Sure(heap', str') /\ heap \in Mem /\ heap' \in Mem
  BY <1>2 DEF StrInv, Sure, Good
<1>4. /\ str.buf \in Ptr /\ str.len \in Nat /\ str.cap \in Nat /\ str.len <= str.cap
      /\ str'.buf \in Ptr /\ str'.len \in Nat /\ str'.cap \in Nat /\ str'.len <= str'.cap
  BY <1>3 DEF Sure, Good, Str
<1> DEFINE m == file.pos
<1>5. m \in Nat /\ 0 \in Nat /\ 0 + m <= str.cap /\ 0 + m <= str'.cap
  BY <1>2, <1>4
<1>6. \A i \in 1 .. m : heap'[str'.buf][i] = heap[str.buf][i]
  BY <1>2, <1>4
<1> HIDE DEF m
<1>7. Mapped(heap, str.buf, 0, m) /\ Mapped(heap', str'.buf, 0, m)
  BY <1>3, <1>5, SureMapped
<1>8. At(heap', str'.buf, 0, m) = At(heap, str.buf, 0, m)
  BY <1>3, <1>4, <1>5, <1>6, <1>7, SameFront
<1>. QED  BY <1>2, <1>4, <1>8 DEF Following, m

-----------------------------------------------------------------------------
(***************************************************************************)
(* Views and files are something.                                          *)
(***************************************************************************)
LEMMA ObjectsThere == (\A v \in Views : v # None) /\ (\A f \in Files : f # None) /\ There(None) = 0
BY ObjectsAssumption DEF There

(***************************************************************************)
(* What views and files do keeps the string.                               *)
(***************************************************************************)
LEMMA KeepStep ==
  ASSUME StrInv, Keep, objects' \in Nat
  PROVE  StrInv' /\ Says
<1>1. StrInv'
  BY DEF StrInv, Keep
<1>2. Text' = Text
  BY DEF Text, Keep
<1>. QED  BY <1>1, <1>2 DEF Says

(***************************************************************************)
(* An operation of the string beside a view and a file.                    *)
(***************************************************************************)
LEMMA CallStringStep ==
  ASSUME IInv, CallString
  PROVE  Kept
<1>1. StrInv /\ fate \in Fates /\ FilesInv /\ Following /\ StringCall /\ view' = view
  BY DEF IInv, CallString
<1>2. Step
  <2>1. objects - There(str) \in Nat
    BY <1>1 DEF FilesInv, There
  <2>. QED  BY <1>1, <2>1, StringCallStep
<1>3. file = None => file' = None
  BY DEF CallString
<1>4. file # None => str # None /\ str' # None /\ file \in Files
  BY <1>1 DEF FilesInv, CallString
<1>5. file # None => \/ file' = file /\ ~lost' /\ str'.len >= str.len /\ At(heap', str'.buf, 0, str.len) = Text
                     \/ file' = [file EXCEPT !.follows = FALSE, !.seen = <<>>]
  BY DEF CallString
<1>6. file # None => file' \in Files /\ file'.kind = file.kind
  <2>1. <<>> \in Seq(Bytes) /\ FALSE \in BOOLEAN
    OBVIOUS
  <2>2. ASSUME file # None, file' = [file EXCEPT !.follows = FALSE, !.seen = <<>>]
        PROVE  file' \in Files /\ file'.kind = file.kind
    <3>1. file \in Files
      BY <1>4, <2>2
    <3>. QED  BY <2>1, <2>2, <3>1 DEF Files
  <2>. QED  BY <1>4, <1>5, <2>2
<1>7. FilesInv'
  <2>1. str' = None => view' = None /\ file' = None
    BY <1>1, <1>3 DEF FilesInv, CallString
  <2>2. There(file') = There(file) /\ There(view') = There(view)
    BY <1>1, <1>3, <1>6, ObjectsThere DEF There
  <2>3. objects' = There(str') + There(view') + There(file')
    BY <1>1, <1>2, <2>2 DEF Step, FilesInv, There
  <2>. QED  BY <1>1, <1>3, <1>6, <2>1, <2>3 DEF FilesInv
<1>8. Following'
  <2>1. SUFFICES ASSUME file' # None, file'.follows PROVE Following'
    BY DEF Following
  <2>2. file # None /\ str # None /\ str' # None /\ file \in Files
    BY <1>3, <1>4, <2>1
  <2>3. file' = file /\ ~lost' /\ str'.len >= str.len /\ At(heap', str'.buf, 0, str.len) = Text
    BY <1>5, <2>1, <2>2 DEF Files
  <2>4. StrInv' /\ ~lost
    BY <1>1, <1>2, <2>1, <2>2, <2>3 DEF Step, Following
  <2>5. /\ Sure(heap, str) /\ Text = At(heap, str.buf, 0, str.len) /\ heap \in Mem
        /\ heap' \in Mem /\ Sure(heap', str')
    BY <1>1, <2>2, <2>3, <2>4, TextThere DEF StrInv, Sure, Good
  <2>6. /\ str.buf \in Ptr /\ str.len \in Nat /\ str.cap \in Nat /\ str.len <= str.cap
        /\ str'.buf \in Ptr /\ str'.len \in Nat /\ str'.cap \in Nat /\ str'.len <= str'.cap
    BY <2>5 DEF Sure, Good, Str
  <2> DEFINE n == str.len
             u == At(heap, str.buf, 0, n)
             v == At(heap', str'.buf, 0, n)
  <2>7. n \in Nat /\ 0 \in Nat /\ 0 + n <= str.cap /\ 0 + n <= str'.cap
    BY <2>3, <2>6
  <2>8. u = v
    BY <2>3, <2>5
  <2> HIDE DEF n
  <2>9. Mapped(heap, str.buf, 0, n) /\ Mapped(heap', str'.buf, 0, n)
    BY <2>5, <2>7, SureMapped
  <2>10. \A i \in 1 .. n : u[i] = heap[str.buf][0 + i]
    BY <2>5, <2>6, <2>7, <2>9, AtFacts
  <2>11. \A i \in 1 .. n : v[i] = heap'[str'.buf][0 + i]
    BY <2>5, <2>6, <2>7, <2>9, AtFacts
  <2> HIDE DEF u, v
  <2>12. ASSUME NEW i \in 1 .. str.len PROVE heap'[str'.buf][i] = heap[str.buf][i]
    <3>1. i \in 1 .. n /\ 0 + i = i
      BY DEF n
    <3>. QED  BY <2>8, <2>10, <2>11, <3>1
  <2>. QED  BY <1>1, <2>2, <2>3, <2>4, <2>12, StillFollows
<1>. QED  BY <1>2, <1>7, <1>8 DEF Kept, IInv, Step

(***************************************************************************)
(* Making and freeing a view, moving it and changing its length.           *)
(***************************************************************************)
LEMMA ViewStep ==
  ASSUME IInv, (\E i \in 0 .. MaxCap : SvFromString(i)) \/ SvChange \/ SvFree
  PROVE  Kept
<1>1. StrInv /\ fate \in Fates /\ FilesInv /\ Following /\ MaxCap \in Nat
  BY CapsAssumption DEF IInv
<1>2. Keep /\ file' = file /\ fate' = fate
  BY DEF SvFromString, SvChange, SvFree
<1>3. Following'
  BY <1>1, <1>2 DEF Following, Keep
<1>4. str # None => str.buf \in Ptr /\ str.buf \in Nat /\ str.len \in Nat
  <2>1. Ptr \subseteq Nat
    BY AddrsAssumption DEF Ptr, Null
  <2>. QED  BY <1>1, <2>1 DEF StrInv, Good, Str
<1>5. FilesInv' /\ objects' \in Nat
  <2>1. ASSUME NEW i \in 0 .. MaxCap, SvFromString(i) PROVE FilesInv' /\ objects' \in Nat
    <3>1. str # None /\ view = None /\ i <= str.len /\ view' = [buf |-> str.buf, off |-> i, len |-> str.len - i] /\ objects' = objects + 1
      BY <2>1 DEF SvFromString
    <3>2. view' \in Views /\ view'.buf \in Ptr /\ view' # None
      <4>1. i \in Nat /\ str.len - i \in Nat
        BY <1>1, <1>4, <3>1
      <4>2. view' \in Views /\ view'.buf \in Ptr
        BY <1>4, <3>1, <4>1 DEF Views
      <4>. QED  BY <4>2, ObjectsThere
    <3>. QED  BY <1>1, <1>2, <3>1, <3>2 DEF FilesInv, There, Keep
  <2>2. ASSUME SvChange PROVE FilesInv' /\ objects' \in Nat
    <3>1. view # None /\ str # None /\ objects' = objects /\ view \in Views /\ view.buf \in Ptr
      BY <1>1, <2>2 DEF SvChange, FilesInv
    <3>2. view' \in Views /\ view'.buf \in Ptr
      <4>1. CASE view' = [view EXCEPT !.buf = str.buf, !.off = 0]
        BY <1>4, <3>1, <4>1 DEF Views
      <4>2. CASE \E n \in 0 .. MaxCap : view' = [view EXCEPT !.len = n]
        <5>1. PICK n \in 0 .. MaxCap : view' = [view EXCEPT !.len = n]
          BY <4>2
        <5>2. n \in Nat
          BY <1>1
        <5>. QED  BY <3>1, <5>1, <5>2 DEF Views
      <4>. QED  BY <2>2, <4>1, <4>2 DEF SvChange
    <3>3. view' # None
      BY <3>2, ObjectsThere
    <3>. QED  BY <1>1, <1>2, <3>1, <3>2, <3>3 DEF FilesInv, There, Keep
  <2>3. ASSUME SvFree PROVE FilesInv' /\ objects' \in Nat
    <3>1. view # None /\ file = None /\ view' = None /\ objects' = objects - 1
      BY <2>3 DEF SvFree
    <3>. QED  BY <1>1, <1>2, <3>1 DEF FilesInv, There, Keep
  <2>. QED  BY <2>1, <2>2, <2>3
<1>. QED  BY <1>1, <1>2, <1>3, <1>5, KeepStep DEF Kept, IInv

(***************************************************************************)
(* A string or cstring made from what a view sees.                         *)
(***************************************************************************)
LEMMA SvCopyStep ==
  ASSUME IInv, SvCopy
  PROVE  Kept
<1>1. /\ StrInv /\ fate \in Fates /\ FilesInv /\ Following /\ view # None /\ file' = file /\ objects \in Nat
      /\ view.buf \in Ptr /\ view.off \in Nat /\ view.len \in Nat
  BY DEF IInv, SvCopy, FilesInv, Views, StrInv
<1>2. PICK z \in {0, 1} : \/ Duplicate(view.buf, view.off, view.len, z, 0) /\ view' = view
                          \/ file = None /\ Duplicate(view.buf, view.off, view.len, z, -1) /\ view' = None
  BY DEF SvCopy
<1>3. PICK o \in {0, -1} : /\ Duplicate(view.buf, view.off, view.len, z, o)
                           /\ IF o = 0 THEN view' = view ELSE file = None /\ view' = None
  BY <1>2
<1>4. objects + o \in Nat
  BY <1>1, <1>3 DEF FilesInv, There
<1>5. StrInv' /\ fate' \in Fates /\ Text' = Text /\ str' = str /\ lost' = lost /\ objects' = objects + o
  BY <1>1, <1>3, <1>4, DuplicateFacts
<1>6. FilesInv'
  BY <1>1, <1>3, <1>5 DEF FilesInv, There
<1>7. Following'
  <2>1. SUFFICES ASSUME file # None, file.follows PROVE Following'
    BY <1>1 DEF Following
  <2>2. file.pos \in Nat /\ ~lost /\ file.pos <= str.len /\ str # None
    BY <1>1, <2>1 DEF Following, FilesInv, Files
  <2>3. lost' = FALSE \/ ~lost'
    BY <1>5, <2>2
  <2>4. str.len <= str'.len /\ \A i \in 1 .. str.len : heap'[str'.buf][i] = heap[str.buf][i]
    <3>1. At(heap', str.buf, 0, str.len) = At(heap, str.buf, 0, str.len)
      BY <1>5, <2>2, <2>3 DEF Text
    <3>2. Sure(heap, str) /\ Sure(heap', str) /\ heap \in Mem /\ heap' \in Mem /\ str.len \in Nat
      BY <1>1, <1>5, <2>2, <2>3 DEF StrInv, Sure, Good, Str
    <3> DEFINE u == At(heap, str.buf, 0, str.len)
               v == At(heap', str.buf, 0, str.len)
    <3>3. \A i \in 1 .. str.len : u[i] = heap[str.buf][i]
      BY <3>2, TextFacts
    <3>4. \A i \in 1 .. str.len : v[i] = heap'[str.buf][i]
      BY <3>2, TextFacts
    <3> HIDE DEF u, v
    <3>5. u = v
      BY <3>1 DEF u, v
    <3>. QED  BY <1>5, <3>2, <3>3, <3>4, <3>5
  <2>5. str' # None
    BY <1>5, <2>2
  <2>. QED  BY <1>1, <1>5, <2>1, <2>2, <2>3, <2>4, <2>5, StillFollows
<1>. QED  BY <1>5, <1>6, <1>7 DEF Kept, IInv, Says

(***************************************************************************)
(* s_fprint and sv_fprint read, or stray.                                  *)
(***************************************************************************)
LEMMA FprintStep ==
  ASSUME IInv, SFprint \/ SvFprint
  PROVE  Kept
<1>1. StrInv /\ fate \in Fates /\ FilesInv /\ Following
  BY DEF IInv
<1>2. UNCHANGED <<heap, str, copy, objects, lost, view, file>> /\ fate' \in Fates
  BY <1>1 DEF SFprint, SvFprint, Fprint, Stray, svars, Fates
<1>3. FilesInv' /\ Following' /\ objects' \in Nat
  BY <1>1, <1>2 DEF FilesInv, Following, StrInv
<1>. QED  BY <1>1, <1>2, <1>3, KeepStep DEF Kept, IInv, Keep

(***************************************************************************)
(* Opening a file, which has read nothing, and closing it.                 *)
(***************************************************************************)
LEMMA OpenStep ==
  ASSUME IInv, SfOpen \/ SvfOpen \/ Close
  PROVE  Kept
<1>1. StrInv /\ fate \in Fates /\ FilesInv /\ Following
  BY DEF IInv
<1>2. Keep /\ view' = view /\ fate' = fate
  BY DEF SfOpen, SvfOpen, Close, NewFile
<1>3. ASSUME NEW kind \in {"rw", "ro", "view"}, NEW f \in BOOLEAN, NewFile(kind, f), str # None,
             f => kind # "view" /\ ~lost, kind = "view" => view # None
      PROVE  FilesInv' /\ Following' /\ objects' \in Nat
  <2>1. /\ file = None /\ file' = [kind |-> kind, pos |-> 0, seen |-> <<>>, follows |-> f] /\ objects' = objects + 1
    BY <1>3 DEF NewFile
  <2>2. file' \in Files /\ file'.kind = kind /\ file'.pos = 0 /\ file'.seen = <<>> /\ file'.follows = f
    BY <2>1 DEF Files
  <2>3. file' # None
    BY <2>2, ObjectsThere
  <2>4. FilesInv' /\ objects' \in Nat
    BY <1>1, <1>2, <1>3, <2>1, <2>2, <2>3 DEF FilesInv, There, Keep, StrInv
  <2>5. Following'
    <3>1. str.len \in Nat
      BY <1>1, <1>3 DEF StrInv, Good, Str
    <3>2. At(heap', str'.buf, 0, 0) = <<>>
      BY DEF At
    <3>3. str' = str /\ lost' = lost
      BY <1>2 DEF Keep
    <3>. QED  BY <1>3, <2>2, <3>1, <3>2, <3>3 DEF Following
  <2>. QED  BY <2>4, <2>5
<1>4. FilesInv' /\ Following' /\ objects' \in Nat
  <2>1. CASE SfOpen
    <3>1. PICK kind \in {"rw", "ro"} : NewFile(kind, ~lost)
      BY <2>1 DEF SfOpen
    <3>2. str # None /\ (~lost) \in BOOLEAN /\ (~lost => ~lost)
      BY <2>1 DEF SfOpen
    <3>. QED  BY <1>3, <3>1, <3>2
  <2>2. CASE SvfOpen
    <3>1. NewFile("view", FALSE) /\ view # None /\ str # None
      BY <1>1, <2>2 DEF SvfOpen, FilesInv
    <3>. QED  BY <1>3, <3>1
  <2>3. CASE Close
    <3>1. file # None /\ file' = None /\ objects' = objects - 1
      BY <2>3 DEF Close
    <3>. QED  BY <1>1, <1>2, <3>1 DEF FilesInv, Following, There, Keep
  <2>. QED  BY <2>1, <2>2, <2>3
<1>. QED  BY <1>1, <1>2, <1>4, KeepStep DEF Kept, IInv

(***************************************************************************)
(* What a read takes is a number of bytes.                                 *)
(***************************************************************************)
LEMMA ReadableNat ==
  ASSUME file.pos \in Nat, NEW limit \in Nat, NEW want \in Nat
  PROVE  Readable(limit, want) \in Nat /\ (file.pos <= limit => file.pos + Readable(limit, want) <= limit)
BY DEF Readable, Shorter

(***************************************************************************)
(* A read from mapped memory goes on where the last one ended.             *)
(***************************************************************************)
LEMMA ReadFromStep ==
  ASSUME IInv, file # None, NEW a \in Ptr, NEW off \in Nat, NEW n \in Nat, ReadFrom(a, off, n),
         file.kind # "view" => str # None /\ a = str.buf /\ off = file.pos
  PROVE  Kept
<1>1. StrInv /\ fate \in Fates /\ FilesInv /\ Following /\ view' = view /\ file \in Files /\ file.pos \in Nat /\ heap \in Mem
  BY DEF IInv, ReadFrom, FilesInv, Files, StrInv
<1>2. CASE ~Mapped(heap, a, off, n)
  <2>1. UNCHANGED <<heap, str, copy, objects, lost, view, file>> /\ fate' \in Fates
    BY <1>1, <1>2 DEF ReadFrom, Stray, Fates
  <2>2. FilesInv' /\ Following' /\ objects' \in Nat
    BY <1>1, <2>1 DEF FilesInv, Following, StrInv
  <2>. QED  BY <1>1, <2>1, <2>2, KeepStep DEF Kept, IInv, Keep
<1>3. CASE Mapped(heap, a, off, n)
  <2> DEFINE f == file.follows /\ file.pos + n <= str.len
             s == IF f THEN file.seen \o At(heap, a, off, n) ELSE <<>>
  <2>1. /\ file' = [file EXCEPT !.pos = @ + n, !.follows = f, !.seen = s]
        /\ UNCHANGED <<heap, str, copy, objects, lost, fate>>
    BY <1>3 DEF ReadFrom, ReadN, svars
  <2>2. s \in Seq(Bytes)
    <3>1. At(heap, a, off, n) \in Seq(Bytes) /\ file.seen \in Seq(Bytes)
      BY <1>1, <1>3, AtFacts DEF Files
    <3>2. file.seen \o At(heap, a, off, n) \in Seq(Bytes)
      BY <3>1, ConcatProperties
    <3>. QED  BY <3>2
  <2>3. f \in BOOLEAN
    BY <1>1 DEF Files
  <2>4. file.pos + n \in Nat
    BY <1>1
  <2>5. file' \in Files /\ file'.kind = file.kind /\ file'.pos = file.pos + n /\ file'.follows = f /\ file'.seen = s
    <3> HIDE DEF f, s
    <3>. QED  BY <1>1, <2>1, <2>2, <2>3, <2>4 DEF Files
  <2>6. FilesInv'
    <3>1. file' # None
      BY <2>5, ObjectsThere
    <3> HIDE DEF f, s
    <3>. QED  BY <1>1, <2>1, <2>5, <3>1 DEF FilesInv, There
  <2>7. Following'
    <3>1. SUFFICES ASSUME f PROVE Following'
      BY <2>5 DEF Following
    <3>2. /\ file.kind # "view" /\ ~lost /\ file.seen = At(heap, str.buf, 0, file.pos)
          /\ file.pos + n <= str.len /\ str # None /\ a = str.buf /\ off = file.pos
      BY <1>1, <3>1 DEF Following
    <3>3. Sure(heap, str) /\ str.cap \in Nat /\ str.len \in Nat /\ str.len <= str.cap
      BY <1>1, <3>2 DEF StrInv, Sure, Good, Str
    <3> DEFINE m == file.pos
    <3>4. m \in Nat /\ 0 \in Nat /\ m + n \in Nat /\ 0 + m <= str.cap /\ m + n <= str.cap /\ 0 + (m + n) <= str.cap
      BY <1>1, <3>2, <3>3
    <3>5. s = At(heap, a, 0, m) \o At(heap, a, m, n)
      BY <3>1, <3>2
    <3> HIDE DEF m
    <3> DEFINE k == m + n
    <3>6. Mapped(heap, a, 0, m) /\ Mapped(heap, a, m, n)
      BY <1>1, <3>2, <3>3, <3>4, SureMapped
    <3>7. Mapped(heap, a, 0, k)
      <4>1. k \in Nat /\ 0 + k <= str.cap
        BY <3>4
      <4> HIDE DEF k
      <4>. QED  BY <1>1, <3>2, <3>3, <3>4, <4>1, SureMapped
    <3>8. At(heap, a, 0, m) \o At(heap, a, m, n) = At(heap, a, 0, m + n)
      BY <1>1, <3>4, <3>6, <3>7, AtJoins
    <3>9. file'.seen = At(heap', str'.buf, 0, file'.pos)
      BY <2>1, <2>5, <3>2, <3>5, <3>8 DEF m
    <3> HIDE DEF s, f
    <3>. QED  BY <2>1, <2>5, <3>2, <3>9 DEF Following
  <2>. QED  BY <1>1, <2>1, <2>6, <2>7, KeepStep DEF Kept, IInv, Keep, StrInv
<1>. QED  BY <1>2, <1>3

(***************************************************************************)
(* srf_read and svf_read.                                                  *)
(***************************************************************************)
LEMMA ReadStep ==
  ASSUME IInv, NEW want \in 1 .. MaxCap, SrfRead(want) \/ SvfRead(want)
  PROVE  Kept
<1>1. file # None /\ FilesInv /\ StrInv /\ file \in Files /\ file.pos \in Nat /\ want \in Nat
  BY CapsAssumption DEF IInv, FilesInv, Files, SrfRead, SvfRead
<1> DEFINE n == Readable(Limit, want)
<1>2. CASE SrfRead(want)
  <2>1. file.kind # "view" /\ ReadFrom(str.buf, file.pos, n) /\ str # None
    BY <1>1, <1>2 DEF SrfRead, FilesInv
  <2>2. str.buf \in Ptr /\ str.cap \in Nat /\ Limit = str.cap
    BY <1>1, <2>1 DEF StrInv, Good, Str, Limit
  <2>3. n \in Nat
    BY <1>1, <2>2, ReadableNat
  <2> HIDE DEF n
  <2>. QED  BY <1>1, <2>1, <2>2, <2>3, ReadFromStep
<1>3. CASE SvfRead(want)
  <2>1. file.kind = "view" /\ ReadFrom(view.buf, view.off + file.pos, n) /\ view # None
    BY <1>1, <1>3 DEF SvfRead, FilesInv
  <2>2. view.buf \in Ptr /\ view.off + file.pos \in Nat /\ view.len \in Nat /\ Limit = view.len
    BY <1>1, <2>1 DEF FilesInv, Views, Limit
  <2>3. n \in Nat
    BY <1>1, <2>2, ReadableNat
  <2> HIDE DEF n
  <2>. QED  BY <1>1, <2>1, <2>2, <2>3, ReadFromStep
<1>. QED  BY <1>2, <1>3

(***************************************************************************)
(* sf_write appends, and what the file has read stays in front.            *)
(***************************************************************************)
LEMMA WriteStep ==
  ASSUME IInv, NEW d \in Texts, Write(d)
  PROVE  Kept
<1>1. /\ StrInv /\ fate \in Fates /\ FilesInv /\ Following /\ view' = view /\ file # None /\ str # None /\ file \in Files
      /\ d \in Seq(Bytes)
  BY TextsAssumption DEF IInv, Write, FilesInv
<1>2. Step /\ Longer(d)
  <2>1. CASE file.kind = "rw"
    BY <1>1, <2>1, AppendStep DEF Write
  <2>2. CASE file.kind # "rw"
    <3>1. UNCHANGED <<heap, str, copy, objects, lost, fate>>
      BY <2>2 DEF Write, svars
    <3>2. Longer(d)
      BY <1>1, <3>1 DEF Longer, Text
    <3>. QED  BY <1>1, <3>1, <3>2, NoStep
  <2>. QED  BY <2>1, <2>2
<1>3. StrInv' /\ fate' \in Fates /\ Says /\ objects' = objects + There(str') - There(str) /\ lost' \in BOOLEAN
  BY <1>2 DEF Step, StrInv
<1>4. str' # None
  BY <1>2 DEF Longer
<1>5. file' \in Files /\ file'.kind = file.kind /\ (file' = file \/ (lost' /\ file'.follows = FALSE))
  <2>1. <<>> \in Seq(Bytes) /\ FALSE \in BOOLEAN
    OBVIOUS
  <2>2. file' = IF lost' THEN [file EXCEPT !.follows = FALSE, !.seen = <<>>] ELSE file
    BY DEF Write
  <2>. QED  BY <1>1, <2>1, <2>2 DEF Files
<1>6. FilesInv'
  <2>1. file' # None
    BY <1>5, ObjectsThere
  <2>. QED  BY <1>1, <1>3, <1>4, <1>5, <2>1 DEF FilesInv, There
<1>7. Following'
  <2>1. SUFFICES ASSUME file'.follows PROVE Following'
    BY DEF Following
  <2>2. file' = file /\ ~lost' /\ ~lost
    <3>1. file' = file /\ file.follows
      BY <1>5, <2>1
    <3>2. ~lost
      BY <1>1, <3>1 DEF Following
    <3>3. ~lost'
      <4>1. SUFFICES ASSUME lost' PROVE FALSE
        OBVIOUS
      <4>2. file' = [file EXCEPT !.follows = FALSE, !.seen = <<>>]
        BY <4>1 DEF Write
      <4>. QED  BY <1>1, <2>1, <4>2 DEF Files
    <3>. QED  BY <3>1, <3>2, <3>3
  <2>3. /\ Sure(heap, str) /\ Text = At(heap, str.buf, 0, str.len) /\ heap \in Mem
        /\ heap' \in Mem /\ Sure(heap', str') /\ Text' = At(heap', str'.buf, 0, str'.len)
    BY <1>1, <1>3, <1>4, <2>2, TextThere DEF StrInv, Sure, Good, Text
  <2> DEFINE u == At(heap, str.buf, 0, str.len)
             v == At(heap', str'.buf, 0, str'.len)
             w == u \o d
  <2>4. u \in Seq(Bytes) /\ Len(u) = str.len /\ str.len \in Nat /\ \A i \in 1 .. str.len : u[i] = heap[str.buf][i]
    BY <2>3, TextFacts
  <2>5. v \in Seq(Bytes) /\ Len(v) = str'.len /\ str'.len \in Nat /\ \A i \in 1 .. str'.len : v[i] = heap'[str'.buf][i]
    BY <2>3, TextFacts
  <2>6. v = u \/ v = w
    <3>1. Text' = Text \/ Text' = Text \o d
      BY <1>2, <2>2 DEF Longer
    <3>. QED  BY <2>3, <3>1
  <2> HIDE DEF u, v
  <2>7. w \in Seq(Bytes) /\ Len(w) >= Len(u) /\ \A i \in 1 .. Len(u) : w[i] = u[i]
    <3>1. Len(d) \in Nat
      BY <1>1, LenProperties
    <3>2. /\ w \in Seq(Bytes) /\ Len(w) = Len(u) + Len(d)
          /\ \A i \in 1 .. Len(u) + Len(d) : w[i] = IF i <= Len(u) THEN u[i] ELSE d[i - Len(u)]
      BY <1>1, <2>4, ConcatProperties
    <3>3. Len(u) \in Nat
      BY <2>4
    <3> HIDE DEF w
    <3>. QED  BY <3>1, <3>2, <3>3
  <2> HIDE DEF w
  <2>8. Len(v) >= Len(u) /\ \A i \in 1 .. Len(u) : v[i] = u[i]
    BY <2>4, <2>6, <2>7
  <2>9. str'.len >= str.len /\ \A i \in 1 .. str.len : heap'[str'.buf][i] = heap[str.buf][i]
    BY <2>4, <2>5, <2>8
  <2>. QED  BY <1>1, <1>3, <1>4, <2>2, <2>9, StillFollows
<1>. QED  BY <1>3, <1>6, <1>7 DEF Kept, IInv

-----------------------------------------------------------------------------
(***************************************************************************)
(* At first there is nothing.                                              *)
(***************************************************************************)
LEMMA InitIInv == FInit => IInv /\ TB!TBInit
<1>1. FInit => StrInv /\ fate \in Fates
  <2>1. SUFFICES ASSUME FInit PROVE StrInv /\ fate \in Fates
    OBVIOUS
  <2>2. /\ heap = [a \in Addrs |-> <<>>] /\ str = None /\ copy = None /\ objects = 0 /\ lost = FALSE /\ fate = "runs"
        /\ <<>> \in Seq(Bytes)
    BY <2>1 DEF FInit, Init
  <2>3. \A b \in Addrs : b # None
    BY NoneAssumption, AddrsAssumption
  <2>4. heap \in Mem /\ \A b \in Addrs : heap[b] = <<>>
    BY <2>2 DEF Mem
  <2>5. lost \in BOOLEAN /\ fate \in Fates
    BY <2>2 DEF Fates
  <2>. QED  BY <2>2, <2>3, <2>4, <2>5 DEF StrInv
<1>2. FInit => FilesInv /\ Following
  BY DEF FInit, Init, FilesInv, Following, There
<1>. QED  BY <1>1, <1>2 DEF IInv, FInit, Init, TB!TBInit, Text

(***************************************************************************)
(* Every step keeps the invariant, and does to the text what a text buffer *)
(* may do.                                                                 *)
(***************************************************************************)
LEMMA NextIInv == IInv /\ [Next]_vars => IInv' /\ [TB!TBNext]_Text
<1>1. SUFFICES ASSUME IInv, [Next]_vars PROVE Kept
  BY DEF Kept, Says
<1>2. ASSUME UNCHANGED vars PROVE Kept
  <2>1. UNCHANGED <<heap, str, copy, objects, lost, fate, view, file>>
    BY <1>2 DEF vars, svars
  <2>2. StrInv' /\ fate' \in Fates /\ Says
    BY <1>1, <2>1, NoStep DEF IInv, Step
  <2>3. FilesInv' /\ Following'
    BY <1>1, <2>1 DEF IInv, FilesInv, Following
  <2>. QED  BY <2>2, <2>3 DEF Kept, IInv
<1>3. ASSUME FileCall PROVE Kept
  BY <1>1, <1>3, ViewStep, SvCopyStep, FprintStep, OpenStep, ReadStep, WriteStep DEF FileCall
<1>. QED  BY <1>1, <1>2, <1>3, CallStringStep DEF Next

-----------------------------------------------------------------------------
(***************************************************************************)
(* The state stays well-formed: what the C types and the allocator allow.  *)
(***************************************************************************)
THEOREM StringTypeCorrect == Spec => []TypeOK
<1>1. IInv => TypeOK
  <2>1. StrInv => str = None \/ (str \in [buf : Addrs \cup {Null}, len : Nat, cap : Nat] /\ str.len <= str.cap)
    BY DEF StrInv, Good, Str, Ptr
  <2>. QED  BY <2>1 DEF IInv, StrInv, FilesInv, TypeOK, Mem, Ptr, Fates
<1>. QED  BY <1>1, InitIInv, NextIInv, PTL DEF Spec

(***************************************************************************)
(* The buffer of a String is mapped and as long as its capacity, through   *)
(* every growth, failed growth, reserve and conversion.                    *)
(***************************************************************************)
THEOREM StringBuffer == Spec => []BufferHoldsCap
<1>1. IInv => BufferHoldsCap
  BY DEF IInv, StrInv, Good, Str, Ptr, BufferHoldsCap
<1>. QED  BY <1>1, InitIInv, NextIInv, PTL DEF Spec

(***************************************************************************)
(* No block is left over or owned twice, and no object either: s_* and     *)
(* sv_* free what they took on every path.                                 *)
(***************************************************************************)
THEOREM StringsDoNotLeak == Spec => []NothingLeaks
<1>1. IInv => NothingLeaks
  <2>1. SUFFICES ASSUME IInv PROVE NothingLeaks
    OBVIOUS
  <2>2. \A b \in Addrs : b # Null /\ b # None
    BY AddrsAssumption, NoneAssumption DEF Null
  <2>3. copy \in Ptr \cup {None} /\ (str # None => str.buf \in Ptr)
    BY <2>1 DEF IInv, StrInv, Good, Str
  <2> DEFINE L == {a \in Addrs : heap[a] # <<>>}
             R == ((IF str = None THEN {} ELSE {str.buf}) \cup {copy}) \ {Null, None}
  <2>4. ASSUME NEW b \in Addrs PROVE b \in L <=> b \in R
    <3>1. heap[b] # <<>> <=> ((str # None /\ b = str.buf) \/ b = copy)
      BY <2>1 DEF IInv, StrInv
    <3>. QED  BY <2>2, <3>1
  <2>5. R \subseteq Addrs
    BY <2>3 DEF Ptr
  <2>6. L = R
    <3>1. L \subseteq Addrs
      OBVIOUS
    <3> HIDE DEF L, R
    <3>. QED  BY <2>4, <2>5, <3>1
  <2>7. str # None /\ copy # None => str.buf # copy \/ copy = Null
    BY <2>1 DEF IInv, StrInv
  <2>8. objects = There(str) + There(view) + There(file)
    BY <2>1 DEF IInv, FilesInv
  <2>. QED  BY <2>6, <2>7, <2>8 DEF NothingLeaks
<1>. QED  BY <1>1, InitIInv, NextIInv, PTL DEF Spec

(***************************************************************************)
(* What a StringFile or a StringReadFile has read is how the text begins,  *)
(* however the buffer moved between the reads.                             *)
(***************************************************************************)
THEOREM FilesReadTheText == Spec => []SeenIsText
<1>1. IInv => SeenIsText
  BY DEF IInv, Following, SeenIsText
<1>. QED  BY <1>1, InitIInv, NextIInv, PTL DEF Spec

(***************************************************************************)
(* A String is a text buffer, whatever its buffer does.                    *)
(***************************************************************************)
THEOREM StringImplementsTextBuffer == Spec => ImplementsTextBuffer
BY InitIInv, NextIInv, PTL DEF Spec, ImplementsTextBuffer, TB!TBSpec

-----------------------------------------------------------------------------
(***************************************************************************)
(* A string with all of its text, and room for what is written.            *)
(***************************************************************************)
LEMMA RoomFor ==
  ASSUME StrInv, str # None, ~lost, NEW cap \in Nat, NEW r \in Reserved(cap), r.err = OK,
         NEW n \in Nat, str.len + n <= cap
  PROVE  Mapped(r.heap, r.str.buf, r.str.len, n)
<1>1. heap \in Mem /\ Good(heap, str, lost) /\ str.len \in Nat
  BY DEF StrInv, Good, Str
<1>2. Fits(r, cap)
  BY <1>1, ReservedFacts
<1>3. r.heap \in Mem /\ Sure(r.heap, r.str) /\ r.str.cap = cap /\ r.str.len = Shorter(str.len, cap)
  BY <1>2 DEF Fits, Sure, Good
<1>4. r.str.len \in Nat /\ r.str.len + n <= r.str.cap
  BY <1>1, <1>3 DEF Shorter
<1>. QED  BY <1>3, <1>4, SureMapped

(***************************************************************************)
(* Writing there does not stray.                                           *)
(***************************************************************************)
LEMMA StoredStays ==
  ASSUME StrInv, str # None, ~lost, NEW cap \in Nat, NEW r \in Reserved(cap),
         NEW d, Len(d) \in Nat, str.len + Len(d) <= cap, Stored(r, d)
  PROVE  fate' = fate
<1>1. r.err = OK => Mapped(r.heap, r.str.buf, r.str.len, Len(d))
  BY RoomFor
<1>. QED  BY <1>1 DEF Stored, Take

(***************************************************************************)
(* SPush, SAppend and SToCstr stay inside the buffer of a string that has  *)
(* one.                                                                    *)
(***************************************************************************)
LEMMA GrownStays ==
  ASSUME StrInv, str # None, ~lost, str.cap # 0,
         \/ \E c \in Chars : SPush(c)
         \/ \E d \in Texts : SAppend(d)
         \/ SToCstr
  PROVE  fate' = fate
<1>1. str.len \in Nat /\ str.cap \in Nat /\ str.len <= str.cap
  BY DEF StrInv, Good, Str
<1> DEFINE cap == str.cap + (IF str.len = str.cap THEN str.len ELSE 0)
<1>2. cap \in Nat /\ str.len + 1 <= cap
  BY <1>1
<1>3. ASSUME NEW c \in Chars, SPush(c) PROVE fate' = fate
  <2> DEFINE d == <<c>>
  <2>1. PICK r \in Reserved(cap) : Stored(r, d)
    BY <1>3 DEF SPush, Pushed
  <2>2. Len(d) \in Nat /\ str.len + Len(d) <= cap
    BY <1>2
  <2> HIDE DEF cap, d
  <2>. QED  BY <1>2, <2>1, <2>2, StoredStays
<1>4. ASSUME NEW d \in Texts, SAppend(d) PROVE fate' = fate
  <2> DEFINE n == Len(d)
             k == str.cap + GrowBy(n)
  <2>1. n \in Nat
    BY TextsAssumption, LenProperties
  <2>2. PICK r \in Reserved(k) : Stored(r, d)
    BY <1>4 DEF SAppend
  <2>3. k \in Nat /\ str.len + Len(d) <= k
    <3> HIDE DEF n
    <3>1. GrowBy(n) \in Nat /\ str.len + n <= str.cap + GrowBy(n)
      BY <1>1, <2>1, GrowByFacts
    <3>. QED  BY <1>1, <3>1 DEF n
  <2> HIDE DEF k
  <2>. QED  BY <2>1, <2>2, <2>3, StoredStays DEF n
<1>5. ASSUME SToCstr PROVE fate' = fate
  <2> DEFINE d == <<0>>
  <2>1. PICK r \in Reserved(cap) :
           IF r.err # OK \/ ~Mapped(r.heap, r.str.buf, r.str.len, 1) THEN Stored(r, d) ELSE fate' = fate
    BY <1>5 DEF SToCstr
  <2>2. Len(d) \in Nat /\ str.len + Len(d) <= cap
    BY <1>2
  <2> HIDE DEF cap, d
  <2>. QED  BY <1>2, <2>1, <2>2, StoredStays
<1>. QED  BY <1>3, <1>4, <1>5

(***************************************************************************)
(* So do the calls that only read or overwrite the text.                   *)
(***************************************************************************)
LEMMA InTextStays ==
  ASSUME StrInv, str # None, ~lost, (\E i \in 0 .. MaxCap, c \in Chars : SSet(i, c)) \/ SCopy \/ SFprint
  PROVE  fate' = fate
<1>1. /\ Sure(heap, str) /\ heap \in Mem /\ str.buf \in Ptr
      /\ str.len \in Nat /\ str.cap \in Nat /\ str.len <= str.cap
  BY DEF StrInv, Sure, Good, Str
<1>2. ASSUME NEW i \in 0 .. MaxCap, NEW c \in Chars, SSet(i, c) PROVE fate' = fate
  <2>1. i \in Nat /\ 1 \in Nat /\ i + 1 <= str.cap
    BY <1>1, <1>2, CapsAssumption DEF SSet
  <2>2. Mapped(heap, str.buf, i, 1)
    BY <1>1, <2>1, SureMapped
  <2>. QED  BY <1>2, <2>2 DEF SSet, Take
<1>3. Mapped(heap, str.buf, 0, str.len)
  <2> DEFINE n == str.len
  <2>1. n \in Nat /\ 0 \in Nat /\ 0 + n <= str.cap
    BY <1>1
  <2> HIDE DEF n
  <2>2. Mapped(heap, str.buf, 0, n)
    BY <1>1, <2>1, SureMapped
  <2>. QED  BY <2>2 DEF n
<1>4. ASSUME SCopy PROVE fate' = fate
  BY <1>3, <1>4 DEF SCopy, Duplicate
<1>5. ASSUME SFprint PROVE fate' = fate
  BY <1>3, <1>5 DEF SFprint, Fprint, svars
<1>. QED  BY <1>2, <1>4, <1>5

(***************************************************************************)
(* Appending a string to itself strays only where the string has to grow,  *)
(* into what the growth has freed.                                         *)
(***************************************************************************)
LEMMA SelfStays ==
  ASSUME StrInv, str # None, ~lost, SAppendSelf, fate' # fate
  PROVE  SelfGrows /\ fate' = "strays" /\ str' = str /\ heap' = heap /\ lost' = lost
<1>1. /\ Sure(heap, str) /\ heap \in Mem /\ str.buf \in Ptr
      /\ str.len \in Nat /\ str.cap \in Nat /\ str.len <= str.cap
  BY DEF StrInv, Sure, Good, Str
<1> DEFINE n == str.len
           cap == str.cap + GrowBy(n)
<1>2. n \in Nat /\ cap \in Nat /\ n + n <= cap
  <2>1. Over(n) > 0 => str.cap # 0
    BY <1>1 DEF Over
  <2>2. n \in Nat
    BY <1>1
  <2> HIDE DEF n
  <2>3. GrowBy(n) \in Nat /\ str.len + n <= str.cap + GrowBy(n)
    BY <1>1, <2>1, <2>2, GrowByFacts
  <2>. QED  BY <1>1, <2>2, <2>3 DEF n
<1>3. PICK r \in Reserved(cap) :
         IF r.err = OK /\ ~Mapped(r.heap, str.buf, 0, n) THEN Stray
         ELSE Stored(r, IF r.err = OK THEN At(r.heap, str.buf, 0, n) ELSE <<>>)
  BY DEF SAppendSelf
<1>4. heap \in Mem /\ Good(heap, str, lost)
  BY DEF StrInv
<1>5. ~(2 * n > str.cap) => Mapped(r.heap, str.buf, 0, n)
  <2>1. SUFFICES ASSUME ~(2 * n > str.cap) PROVE Mapped(r.heap, str.buf, 0, n)
    OBVIOUS
  <2>2. Over(n) = 0
    BY <1>1, <1>2, <2>1 DEF Over
  <2>3. GrowBy(n) = 0
    BY <2>2 DEF GrowBy
  <2>4. cap = str.cap
    BY <1>1, <2>3
  <2>5. r.heap = heap
    BY <2>4 DEF Reserved
  <2>6. 0 \in Nat /\ 0 + n <= str.cap
    BY <1>1
  <2> HIDE DEF n, cap
  <2>7. Mapped(heap, str.buf, 0, n)
    BY <1>1, <1>2, <2>6, SureMapped
  <2>. QED  BY <2>5, <2>7
<1> HIDE DEF cap
<1>6. CASE r.err = OK /\ ~Mapped(r.heap, str.buf, 0, n)
  BY <1>3, <1>5, <1>6 DEF Stray, SelfGrows
<1>7. CASE r.err # OK
  BY <1>3, <1>7 DEF Stored, Take
<1>8. CASE r.err = OK /\ Mapped(r.heap, str.buf, 0, n)
  <2> DEFINE d == At(r.heap, str.buf, 0, n)
  <2>1. Stored(r, d)
    BY <1>3, <1>8
  <2>2. r.heap \in Mem
    BY <1>2, <1>4, ReservedFacts DEF Fits
  <2> HIDE DEF n
  <2>3. Len(d) = n
    <3>1. 0 \in Nat
      OBVIOUS
    <3>. QED  BY <1>1, <1>2, <1>8, <2>2, <3>1, AtFacts
  <2>4. Len(d) \in Nat /\ str.len + Len(d) <= cap
    BY <1>2, <2>3 DEF n
  <2> HIDE DEF d
  <2>. QED  BY <1>2, <2>1, <2>4, StoredStays
<1>. QED  BY <1>6, <1>7, <1>8

(***************************************************************************)
(* What a view sees is there unless the view is stale.                     *)
(***************************************************************************)
LEMMA ViewStays ==
  ASSUME IInv, ~ViewIsStale, SvCopy \/ SvFprint
  PROVE  fate' = fate
<1>1. view # None /\ Mapped(heap, view.buf, view.off, view.len)
  BY DEF ViewIsStale, SvCopy, SvFprint
<1>. QED  BY <1>1 DEF SvCopy, Duplicate, SvFprint, Fprint, svars

(***************************************************************************)
(* A read stays in the buffer or the view while its position is in there.  *)
(***************************************************************************)
LEMMA ReadStays ==
  ASSUME IInv, ~lost, ~ViewIsStale, ~FileIsPast, NEW want \in 1 .. MaxCap, SrfRead(want) \/ SvfRead(want)
  PROVE  fate' = fate
<1>1. /\ file # None /\ ~(file.pos > Limit) /\ StrInv /\ FilesInv /\ heap \in Mem
      /\ file \in Files /\ file.pos \in Nat /\ want \in Nat
  <2>1. file # None
    BY DEF SrfRead, SvfRead
  <2>2. file \in Files /\ StrInv /\ FilesInv /\ heap \in Mem
    BY <2>1 DEF IInv, FilesInv, StrInv
  <2>3. file.pos \in Nat /\ want \in Nat
    BY <2>2, CapsAssumption DEF Files
  <2>. QED  BY <2>1, <2>2, <2>3 DEF FileIsPast
<1> DEFINE n == Readable(Limit, want)
           p == file.pos
<1>2. CASE SrfRead(want)
  <2>1. file.kind # "view" /\ ReadFrom(str.buf, p, n) /\ str # None
    BY <1>1, <1>2 DEF SrfRead, FilesInv
  <2>2. str.cap \in Nat /\ Limit = str.cap /\ Sure(heap, str)
    BY <1>1, <2>1 DEF StrInv, Sure, Good, Str, Limit
  <2>3. n \in Nat /\ p \in Nat /\ p + n <= str.cap
    <3>1. p \in Nat /\ p <= str.cap /\ n = Readable(str.cap, want)
      BY <1>1, <2>2
    <3>2. Readable(str.cap, want) \in Nat /\ p + Readable(str.cap, want) <= str.cap
      BY <1>1, <2>2, <3>1, ReadableNat
    <3>. QED  BY <3>1, <3>2
  <2> HIDE DEF n, p
  <2>4. Mapped(heap, str.buf, p, n)
    BY <1>1, <2>2, <2>3, SureMapped
  <2>. QED  BY <2>1, <2>4 DEF ReadFrom, ReadN, svars
<1>3. CASE SvfRead(want)
  <2> DEFINE b == view.buf
             o == view.off
             m == view.len
  <2>1. file.kind = "view" /\ ReadFrom(b, o + p, n) /\ view # None
    BY <1>1, <1>3 DEF SvfRead, FilesInv
  <2>2. b \in Ptr /\ o \in Nat /\ m \in Nat /\ Limit = m
    BY <1>1, <2>1 DEF FilesInv, Views, Limit
  <2>3. n \in Nat /\ p \in Nat /\ p + n <= m
    <3>1. p \in Nat /\ p <= m /\ n = Readable(m, want)
      BY <1>1, <2>2
    <3>2. Readable(m, want) \in Nat /\ p + Readable(m, want) <= m
      BY <1>1, <2>2, <3>1, ReadableNat
    <3>. QED  BY <3>1, <3>2
  <2>4. Mapped(heap, b, o, m)
    BY <2>1 DEF ViewIsStale
  <2> HIDE DEF n, p, b, o, m
  <2>5. Mapped(heap, b, o + p, n)
    <3>1. CASE n = 0
      BY <3>1 DEF Mapped
    <3>2. CASE n # 0
      <4>1. m # 0
        BY <2>2, <2>3, <3>2
      <4>2. b # Null /\ o + m <= Len(heap[b]) /\ b \in Addrs
        BY <2>2, <2>4, <4>1 DEF Mapped, Ptr
      <4>3. Len(heap[b]) \in Nat
        BY <1>1, <4>2, LenProperties DEF Mem
      <4>4. o + p + n <= Len(heap[b])
        BY <2>2, <2>3, <4>2, <4>3
      <4>. QED  BY <4>2, <4>4 DEF Mapped
    <3>. QED  BY <3>1, <3>2
  <2>. QED  BY <2>1, <2>5 DEF ReadFrom, ReadN, svars
<1>. QED  BY <1>2, <1>3

\* What StraysOnlyIf says of a step.
StraysIf ==
    fate' # fate => \/ lost \/ (str # None /\ str.cap = 0)
                    \/ SelfGrows /\ fate' = "strays" /\ file' = file /\ view' = view /\ SAppendSelf
                    \/ ViewIsStale \/ FileIsPast

(***************************************************************************)
(* Of every operation of the string.                                       *)
(***************************************************************************)
LEMMA CallStrays ==
  ASSUME IInv, CallString
  PROVE  StraysIf
<1>1. SUFFICES ASSUME fate' # fate, ~lost, ~(str # None /\ str.cap = 0)
      PROVE  SelfGrows /\ fate' = "strays" /\ file' = file /\ view' = view /\ SAppendSelf
  BY DEF StraysIf
<1>2. StrInv /\ FilesInv /\ view' = view /\ StringCall
  BY DEF IInv, CallString
<1>3. str # None /\ SAppendSelf
  <2>1. ASSUME str = None PROVE FALSE
    BY <1>1, <1>2, <2>1 DEF StringCall, SNew, SFree, SReserve, SShrink, SClear, SSet, SPush, SAppend,
                            SAppendSelf, SCopy, SToCstr, DropCopy
  <2>2. ~(SNew \/ SFree \/ SReserve \/ SShrink \/ SClear \/ DropCopy)
    BY <1>1 DEF SNew, SFree, SReserve, SShrink, SClear, DropCopy, Take
  <2>3. ~((\E i \in 0 .. MaxCap, c \in Chars : SSet(i, c)) \/ SCopy)
    BY <1>1, <1>2, <2>1, InTextStays
  <2>4. ~((\E c \in Chars : SPush(c)) \/ (\E d \in Texts : SAppend(d)) \/ SToCstr)
    BY <1>1, <1>2, <2>1, GrownStays
  <2>. QED  BY <1>2, <2>1, <2>2, <2>3, <2>4 DEF StringCall
<1>4. SelfGrows /\ fate' = "strays" /\ str' = str /\ heap' = heap /\ lost' = lost
  BY <1>1, <1>2, <1>3, SelfStays
<1>5. file' = file
  <2>1. Text = At(heap, str.buf, 0, str.len) /\ str.len \in Nat
    BY <1>1, <1>2, <1>3, TextThere DEF StrInv, Good, Str
  <2>2. ~lost'
    BY <1>1, <1>4
  <2>3. str'.len >= str.len /\ At(heap', str'.buf, 0, str.len) = Text
    BY <1>4, <2>1
  <2>. QED  BY <2>2, <2>3 DEF CallString
<1>. QED  BY <1>2, <1>3, <1>4, <1>5

(***************************************************************************)
(* And of every operation of views and files.                              *)
(***************************************************************************)
LEMMA FileStrays ==
  ASSUME IInv, FileCall
  PROVE  StraysIf
<1>1. SUFFICES ASSUME ~lost, ~(str # None /\ str.cap = 0), ~ViewIsStale, ~FileIsPast
      PROVE  fate' = fate
  BY DEF StraysIf
<1>2. StrInv /\ FilesInv
  BY DEF IInv
<1>3. (\E i \in 0 .. MaxCap : SvFromString(i)) \/ SvChange \/ SvFree \/ SfOpen \/ SvfOpen \/ Close => fate' = fate
  BY DEF SvFromString, SvChange, SvFree, SfOpen, SvfOpen, Close, NewFile
<1>4. SvCopy \/ SvFprint => fate' = fate
  BY <1>1, ViewStays
<1>5. SFprint => fate' = fate
  BY <1>1, <1>2, InTextStays DEF SFprint
<1>6. ASSUME NEW want \in 1 .. MaxCap, SrfRead(want) \/ SvfRead(want) PROVE fate' = fate
  BY <1>1, <1>6, ReadStays
<1>7. ASSUME NEW d \in Texts, Write(d) PROVE fate' = fate
  <2>1. str # None /\ str.cap # 0
    BY <1>1, <1>2, <1>7 DEF Write, FilesInv
  <2>2. CASE file.kind = "rw"
    <3>1. SAppend(d)
      BY <1>7, <2>2 DEF Write
    <3>. QED  BY <1>1, <1>2, <2>1, <3>1, GrownStays
  <2>3. CASE file.kind # "rw"
    BY <1>7, <2>3 DEF Write, svars
  <2>. QED  BY <2>2, <2>3
<1>. QED  BY <1>3, <1>4, <1>5, <1>6, <1>7 DEF FileCall

(***************************************************************************)
(* Calls stay in mapped memory and end, but in the five cases where the    *)
(* code checks nothing: a lost buffer, capacity 0, a string appended to    *)
(* itself that grows, a stale view, a file that is past its text.          *)
(***************************************************************************)
THEOREM StringsStray == Spec => StraysOnlyIf
<1>1. IInv /\ [Next]_vars => [StraysIf]_vars
  BY CallStrays, FileStrays DEF Next
<1>. QED  BY <1>1, InitIInv, NextIInv, PTL DEF Spec, StraysOnlyIf, StraysIf

=============================================================================
