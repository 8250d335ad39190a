--------------------------- MODULE SbrkHeapProofs ---------------------------
(***************************************************************************)
(* The buffers of the sbrk heap are disjoint and below the break, and all  *)
(* memory below it is accounted for, for every word width, header size,    *)
(* limit and set of requests.  What makes that inductive is that the list  *)
(* is in the order of the addresses, with a header's room between any two  *)
(* blocks: the block that ends at the break is then the last of the list,  *)
(* which is why unlinking the last element frees the right one.            *)
(***************************************************************************)
EXTENDS SbrkHeap, SequenceTheorems, WellFoundedInduction, TLAPS

Blocks == [at : Nat, size : Nat \ {0}, free : BOOLEAN]

InOrder(l, b) ==
    /\ l \in Seq(Blocks)
    /\ \A i \in DOMAIN l : Base + Header <= l[i].at /\ l[i].at + l[i].size <= b
    /\ \A i, j \in DOMAIN l : i < j => l[i].at + l[i].size + Header <= l[j].at

Owners(l, H) ==
    /\ H \subseteq Nat \X Nat
    /\ \A h \in H : \E i \in DOMAIN l : l[i].at = h[1] /\ ~l[i].free /\ h[2] <= l[i].size
    /\ \A g, h \in H : g[1] = h[1] => g = h

Covered(l, X) == (UNION {Extent(l[i].at, l[i].size) : i \in DOMAIN l}) \cup (UNION {Extent(b[1], b[2]) : b \in X})

Accounted(l, b, H, F, X) ==
    /\ X \subseteq Nat \X (Nat \ {0})
    /\ Covered(l, X) = Base .. b - 1
    /\ \A i \in DOMAIN l : ~l[i].free => l[i].at \in F \cup {h[1] : h \in H}
    /\ \A x \in X : \A i \in DOMAIN l : x[1] # l[i].at

Sound(l, b, H, F, X) ==
    /\ b \in Base .. Limit /\ InOrder(l, b)
    /\ Owners(l, H) /\ Accounted(l, b, H, F, X)

IInv == ~astray => Sound(list, brk, held, forgotten, lost)

-----------------------------------------------------------------------------
(***************************************************************************)
(* The words are not none.                                                 *)
(***************************************************************************)
LEMMA WordIsPositive == 2^W \in Nat /\ 2^W > 0
BY WidthAssumption DEF Word

(***************************************************************************)
(* Unsigned arithmetic: what wrapping does to numbers not too far out.     *)
(***************************************************************************)
LEMMA WrapFacts ==
  /\ \A k \in Int : Wrap(k) \in 0 .. 2^W - 1
  /\ \A k \in Nat : Wrap(k) <= k
  /\ \A k \in 0 .. 2^W - 1 : Wrap(k) = k
  /\ \A k \in 2^W .. 2 * 2^W - 1 : Wrap(k) = k - 2^W
  /\ \A k \in 1 - 2^W .. 0 - 1 : Wrap(k) = k + 2^W
<1>1. \A M \in Nat \ {0} : \A k \in Int : k % M \in 0 .. M - 1
  OBVIOUS
<1>2. \A M \in Nat \ {0} : \A k \in 0 .. M - 1 : k % M = k
  OBVIOUS
<1>3. ASSUME NEW M \in Nat \ {0}, NEW k \in Nat
      PROVE  k % M <= k
  <2>1. CASE k < M
    BY <1>2, <2>1
  <2>2. CASE k >= M
    <3> DEFINE r == k % M
    <3>1. r \in 0 .. M - 1
      BY <1>1
    <3> HIDE DEF r
    <3>2. r <= k
      BY <2>2, <3>1
    <3>. QED  BY <3>2 DEF r
  <2>. QED  BY <2>1, <2>2
<1>4. \A M \in Nat \ {0} : \A k \in M .. 2 * M - 1 : k % M = k - M
  OBVIOUS
<1>5. \A M \in Nat \ {0} : \A k \in 1 - M .. 0 - 1 : k % M = k + M
  OBVIOUS
<1> DEFINE M == 2^W
<1>6. M \in Nat \ {0}
  BY WordIsPositive
<1>7. \A k : Wrap(k) = k % M
  BY DEF Wrap
<1> HIDE DEF M
<1>8. /\ \A k \in Int : Wrap(k) \in 0 .. M - 1
      /\ \A k \in 0 .. M - 1 : Wrap(k) = k
      /\ \A k \in M .. 2 * M - 1 : Wrap(k) = k - M
      /\ \A k \in 1 - M .. 0 - 1 : Wrap(k) = k + M
  BY <1>1, <1>2, <1>4, <1>5, <1>6, <1>7
<1>9. \A k \in Nat : Wrap(k) <= k
  BY <1>3, <1>6, <1>7
<1>. QED  BY <1>8, <1>9 DEF M

(***************************************************************************)
(* A product that passes the check of a_nalloc has not been wrapped round. *)
(***************************************************************************)
LEMMA FitsIsExact ==
  ASSUME NEW size \in Nat, NEW n \in Nat, Fits(size, n)
  PROVE  Wrap(size * n) = size * n /\ size * n \in Word \ {0}
<1>1. size # 0 /\ n # 0 /\ Wrap(size * n) \div n = size
  BY DEF Fits
<1>2. \A w \in Nat, m \in Nat \ {0} : (w \div m) * m <= w
  OBVIOUS
<1>3. size * n \in Nat /\ size * n # 0
  BY <1>1
<1>4. Wrap(size * n) \in Nat /\ Wrap(size * n) \in Word /\ Wrap(size * n) <= size * n
  BY <1>3, WrapFacts, WordIsPositive DEF Word
<1>5. size * n <= Wrap(size * n)
  BY <1>1, <1>2, <1>4
<1>. QED  BY <1>3, <1>4, <1>5

(***************************************************************************)
(* A set of numbers has a least one.                                       *)
(***************************************************************************)
LEMMA Least ==
  ASSUME NEW T \in SUBSET Nat, T # {}
  PROVE  First(T) \in T
<1> DEFINE R == {p \in Nat \X Nat : p[1] < p[2]}
<1>1. IsWellFoundedOn(R, Nat)
  BY NatLessThanWellFounded DEF OpToRel
<1> HIDE DEF R
<1>2. PICK x \in T : \A y \in T : <<y, x>> \notin R
  BY <1>1, WFMin
<1>3. \A y \in T : x <= y
  <2>1. ASSUME NEW y \in T, y < x PROVE FALSE
    <3>1. <<y, x>> \in R
      BY <2>1 DEF R
    <3>. QED  BY <1>2, <3>1
  <2>. QED  BY <2>1
<1>. QED  BY <1>3 DEF First

-----------------------------------------------------------------------------
SameShape(m, l) ==
    /\ m \in Seq(Blocks) /\ DOMAIN m = DOMAIN l
    /\ \A j \in DOMAIN l : m[j].at = l[j].at /\ m[j].size = l[j].size

NowTaken(m, l, i) == \A j \in DOMAIN l : m[j].free <=> (j # i /\ l[j].free)
NowFree(m, l, i) == \A j \in DOMAIN l : m[j].free <=> (j = i \/ l[j].free)

(***************************************************************************)
(* Setting is_free of one block leaves the rest of the list as it is.      *)
(***************************************************************************)
LEMMA SetTaken ==
  ASSUME NEW l \in Seq(Blocks), NEW i \in DOMAIN l, NEW m, m = [l EXCEPT ![i].free = FALSE]
  PROVE  SameShape(m, l) /\ NowTaken(m, l, i)
<1>1. DOMAIN l = 1 .. Len(l) /\ Len(l) \in Nat /\ l \in [1 .. Len(l) -> Blocks]
  BY LenProperties
<1>2. m = [l EXCEPT ![i] = [l[i] EXCEPT !.free = FALSE]]
  OBVIOUS
<1>3. [l[i] EXCEPT !.free = FALSE] \in Blocks
  BY <1>1 DEF Blocks
<1>4. m \in Seq(Blocks)
  BY <1>1, <1>2, <1>3, ExceptSeq
<1>5. \A j \in DOMAIN l : m[j].at = l[j].at /\ m[j].size = l[j].size
  BY <1>1, <1>2 DEF Blocks
<1>6. NowTaken(m, l, i)
  BY <1>1, <1>2 DEF Blocks, NowTaken
<1>. QED  BY <1>4, <1>5, <1>6 DEF SameShape

(***************************************************************************)
(* The same when it is set.                                                *)
(***************************************************************************)
LEMMA SetFree ==
  ASSUME NEW l \in Seq(Blocks), NEW i \in DOMAIN l, NEW m, m = [l EXCEPT ![i].free = TRUE]
  PROVE  SameShape(m, l) /\ NowFree(m, l, i)
<1>1. DOMAIN l = 1 .. Len(l) /\ Len(l) \in Nat /\ l \in [1 .. Len(l) -> Blocks]
  BY LenProperties
<1>2. m = [l EXCEPT ![i] = [l[i] EXCEPT !.free = TRUE]]
  OBVIOUS
<1>3. [l[i] EXCEPT !.free = TRUE] \in Blocks
  BY <1>1 DEF Blocks
<1>4. m \in Seq(Blocks)
  BY <1>1, <1>2, <1>3, ExceptSeq
<1>5. \A j \in DOMAIN l : m[j].at = l[j].at /\ m[j].size = l[j].size
  BY <1>1, <1>2 DEF Blocks
<1>6. NowFree(m, l, i)
  BY <1>1, <1>2 DEF Blocks, NowFree
<1>. QED  BY <1>4, <1>5, <1>6 DEF SameShape

(***************************************************************************)
(* What is covered: by a block of the list, or by a lost one.              *)
(***************************************************************************)
LEMMA CoveredBy ==
  ASSUME NEW l, NEW X, NEW k
  PROVE  k \in Covered(l, X) <=> \/ \E i \in DOMAIN l : k \in Extent(l[i].at, l[i].size)
                                 \/ \E x \in X : k \in Extent(x[1], x[2])
BY Zenon DEF Covered

(***************************************************************************)
(* The mark of a block has no say in what it covers.                       *)
(***************************************************************************)
LEMMA CoveredSame ==
  ASSUME NEW l, NEW m, NEW X, SameShape(m, l)
  PROVE  Covered(m, X) = Covered(l, X)
<1>1. \A k : (\E i \in DOMAIN m : k \in Extent(m[i].at, m[i].size)) <=> (\E i \in DOMAIN l : k \in Extent(l[i].at, l[i].size))
  BY DEF SameShape
<1>2. \A k : k \in Covered(m, X) <=> k \in Covered(l, X)
  BY <1>1, CoveredBy
<1>. QED  BY <1>2

(***************************************************************************)
(* In a list in order, an address is that of one block, and only the last  *)
(* block can end at the break.                                             *)
(***************************************************************************)
LEMMA InOrderFacts ==
  ASSUME NEW l, NEW b \in Nat, InOrder(l, b)
  PROVE  /\ Len(l) \in Nat /\ DOMAIN l = 1 .. Len(l)
         /\ \A i \in DOMAIN l : l[i] \in Blocks /\ l[i].at \in Nat /\ l[i].size \in Nat \ {0} /\ l[i].free \in BOOLEAN
         /\ \A i, j \in DOMAIN l : l[i].at = l[j].at => i = j
         /\ \A i \in DOMAIN l : l[i].at + l[i].size = b => i = Len(l)
         /\ \A i \in DOMAIN l : Block(l, l[i].at) = i
<1>1. Len(l) \in Nat /\ DOMAIN l = 1 .. Len(l) /\ Header \in Nat
  BY LenProperties, SizesAssumption, WordIsPositive DEF InOrder, Word
<1>2. \A i \in DOMAIN l : l[i] \in Blocks
  BY <1>1, ElementOfSeq DEF InOrder
<1>3. \A i \in DOMAIN l : l[i].at \in Nat /\ l[i].size \in Nat \ {0} /\ l[i].free \in BOOLEAN
  BY <1>2 DEF Blocks
<1>4. \A i, j \in DOMAIN l : l[i].at = l[j].at => i = j
  <2>1. ASSUME NEW i \in DOMAIN l, NEW j \in DOMAIN l, i < j PROVE l[i].at # l[j].at
    BY <1>1, <1>3, <2>1 DEF InOrder
  <2>. QED  BY <1>1, <2>1
<1>5. ASSUME NEW i \in DOMAIN l, l[i].at + l[i].size = b PROVE i = Len(l)
  <2>1. SUFFICES ASSUME i < Len(l) PROVE FALSE
    BY <1>1
  <2>2. Len(l) \in DOMAIN l
    BY <1>1, <2>1
  <2>3. l[i].at + l[i].size + Header <= l[Len(l)].at /\ l[Len(l)].at + l[Len(l)].size <= b
    BY <2>1, <2>2 DEF InOrder
  <2>. QED  BY <1>1, <1>3, <1>5, <2>2, <2>3
<1>6. \A i \in DOMAIN l : Block(l, l[i].at) = i
  BY <1>4 DEF Block
<1>. QED  BY <1>1, <1>2, <1>3, <1>4, <1>5, <1>6

-----------------------------------------------------------------------------
(***************************************************************************)
(* sbrk that has moved the break returns the old one, and has not wrapped. *)
(***************************************************************************)
LEMMA SbrkMoves ==
  ASSUME brk \in Base .. Limit, NEW k \in Word \ {0}, Sbrk(k).done
  PROVE  Sbrk(k).at = brk /\ Sbrk(k).brk = brk + k /\ brk + k <= Limit
<1> DEFINE M == 2^W
           target == Wrap(brk + k)
<1>1. /\ M \in Nat /\ M > 0 /\ brk \in Nat /\ Limit \in Nat /\ Limit < M /\ brk <= Limit
      /\ k \in Nat /\ k > 0 /\ k < M
  BY WordIsPositive, WidthAssumption DEF Word
<1> HIDE DEF M
<1>2. \A j \in 0 .. M - 1 : Wrap(j) = j
  BY WrapFacts DEF M
<1>3. \A j \in M .. 2 * M - 1 : Wrap(j) = j - M
  BY WrapFacts DEF M
<1>4. target >= brk /\ target <= Limit
  <2>1. target \in Int
    BY <1>1, WrapFacts, WordIsPositive
  <2>. QED  BY <1>1, <2>1 DEF Sbrk
<1>5. brk + k < M
  <2>1. SUFFICES ASSUME brk + k >= M PROVE FALSE
    BY <1>1
  <2>2. target = brk + k - M
    BY <1>1, <1>3, <2>1
  <2>. QED  BY <1>1, <1>4, <2>2
<1>6. target = brk + k
  BY <1>1, <1>2, <1>5
<1>7. Wrap(target - k) = brk
  BY <1>1, <1>2, <1>6
<1>. QED  BY <1>1, <1>4, <1>6, <1>7 DEF Sbrk

TakesBlock(r, bytes) ==
    \E i \in DOMAIN list :
       /\ list[i].free /\ list[i].size >= bytes
       /\ r.list = [list EXCEPT ![i].free = FALSE]
       /\ r.brk = brk /\ r.at = list[i].at

AddsBlock(r, bytes) ==
    /\ r.list = Append(list, [at |-> brk + Header, size |-> bytes, free |-> FALSE])
    /\ r.brk = brk + Header + bytes /\ r.brk <= Limit
    /\ r.at = brk + Header

(***************************************************************************)
(* sbrk_alloc hands out a free block of the list that is large enough, or  *)
(* adds a block behind the break, or leaves everything as it is.           *)
(***************************************************************************)
LEMMA AllocOutcomes ==
  ASSUME brk \in Base .. Limit, InOrder(list, brk),
         NEW bytes \in Word \ {0}, ~SbrkAlloc(bytes).astray
  PROVE  LET r == SbrkAlloc(bytes) IN
         \/ TakesBlock(r, bytes) \/ AddsBlock(r, bytes)
         \/ r.at = Null /\ r.list = list /\ r.brk = brk
<1> DEFINE r == SbrkAlloc(bytes)
           total == Wrap(Header + bytes)
           q == Sbrk(total)
<1>0. /\ Header \in Nat /\ bytes \in Nat /\ Header > 0 /\ bytes > 0
      /\ brk \in Nat /\ Limit \in Nat /\ Limit < 2^W /\ 2^W \in Nat
  BY WordIsPositive, WidthAssumption, SizesAssumption DEF Word
<1>1. CASE Fitting(bytes) # {}
  <2> DEFINE i == First(Fitting(bytes))
  <2>1. DOMAIN list \subseteq Nat
    BY <1>0, InOrderFacts
  <2>2. i \in Fitting(bytes)
    BY <1>1, <2>1, Least DEF Fitting
  <2>3. i \in DOMAIN list /\ list[i].free /\ list[i].size >= bytes
    BY <2>2 DEF Fitting
  <2>4. r.list = [list EXCEPT ![i].free = FALSE] /\ r.brk = brk /\ r.at = list[i].at
    BY <1>1 DEF SbrkAlloc, Reused
  <2>. QED  BY <2>3, <2>4 DEF TakesBlock
<1>2. CASE Fitting(bytes) = {} /\ q.at = Null
  BY <1>2 DEF SbrkAlloc
<1>3. CASE Fitting(bytes) = {} /\ q.at # Null
  <2>1. /\ r.list = Appended(bytes, q.at) /\ r.brk = q.brk /\ r.at = Wrap(q.at + Header)
        /\ r.astray = (~q.done \/ total # Header + bytes)
    BY <1>3 DEF SbrkAlloc
  <2>2. q.done /\ total = Header + bytes
    BY <2>1
  <2>3. total \in Word \ {0}
    <3>1. Header + bytes \in Int
      BY <1>0
    <3>2. total \in Word
      BY <3>1, WrapFacts DEF Word
    <3>. QED  BY <1>0, <2>2, <3>2
  <2>4. q.at = brk /\ q.brk = brk + total /\ brk + total <= Limit
    BY <2>2, <2>3, SbrkMoves
  <2>5. brk + Header \in 0 .. 2^W - 1
    BY <1>0, <2>2, <2>4
  <2>6. Wrap(brk + Header) = brk + Header
    BY <2>5, WrapFacts
  <2>7. r.brk = brk + Header + bytes
    BY <1>0, <2>1, <2>2, <2>4
  <2>. QED  BY <2>1, <2>2, <2>4, <2>6, <2>7 DEF AddsBlock, Appended
<1>. QED  BY <1>1, <1>2, <1>3

(***************************************************************************)
(* sbrk_free of a block in the list: the last one goes, and the break      *)
(* stays because the negative increment is refused; any other is marked.   *)
(***************************************************************************)
LEMMA FreeOutcomes ==
  ASSUME NEW l, NEW b \in Base .. Limit, InOrder(l, b), NEW i \in DOMAIN l
  PROVE  LET r == SbrkFree(l, b, l[i].at) IN
         /\ r.brk = b
         /\ \/ i = Len(l) /\ r.list = SubSeq(l, 1, Len(l) - 1) /\ r.lost = {<<l[i].at, l[i].size>>}
            \/ r.list = [l EXCEPT ![i].free = TRUE] /\ r.lost = {}
<1> DEFINE M == 2^W
           size == l[i].size
           at == l[i].at
           back == Wrap(0 - Header - size)
<1>0. /\ M \in Nat /\ M > 0 /\ b \in Nat /\ Base \in Nat /\ Limit < M /\ Limit \in Nat
      /\ Header \in Nat /\ Header > 0 /\ Base <= b /\ b <= Limit
  BY WordIsPositive, WidthAssumption, SizesAssumption DEF Word
<1>1. Block(l, at) = i /\ at \in Nat /\ size \in Nat /\ size > 0 /\ (at + size = b => i = Len(l))
  BY <1>0, InOrderFacts
<1>2. Base + Header <= at /\ at + size <= b
  BY DEF InOrder
<1> HIDE DEF M
<1>3. \A k \in 1 - M .. 0 - 1 : Wrap(k) = k + M
  BY WrapFacts DEF M
<1>4. \A k \in M .. 2 * M - 1 : Wrap(k) = k - M
  BY WrapFacts DEF M
<1> HIDE DEF size, at
<1>5. back = M - Header - size
  <2>1. 0 - Header - size \in 1 - M .. 0 - 1
    BY <1>0, <1>1, <1>2
  <2>. QED  BY <1>0, <1>1, <1>3, <2>1
<1> HIDE DEF back
<1>6. Wrap(b + back) < b
  <2>1. b + back \in M .. 2 * M - 1
    BY <1>0, <1>1, <1>2, <1>5
  <2> DEFINE k == b + back
  <2>2. k \in M .. 2 * M - 1 /\ k - M < b
    BY <1>0, <1>1, <1>5, <2>1
  <2> HIDE DEF k
  <2>3. Wrap(k) = k - M
    BY <1>0, <1>4, <2>2
  <2>4. Wrap(k) < b
    BY <2>2, <2>3
  <2>. QED  BY <2>4 DEF k
<1>7. CASE at + size = b
  BY <1>1, <1>6, <1>7 DEF SbrkFree, Unlinked, at, size, back
<1>8. CASE at + size # b
  BY <1>1, <1>8 DEF SbrkFree, at, size
<1>. QED  BY <1>7, <1>8 DEF at

-----------------------------------------------------------------------------
(***************************************************************************)
(* A block that becomes a client's: the list stays in order, the client's  *)
(* address is new, and everything is still accounted for.                  *)
(***************************************************************************)
LEMMA TakenBlock ==
  ASSUME brk \in Base .. Limit, InOrder(list, brk), Owners(list, held),
         Accounted(list, brk, held, forgotten, lost),
         NEW r, NEW bytes \in Word \ {0}, TakesBlock(r, bytes)
  PROVE  LET H == held \cup {<<r.at, bytes>>} IN
         /\ r.brk \in Base .. Limit /\ InOrder(r.list, r.brk)
         /\ Owners(r.list, H) /\ Accounted(r.list, r.brk, H, forgotten, lost)
         /\ \A h \in held : h[1] # r.at
<1> DEFINE H == held \cup {<<r.at, bytes>>}
<1>1. PICK i \in DOMAIN list :
         /\ list[i].free /\ list[i].size >= bytes
         /\ r.list = [list EXCEPT ![i].free = FALSE]
         /\ r.brk = brk /\ r.at = list[i].at
  BY DEF TakesBlock
<1>2. brk \in Nat /\ bytes \in Nat
  BY WordIsPositive, WidthAssumption DEF Word
<1> DEFINE m == [list EXCEPT ![i].free = FALSE]
<1>3. r.list = m /\ SameShape(m, list) /\ NowTaken(m, list, i)
  BY <1>1, SetTaken DEF InOrder
<1> HIDE DEF m
<1>4. /\ \A j \in DOMAIN list : list[j].at \in Nat /\ list[j].size \in Nat \ {0} /\ list[j].free \in BOOLEAN
      /\ \A j, k \in DOMAIN list : list[j].at = list[k].at => j = k
  BY <1>2, InOrderFacts
<1>5. InOrder(r.list, r.brk)
  BY <1>1, <1>3, ZenonT(30) DEF InOrder, SameShape
<1>6. \A h \in held : h[1] # r.at
  BY <1>1, <1>4 DEF Owners
<1>7. Owners(r.list, H)
  <2>1. H \subseteq Nat \X Nat
    BY <1>1, <1>2, <1>4 DEF Owners
  <2>2. ASSUME NEW h \in H
        PROVE  \E j \in DOMAIN m : m[j].at = h[1] /\ ~m[j].free /\ h[2] <= m[j].size
    <3>1. CASE h \in held
      <4>1. PICK j \in DOMAIN list : list[j].at = h[1] /\ ~list[j].free /\ h[2] <= list[j].size
        BY <3>1 DEF Owners
      <4>. QED  BY <1>1, <1>3, <4>1 DEF SameShape, NowTaken
    <3>2. CASE h = <<r.at, bytes>>
      BY <1>1, <1>3, <3>2 DEF SameShape, NowTaken
    <3>. QED  BY <3>1, <3>2
  <2>3. \A g, h \in H : g[1] = h[1] => g = h
    BY <1>6 DEF Owners
  <2>. QED  BY <1>3, <2>1, <2>2, <2>3 DEF Owners
<1>8. Accounted(r.list, r.brk, H, forgotten, lost)
  <2>1. Covered(m, lost) = Base .. brk - 1
    BY <1>3, CoveredSame DEF Accounted
  <2>2. \A j \in DOMAIN m : ~m[j].free => m[j].at \in forgotten \cup {h[1] : h \in H}
    <3>1. r.at \in {h[1] : h \in H}
      <4>1. <<r.at, bytes>> \in H /\ <<r.at, bytes>>[1] = r.at
        OBVIOUS
      <4>. QED  BY <4>1
    <3>2. {h[1] : h \in held} \subseteq {h[1] : h \in H}
      OBVIOUS
    <3>. QED  BY <1>1, <1>3, <3>1, <3>2 DEF Accounted, SameShape, NowTaken
  <2>3. lost \subseteq Nat \X (Nat \ {0}) /\ \A x \in lost : \A j \in DOMAIN m : x[1] # m[j].at
    BY <1>3 DEF Accounted, SameShape
  <2>4. Accounted(m, brk, H, forgotten, lost)
    BY <2>1, <2>2, <2>3 DEF Accounted
  <2>. QED  BY <1>1, <1>3, <2>4
<1>. QED  BY <1>1, <1>5, <1>6, <1>7, <1>8

(***************************************************************************)
(* What is lost lies below the break, as all that is covered does.         *)
(***************************************************************************)
LEMMA LostIsBelow ==
  ASSUME NEW l, NEW b \in Base .. Limit, NEW H, NEW F, NEW X, Accounted(l, b, H, F, X), NEW x \in X
  PROVE  x[1] \in Nat /\ x[2] \in Nat \ {0} /\ x[1] + x[2] <= b
<1>1. x[1] \in Nat /\ x[2] \in Nat \ {0}
  BY DEF Accounted
<1>2. Header \in Nat /\ b \in Nat
  BY WordIsPositive, WidthAssumption, SizesAssumption DEF Word
<1>3. x[1] + x[2] - 1 \in Extent(x[1], x[2])
  BY <1>1, <1>2 DEF Extent
<1>4. x[1] + x[2] - 1 \in Covered(l, X)
  BY <1>3, CoveredBy
<1>5. x[1] + x[2] - 1 \in Base .. b - 1
  BY <1>4 DEF Accounted
<1>. QED  BY <1>1, <1>2, <1>5

(***************************************************************************)
(* The same of a block that is added behind the break.                     *)
(***************************************************************************)
LEMMA AddedBlock ==
  ASSUME brk \in Base .. Limit, InOrder(list, brk), Owners(list, held),
         Accounted(list, brk, held, forgotten, lost),
         NEW r, NEW bytes \in Word \ {0}, AddsBlock(r, bytes)
  PROVE  LET H == held \cup {<<r.at, bytes>>} IN
         /\ r.brk \in Base .. Limit /\ InOrder(r.list, r.brk)
         /\ Owners(r.list, H) /\ Accounted(r.list, r.brk, H, forgotten, lost)
         /\ \A h \in held : h[1] # r.at
<1> DEFINE H == held \cup {<<r.at, bytes>>}
           new == [at |-> brk + Header, size |-> bytes, free |-> FALSE]
           m == Append(list, new)
           n == Len(list)
<1>1. /\ brk \in Nat /\ Base \in Nat /\ Limit \in Nat /\ Header \in Nat /\ Header > 0
      /\ bytes \in Nat /\ bytes > 0 /\ Base <= brk
  BY WordIsPositive, WidthAssumption, SizesAssumption DEF Word
<1>2. r.list = m /\ r.brk = brk + Header + bytes /\ r.brk <= Limit /\ r.at = brk + Header
  BY DEF AddsBlock
<1>3. /\ n \in Nat /\ DOMAIN list = 1 .. n
      /\ \A j \in DOMAIN list : list[j] \in Blocks /\ list[j].at \in Nat /\ list[j].size \in Nat \ {0}
  BY <1>1, InOrderFacts
<1>4. new \in Blocks
  BY <1>1 DEF Blocks
<1>5. /\ m \in Seq(Blocks) /\ DOMAIN m = 1 .. n + 1
      /\ \A j \in DOMAIN list : m[j] = list[j]
      /\ m[n + 1] = new
  BY <1>3, <1>4, AppendProperties, LenProperties DEF InOrder
<1>6. new.at = brk + Header /\ new.size = bytes /\ ~new.free
  OBVIOUS
<1> HIDE DEF m, n, new
<1>7. \A j \in DOMAIN m : j \in DOMAIN list \/ j = n + 1
  BY <1>3, <1>5
<1>8. DOMAIN list \subseteq DOMAIN m /\ n + 1 \in DOMAIN m
  BY <1>3, <1>5
<1>9. r.brk \in Base .. Limit
  BY <1>1, <1>2
<1>10. InOrder(m, r.brk)
  <2>1. \A j \in DOMAIN m : Base + Header <= m[j].at /\ m[j].at + m[j].size <= r.brk
    <3>1. ASSUME NEW j \in DOMAIN list
          PROVE  Base + Header <= m[j].at /\ m[j].at + m[j].size <= r.brk
      <4>1. Base + Header <= list[j].at /\ list[j].at + list[j].size <= brk
        BY DEF InOrder
      <4>. QED  BY <1>1, <1>2, <1>3, <1>5, <4>1
    <3>2. Base + Header <= m[n + 1].at /\ m[n + 1].at + m[n + 1].size <= r.brk
      BY <1>1, <1>2, <1>5, <1>6
    <3>. QED  BY <1>7, <3>1, <3>2
  <2>2. ASSUME NEW j \in DOMAIN m, NEW k \in DOMAIN m, j < k
        PROVE  m[j].at + m[j].size + Header <= m[k].at
    <3>1. j \in DOMAIN list
      BY <1>3, <1>5, <2>2
    <3>2. CASE k \in DOMAIN list
      BY <1>5, <2>2, <3>1, <3>2 DEF InOrder
    <3>3. CASE k = n + 1
      <4>1. list[j].at + list[j].size <= brk
        BY <3>1 DEF InOrder
      <4>. QED  BY <1>1, <1>3, <1>5, <1>6, <3>1, <3>3, <4>1
    <3>. QED  BY <1>7, <3>2, <3>3
  <2>. QED  BY <1>5, <2>1, <2>2 DEF InOrder
<1>11. \A h \in held : h[1] # r.at
  <2>1. ASSUME NEW h \in held PROVE h[1] # r.at
    <3>1. PICK j \in DOMAIN list : list[j].at = h[1]
      BY DEF Owners
    <3>2. list[j].at + list[j].size <= brk
      BY DEF InOrder
    <3>. QED  BY <1>1, <1>2, <1>3, <3>1, <3>2
  <2>. QED  BY <2>1
<1>12. Owners(m, H)
  <2>1. H \subseteq Nat \X Nat
    BY <1>1, <1>2 DEF Owners
  <2>2. ASSUME NEW h \in H
        PROVE  \E j \in DOMAIN m : m[j].at = h[1] /\ ~m[j].free /\ h[2] <= m[j].size
    <3>1. CASE h \in held
      <4>1. PICK j \in DOMAIN list : list[j].at = h[1] /\ ~list[j].free /\ h[2] <= list[j].size
        BY <3>1 DEF Owners
      <4>. QED  BY <1>5, <1>8, <4>1
    <3>2. CASE h = <<r.at, bytes>>
      BY <1>1, <1>2, <1>5, <1>6, <1>8, <3>2
    <3>. QED  BY <3>1, <3>2
  <2>3. \A g, h \in H : g[1] = h[1] => g = h
    BY <1>11 DEF Owners
  <2>. QED  BY <2>1, <2>2, <2>3 DEF Owners
<1>13. Accounted(m, r.brk, H, forgotten, lost)
  <2>1. Covered(m, lost) = Base .. r.brk - 1
    <3>1. \A k : k \in Covered(list, lost) <=> k \in Base .. brk - 1
      BY DEF Accounted
    <3>2. Extent(m[n + 1].at, m[n + 1].size) = brk .. r.brk - 1
      BY <1>1, <1>2, <1>5, <1>6 DEF Extent
    <3>3. \A k : (\E j \in DOMAIN m : k \in Extent(m[j].at, m[j].size))
                   <=> \/ \E j \in DOMAIN list : k \in Extent(list[j].at, list[j].size)
                       \/ k \in brk .. r.brk - 1
      BY <1>5, <1>7, <1>8, <3>2
    <3>4. \A k : k \in Covered(m, lost) <=> k \in Base .. brk - 1 \/ k \in brk .. r.brk - 1
      BY <3>1, <3>3, CoveredBy
    <3>5. \A k : k \in Base .. brk - 1 \/ k \in brk .. r.brk - 1 <=> k \in Base .. r.brk - 1
      BY <1>1, <1>2
    <3>. QED  BY <3>4, <3>5
  <2>2. \A j \in DOMAIN m : ~m[j].free => m[j].at \in forgotten \cup {h[1] : h \in H}
    <3>1. r.at \in {h[1] : h \in H}
      <4>1. <<r.at, bytes>> \in H /\ <<r.at, bytes>>[1] = r.at
        OBVIOUS
      <4>. QED  BY <4>1
    <3>2. {h[1] : h \in held} \subseteq {h[1] : h \in H}
      OBVIOUS
    <3>3. \A j \in DOMAIN list : ~m[j].free => m[j].at \in forgotten \cup {h[1] : h \in H}
      BY <1>5, <3>2 DEF Accounted
    <3>4. m[n + 1].at = r.at
      BY <1>2, <1>5, <1>6
    <3>. QED  BY <1>7, <3>1, <3>3, <3>4
  <2>3. lost \subseteq Nat \X (Nat \ {0})
    BY DEF Accounted
  <2>4. \A x \in lost : \A j \in DOMAIN m : x[1] # m[j].at
    <3>1. \A x \in lost : \A j \in DOMAIN list : x[1] # m[j].at
      BY <1>5 DEF Accounted
    <3>2. ASSUME NEW x \in lost PROVE x[1] # m[n + 1].at
      <4>1. x[1] \in Nat /\ x[2] \in Nat \ {0} /\ x[1] + x[2] <= brk
        BY LostIsBelow
      <4>. QED  BY <1>1, <1>5, <1>6, <4>1
    <3>. QED  BY <1>7, <3>1, <3>2
  <2>. QED  BY <2>1, <2>2, <2>3, <2>4 DEF Accounted
<1>. QED  BY <1>2, <1>9, <1>10, <1>11, <1>12, <1>13

(***************************************************************************)
(* A buffer given back: its client forgets it, and no other client's block *)
(* is touched, whether the block is unlinked or marked free.               *)
(***************************************************************************)
LEMMA FreedBlock ==
  ASSUME NEW l, NEW b \in Base .. Limit, NEW H, NEW F, NEW X,
         InOrder(l, b), Owners(l, H), Accounted(l, b, H, F, X), NEW h \in H
  PROVE  LET r == SbrkFree(l, b, h[1]) IN
         /\ r.brk = b /\ InOrder(r.list, b)
         /\ Owners(r.list, H \ {h}) /\ Accounted(r.list, b, H \ {h}, F, X \cup r.lost)
<1> DEFINE r == SbrkFree(l, b, h[1])
           G == H \ {h}
           n == Len(l)
<1>1. PICK i \in DOMAIN l : l[i].at = h[1]
  BY DEF Owners
<1>2. b \in Nat
  BY WidthAssumption DEF Word
<1>3. /\ n \in Nat /\ DOMAIN l = 1 .. n
      /\ \A j \in DOMAIN l : l[j] \in Blocks /\ l[j].at \in Nat /\ l[j].size \in Nat \ {0}
      /\ \A j, k \in DOMAIN l : l[j].at = l[k].at => j = k
  BY <1>2, InOrderFacts
<1>4. /\ r.brk = b
      /\ \/ i = n /\ r.list = SubSeq(l, 1, n - 1) /\ r.lost = {<<l[i].at, l[i].size>>}
         \/ r.list = [l EXCEPT ![i].free = TRUE] /\ r.lost = {}
  <2> DEFINE q == SbrkFree(l, b, l[i].at)
  <2>1. /\ q.brk = b
        /\ \/ i = n /\ q.list = SubSeq(l, 1, n - 1) /\ q.lost = {<<l[i].at, l[i].size>>}
           \/ q.list = [l EXCEPT ![i].free = TRUE] /\ q.lost = {}
    BY FreeOutcomes
  <2>2. q = r
    BY <1>1
  <2> HIDE DEF q, r
  <2>. QED  BY <2>1, <2>2
<1> HIDE DEF r
<1>5. G \subseteq Nat \X Nat /\ \A f, g \in G : f[1] = g[1] => f = g
  BY DEF Owners
<1>6. ASSUME NEW g \in G
      PROVE  \E j \in DOMAIN l : j # i /\ l[j].at = g[1] /\ ~l[j].free /\ g[2] <= l[j].size
  <2>1. PICK j \in DOMAIN l : l[j].at = g[1] /\ ~l[j].free /\ g[2] <= l[j].size
    BY DEF Owners
  <2>2. g[1] # h[1]
    BY DEF Owners
  <2>. QED  BY <1>1, <2>1, <2>2
<1>7. ASSUME NEW j \in DOMAIN l, j # i, ~l[j].free
      PROVE  l[j].at \in F \cup {g[1] : g \in G}
  <2>1. l[j].at # h[1]
    BY <1>1, <1>3, <1>7
  <2>2. l[j].at \in F \/ \E g \in H : l[j].at = g[1]
    BY <1>7 DEF Accounted
  <2>. QED  BY <2>1, <2>2
<1>8. CASE i = n /\ r.list = SubSeq(l, 1, n - 1) /\ r.lost = {<<l[i].at, l[i].size>>}
  <2> DEFINE m == SubSeq(l, 1, n - 1)
             x == <<l[i].at, l[i].size>>
  <2>1. n > 0 /\ i = n /\ r.list = m /\ r.lost = {x}
    BY <1>3, <1>8
  <2>2. m \in Seq(Blocks) /\ DOMAIN m = 1 .. n - 1 /\ \A j \in 1 .. n - 1 : m[j] = l[j]
    <3>1. \A k \in 1 .. n - 1 : l[k] \in Blocks
      BY <1>3
    <3>2. m = [k \in 1 .. n - 1 |-> l[k]]
      BY <1>3, <2>1, SubSeqProperties DEF InOrder
    <3>3. n - 1 \in Nat
      BY <1>3, <2>1
    <3> DEFINE N == n - 1
    <3> HIDE DEF m, N
    <3>4. m = [k \in 1 .. N |-> l[k]] /\ N \in Nat /\ \A k \in 1 .. N : l[k] \in Blocks
      BY <3>1, <3>2, <3>3 DEF N
    <3>5. m \in Seq(Blocks) /\ DOMAIN m = 1 .. N /\ \A j \in 1 .. N : m[j] = l[j]
      BY <3>4, SeqDef
    <3>. QED  BY <3>5 DEF N
  <2> HIDE DEF m
  <2>3. \A j : j \in DOMAIN m <=> (j \in DOMAIN l /\ j # i)
    BY <1>3, <2>1, <2>2
  <2>4. InOrder(m, b)
    BY <2>2, <2>3 DEF InOrder
  <2>5. Owners(m, G)
    <3>1. ASSUME NEW g \in G
          PROVE  \E j \in DOMAIN m : m[j].at = g[1] /\ ~m[j].free /\ g[2] <= m[j].size
      <4>1. PICK j \in DOMAIN l : j # i /\ l[j].at = g[1] /\ ~l[j].free /\ g[2] <= l[j].size
        BY <1>6
      <4>2. j \in DOMAIN m /\ m[j] = l[j]
        BY <2>2, <2>3, <4>1
      <4>. QED  BY <4>1, <4>2
    <3>. QED  BY <1>5, <3>1 DEF Owners
  <2>6. Covered(m, X \cup {x}) = Base .. b - 1
    <3>1. x[1] = l[i].at /\ x[2] = l[i].size
      OBVIOUS
    <3> HIDE DEF x
    <3>2. \A k : (\E j \in DOMAIN l : k \in Extent(l[j].at, l[j].size))
                  <=> \/ \E j \in DOMAIN m : k \in Extent(m[j].at, m[j].size)
                      \/ k \in Extent(x[1], x[2])
      BY <2>2, <2>3, <3>1
    <3>3. \A k : (\E y \in X \cup {x} : k \in Extent(y[1], y[2]))
                  <=> \/ \E y \in X : k \in Extent(y[1], y[2])
                      \/ k \in Extent(x[1], x[2])
      OBVIOUS
    <3>4. \A k : k \in Covered(m, X \cup {x}) <=> k \in Covered(l, X)
      BY <3>2, <3>3, CoveredBy
    <3>. QED  BY <3>4 DEF Accounted
  <2>7. X \cup {x} \subseteq Nat \X (Nat \ {0})
    BY <1>3 DEF Accounted
  <2>8. \A j \in DOMAIN m : ~m[j].free => m[j].at \in F \cup {g[1] : g \in G}
    BY <1>7, <2>2, <2>3
  <2>9. \A y \in X \cup {x} : \A j \in DOMAIN m : y[1] # m[j].at
    <3>1. \A y \in X : \A j \in DOMAIN m : y[1] # m[j].at
      BY <2>2, <2>3 DEF Accounted
    <3>2. \A j \in DOMAIN m : x[1] # m[j].at
      BY <1>3, <2>2, <2>3
    <3>. QED  BY <3>1, <3>2
  <2>10. Accounted(m, b, G, F, X \cup {x})
    BY <2>6, <2>7, <2>8, <2>9 DEF Accounted
  <2>11. r.brk = b
    BY <1>4
  <2> DEFINE gone == r.lost
  <2>12. gone = {x}
    BY <2>1
  <2> HIDE DEF x, gone
  <2>13. Accounted(m, b, G, F, X \cup gone)
    BY <2>10, <2>12
  <2>. QED  BY <2>1, <2>4, <2>5, <2>11, <2>13 DEF r, gone
<1>9. CASE r.list = [l EXCEPT ![i].free = TRUE] /\ r.lost = {}
  <2> DEFINE m == [l EXCEPT ![i].free = TRUE]
  <2>1. SameShape(m, l) /\ NowFree(m, l, i)
    BY SetFree DEF InOrder
  <2>2. r.list = m /\ X \cup r.lost = X
    BY <1>9
  <2> HIDE DEF m
  <2>3. InOrder(m, b)
    BY <2>1 DEF InOrder, SameShape
  <2>4. Owners(m, G)
    <3>1. ASSUME NEW g \in G
          PROVE  \E j \in DOMAIN m : m[j].at = g[1] /\ ~m[j].free /\ g[2] <= m[j].size
      BY <1>6, <2>1 DEF SameShape, NowFree
    <3>. QED  BY <1>5, <3>1 DEF Owners
  <2>5. Covered(m, X) = Base .. b - 1
    BY <2>1, CoveredSame DEF Accounted
  <2>6. \A j \in DOMAIN m : ~m[j].free => m[j].at \in F \cup {g[1] : g \in G}
    BY <1>7, <2>1 DEF SameShape, NowFree
  <2>7. X \subseteq Nat \X (Nat \ {0}) /\ \A y \in X : \A j \in DOMAIN m : y[1] # m[j].at
    BY <2>1 DEF SameShape, Accounted
  <2>8. Accounted(m, b, G, F, X)
    BY <2>5, <2>6, <2>7 DEF Accounted
  <2>9. r.brk = b
    BY <1>4
  <2>10. Accounted(m, b, G, F, X \cup r.lost)
    BY <2>2, <2>8
  <2>. QED  BY <2>2, <2>3, <2>4, <2>9, <2>10 DEF r
<1>. QED  BY <1>4, <1>8, <1>9 DEF r

-----------------------------------------------------------------------------
(***************************************************************************)
(* What sbrk_alloc leaves behind when the block is one it may hand out,    *)
(* and when there is none.                                                 *)
(***************************************************************************)
LEMMA Allocated ==
  ASSUME Sound(list, brk, held, forgotten, lost),
         NEW bytes \in Word \ {0}, ~SbrkAlloc(bytes).astray
  PROVE  LET r == SbrkAlloc(bytes) IN
         IF r.at = Null THEN r.list = list /\ r.brk = brk
         ELSE /\ Sound(r.list, r.brk, held \cup {<<r.at, bytes>>}, forgotten, lost)
              /\ \A h \in held : h[1] # r.at
<1> DEFINE r == SbrkAlloc(bytes)
<1>1. /\ brk \in Base .. Limit /\ InOrder(list, brk)
      /\ Owners(list, held) /\ Accounted(list, brk, held, forgotten, lost)
  BY DEF Sound
<1>2. \/ TakesBlock(r, bytes) \/ AddsBlock(r, bytes)
      \/ r.at = Null /\ r.list = list /\ r.brk = brk
  BY <1>1, AllocOutcomes
<1>3. /\ Header \in Nat /\ Header > 0 /\ Base \in Nat /\ brk \in Nat
      /\ \A i \in DOMAIN list : list[i].at \in Nat
  BY <1>1, InOrderFacts, WordIsPositive, WidthAssumption, SizesAssumption DEF Word
<1> HIDE DEF r
<1>4. CASE TakesBlock(r, bytes)
  <2>1. r.at # Null
    <3>1. PICK i \in DOMAIN list : r.at = list[i].at
      BY <1>4 DEF TakesBlock
    <3>2. Base + Header <= list[i].at
      BY <1>1 DEF InOrder
    <3>. QED  BY <1>3, <3>1, <3>2 DEF Null
  <2>2. /\ Sound(r.list, r.brk, held \cup {<<r.at, bytes>>}, forgotten, lost)
        /\ \A h \in held : h[1] # r.at
    BY <1>1, <1>4, TakenBlock DEF Sound
  <2>. QED  BY <2>1, <2>2 DEF r
<1>5. CASE AddsBlock(r, bytes)
  <2>1. r.at # Null
    BY <1>3, <1>5 DEF AddsBlock, Null
  <2>2. /\ Sound(r.list, r.brk, held \cup {<<r.at, bytes>>}, forgotten, lost)
        /\ \A h \in held : h[1] # r.at
    BY <1>1, <1>5, AddedBlock DEF Sound
  <2>. QED  BY <2>1, <2>2 DEF r
<1>6. CASE r.at = Null /\ r.list = list /\ r.brk = brk
  BY <1>6 DEF r
<1>. QED  BY <1>2, <1>4, <1>5, <1>6

(***************************************************************************)
(* A client that forgets a buffer leaves a block the history remembers.    *)
(***************************************************************************)
LEMMA Forgotten ==
  ASSUME NEW l, NEW b, NEW H, NEW F, NEW X, Sound(l, b, H, F, X), NEW h \in H
  PROVE  Sound(l, b, H \ {h}, F \cup {h[1]}, X)
<1>1. Owners(l, H \ {h})
  <2>1. H \subseteq Nat \X Nat /\ \A g \in H \ {h} : g \in H
    BY DEF Sound, Owners
  <2>. QED  BY <2>1 DEF Sound, Owners
<1>2. \A i \in DOMAIN l : ~l[i].free => l[i].at \in (F \cup {h[1]}) \cup {g[1] : g \in H \ {h}}
  <2>1. ASSUME NEW i \in DOMAIN l, ~l[i].free
        PROVE  l[i].at \in (F \cup {h[1]}) \cup {g[1] : g \in H \ {h}}
    <3>1. l[i].at \in F \/ \E g \in H : l[i].at = g[1]
      BY <2>1 DEF Sound, Accounted
    <3>. QED  BY <3>1
  <2>. QED  BY <2>1
<1>3. Accounted(l, b, H \ {h}, F \cup {h[1]}, X)
  BY <1>2 DEF Sound, Accounted
<1>. QED  BY <1>1, <1>3 DEF Sound

(***************************************************************************)
(* A client that needs more, or less, of the block it has.                 *)
(***************************************************************************)
LEMMA Resized ==
  ASSUME NEW l, NEW b \in Base .. Limit, NEW H, NEW F, NEW X, Sound(l, b, H, F, X),
         NEW h \in H, NEW need \in Nat, need <= l[Block(l, h[1])].size
  PROVE  Sound(l, b, (H \ {h}) \cup {<<h[1], need>>}, F, X)
<1> DEFINE new == <<h[1], need>>
           G == (H \ {h}) \cup {new}
<1>1. b \in Nat
  BY WidthAssumption DEF Word
<1>2. PICK i \in DOMAIN l : l[i].at = h[1] /\ ~l[i].free
  BY DEF Sound, Owners
<1>3. Block(l, h[1]) = i
  BY <1>1, <1>2, InOrderFacts DEF Sound
<1>4. new[1] = h[1] /\ new[2] = need /\ new \in Nat \X Nat
  BY DEF Sound, Owners
<1> HIDE DEF new
<1>5. \E j \in DOMAIN l : l[j].at = new[1] /\ ~l[j].free /\ new[2] <= l[j].size
  BY <1>2, <1>3, <1>4
<1>6. Owners(l, G)
  <2>1. G \subseteq Nat \X Nat
    BY <1>4 DEF Sound, Owners
  <2>2. ASSUME NEW g \in G
        PROVE  \E j \in DOMAIN l : l[j].at = g[1] /\ ~l[j].free /\ g[2] <= l[j].size
    <3>1. CASE g \in H
      BY <3>1 DEF Sound, Owners
    <3>2. CASE g = new
      BY <1>5, <3>2
    <3>. QED  BY <3>1, <3>2
  <2>3. \A f, g \in G : f[1] = g[1] => f = g
    <3>1. \A f, g \in H : f[1] = g[1] => f = g
      BY DEF Sound, Owners
    <3>2. \A g \in H \ {h} : g[1] # new[1]
      BY <1>4, <3>1
    <3>. QED  BY <3>1, <3>2
  <2>. QED  BY <2>1, <2>2, <2>3 DEF Owners
<1>7. {g[1] : g \in H} \subseteq {g[1] : g \in G}
  BY <1>4
<1>8. Accounted(l, b, G, F, X)
  <2>1. \A j \in DOMAIN l : ~l[j].free => l[j].at \in F \cup {g[1] : g \in G}
    BY <1>7 DEF Sound, Accounted
  <2>. QED  BY <2>1 DEF Sound, Accounted
<1>. QED  BY <1>6, <1>8 DEF Sound, new

-----------------------------------------------------------------------------
(***************************************************************************)
(* Nothing is below the first break but what Base leaves out.              *)
(***************************************************************************)
LEMMA InitIInv == Init => IInv
<1>1. SUFFICES ASSUME Init PROVE IInv
  OBVIOUS
<1>2. brk = Base /\ list = <<>> /\ held = {} /\ lost = {}
  BY <1>1 DEF Init
<1>3. Base \in Nat /\ Base \in Base .. Limit
  BY WordIsPositive, WidthAssumption DEF Word
<1>4. list \in Seq(Blocks) /\ DOMAIN list = {}
  BY <1>2
<1>5. InOrder(list, brk) /\ Owners(list, held)
  BY <1>2, <1>4 DEF InOrder, Owners
<1>6. Covered(list, lost) = Base .. brk - 1
  <2>1. \A k : k \notin Covered(list, lost)
    BY <1>2, <1>4, CoveredBy
  <2>2. \A k : k \notin Base .. brk - 1
    BY <1>2, <1>3
  <2>. QED  BY <2>1, <2>2
<1>7. Accounted(list, brk, held, forgotten, lost)
  BY <1>2, <1>4, <1>6 DEF Accounted
<1>. QED  BY <1>2, <1>3, <1>5, <1>7 DEF IInv, Sound

(***************************************************************************)
(* Every call of the allocator and of the multiplying wrappers keeps the   *)
(* heap sound until the first block that is not the caller's alone.        *)
(***************************************************************************)
LEMMA NextIInv == IInv /\ [Next]_vars => IInv'
<1>1. SUFFICES ASSUME IInv, [Next]_vars, ~astray' PROVE Sound(list, brk, held, forgotten, lost)'
  BY DEF IInv
<1>2. CASE UNCHANGED vars
  BY <1>1, <1>2 DEF vars, IInv
<1>3. CASE astray /\ UNCHANGED vars
  BY <1>1, <1>3 DEF vars
<1>4. ASSUME ~astray PROVE Sound(list, brk, held, forgotten, lost) /\ brk \in Base .. Limit
  BY <1>1, <1>4 DEF IInv, Sound
<1>5. Sizes \subseteq Nat /\ Counts \subseteq Nat
  BY SizesAssumption, WordIsPositive DEF Word
<1>6. ASSUME ~astray, NEW size \in Sizes, NEW n \in Counts, NAlloc(size, n)
      PROVE  Sound(list, brk, held, forgotten, lost)'
  <2> DEFINE bytes == Wrap(size * n)
             r == SbrkAlloc(bytes)
  <2>1. bytes = size * n /\ bytes \in Word \ {0}
    BY <1>5, <1>6, FitsIsExact DEF NAlloc
  <2>2. /\ list' = r.list /\ brk' = r.brk /\ astray' = r.astray
        /\ held' = IF r.at = Null THEN held ELSE held \cup {<<r.at, size * n>>}
        /\ forgotten' = forgotten /\ lost' = lost
    BY <1>6 DEF NAlloc
  <2>3. ~r.astray
    BY <1>1, <2>2
  <2> HIDE DEF bytes
  <2>4. IF r.at = Null THEN r.list = list /\ r.brk = brk
        ELSE Sound(r.list, r.brk, held \cup {<<r.at, bytes>>}, forgotten, lost)
    BY <1>4, <1>6, <2>1, <2>3, Allocated
  <2> HIDE DEF r
  <2>5. CASE r.at = Null
    BY <1>4, <1>6, <2>2, <2>4, <2>5
  <2>6. CASE r.at # Null
    BY <2>1, <2>2, <2>4, <2>6
  <2>. QED  BY <2>5, <2>6
<1>7. ASSUME ~astray, NEW h \in held, SFree(h)
      PROVE  Sound(list, brk, held, forgotten, lost)'
  <2> DEFINE r == SbrkFree(list, brk, h[1])
  <2>1. /\ list' = r.list /\ brk' = r.brk /\ lost' = lost \cup r.lost
        /\ held' = held \ {h} /\ forgotten' = forgotten
    BY <1>7 DEF SFree
  <2>2. /\ r.brk = brk /\ InOrder(r.list, brk)
        /\ Owners(r.list, held \ {h}) /\ Accounted(r.list, brk, held \ {h}, forgotten, lost \cup r.lost)
    BY <1>4, <1>7, FreedBlock DEF Sound
  <2> HIDE DEF r
  <2>. QED  BY <1>4, <1>7, <2>1, <2>2 DEF Sound
<1>8. ASSUME ~astray, NEW h \in held, ReallocToNothing(h)
      PROVE  Sound(list, brk, held, forgotten, lost)'
  BY <1>4, <1>8, Forgotten DEF ReallocToNothing
<1>9. ASSUME ~astray, NEW h \in held, NEW size \in Sizes, NEW n \in Counts, NReallocGivesUp(h, size, n)
      PROVE  Sound(list, brk, held, forgotten, lost)'
  BY <1>4, <1>9, Forgotten DEF NReallocGivesUp
<1>10. ASSUME ~astray, NEW h \in held, NEW size \in Sizes, NEW n \in Counts, NRealloc(h, size, n)
       PROVE  Sound(list, brk, held, forgotten, lost)'
  <2> DEFINE bytes == Wrap(size * n)
             r == SbrkAlloc(bytes)
             f == SbrkFree(r.list, r.brk, h[1])
             room == list[Block(list, h[1])].size
  <2>1. bytes = size * n /\ bytes \in Word \ {0} /\ bytes \in Nat
    BY <1>5, <1>10, FitsIsExact, WordIsPositive DEF NRealloc, Word
  <2>2. /\ IF room >= bytes
           THEN held' = (held \ {h}) \cup {<<h[1], size * n>>} /\ UNCHANGED <<brk, list, lost, astray>>
           ELSE IF r.at = Null THEN UNCHANGED <<brk, list, held, lost, astray>>
           ELSE IF r.astray THEN astray' = TRUE /\ UNCHANGED <<brk, list, held, lost>>
           ELSE /\ list' = f.list /\ brk' = f.brk /\ lost' = lost \cup f.lost
                /\ held' = (held \ {h}) \cup {<<r.at, size * n>>}
                /\ UNCHANGED astray
        /\ forgotten' = forgotten
    BY <1>10 DEF NRealloc
  <2> HIDE DEF bytes, f, room
  <2>3. CASE room >= bytes
    <3>1. bytes <= room
      BY <2>3
    <3>2. Sound(list, brk, (held \ {h}) \cup {<<h[1], bytes>>}, forgotten, lost)
      BY <1>4, <1>10, <2>1, <3>1, Resized DEF room
    <3>. QED  BY <2>1, <2>2, <2>3, <3>2
  <2>4. CASE ~(room >= bytes) /\ r.at = Null
    BY <1>4, <1>10, <2>2, <2>4
  <2>5. CASE ~(room >= bytes) /\ r.at # Null
    <3>1. ~r.astray
      BY <1>1, <2>2, <2>5
    <3>2. /\ Sound(r.list, r.brk, held \cup {<<r.at, bytes>>}, forgotten, lost)
          /\ \A g \in held : g[1] # r.at
      BY <1>4, <1>10, <2>1, <2>5, <3>1, Allocated
    <3> DEFINE H == held \cup {<<r.at, bytes>>}
               m == r.list
               b == r.brk
    <3> HIDE DEF r
    <3>3. /\ b \in Base .. Limit /\ InOrder(m, b)
          /\ Owners(m, H) /\ Accounted(m, b, H, forgotten, lost) /\ h \in H
      BY <1>10, <3>2 DEF Sound
    <3>4. f = SbrkFree(m, b, h[1])
      BY DEF f
    <3>5. H \ {h} = (held \ {h}) \cup {<<r.at, bytes>>}
      BY <1>10, <3>2
    <3>6. /\ list' = f.list /\ brk' = f.brk /\ lost' = lost \cup f.lost
          /\ held' = H \ {h} /\ forgotten' = forgotten
      BY <2>1, <2>2, <2>5, <3>1, <3>5
    <3> HIDE DEF H, m, b
    <3>7. /\ f.brk = b /\ InOrder(f.list, b)
          /\ Owners(f.list, H \ {h}) /\ Accounted(f.list, b, H \ {h}, forgotten, lost \cup f.lost)
      BY <3>3, <3>4, FreedBlock
    <3>. QED  BY <3>3, <3>6, <3>7 DEF Sound
  <2>. QED  BY <2>3, <2>4, <2>5
<1>. QED  BY <1>1, <1>2, <1>3, <1>6, <1>7, <1>8, <1>9, <1>10 DEF Next

-----------------------------------------------------------------------------
(***************************************************************************)
(* Blocks that are sound lie below the break, apart from one another.      *)
(***************************************************************************)
LEMMA SoundIsDisjoint == IInv => BuffersDisjoint
<1>1. SUFFICES ASSUME IInv, ~astray
      PROVE  /\ \A h \in held : \E i \in DOMAIN list : list[i].at = h[1] /\ ~list[i].free /\ h[2] <= list[i].size
             /\ \A i \in DOMAIN list : Extent(list[i].at, list[i].size) \subseteq Base .. brk - 1
             /\ \A i, j \in DOMAIN list : i # j => Extent(list[i].at, list[i].size) \cap Extent(list[j].at, list[j].size) = {}
             /\ \A g, h \in held : g[1] = h[1] => g = h
  BY DEF BuffersDisjoint
<1>2. brk \in Base .. Limit /\ InOrder(list, brk) /\ Owners(list, held)
  BY <1>1 DEF IInv, Sound
<1>3. /\ brk \in Nat /\ Base \in Nat /\ Header \in Nat /\ Header > 0
      /\ DOMAIN list = 1 .. Len(list) /\ Len(list) \in Nat
      /\ \A i \in DOMAIN list : list[i].at \in Nat /\ list[i].size \in Nat \ {0}
  BY <1>2, InOrderFacts, WordIsPositive, WidthAssumption, SizesAssumption DEF Word
<1>4. ASSUME NEW i \in DOMAIN list
      PROVE  Extent(list[i].at, list[i].size) \subseteq Base .. brk - 1
  <2>1. Base + Header <= list[i].at /\ list[i].at + list[i].size <= brk
    BY <1>2 DEF InOrder
  <2>. QED  BY <1>3, <2>1 DEF Extent
<1>5. ASSUME NEW i \in DOMAIN list, NEW j \in DOMAIN list, i < j
      PROVE  Extent(list[i].at, list[i].size) \cap Extent(list[j].at, list[j].size) = {}
  <2>1. list[i].at + list[i].size + Header <= list[j].at
    BY <1>2, <1>5 DEF InOrder
  <2>. QED  BY <1>3, <2>1, SMTT(30) DEF Extent
<1>6. ASSUME NEW i \in DOMAIN list, NEW j \in DOMAIN list, i # j
      PROVE  Extent(list[i].at, list[i].size) \cap Extent(list[j].at, list[j].size) = {}
  <2>1. i < j \/ j < i
    BY <1>3, <1>6
  <2>. QED  BY <1>5, <2>1
<1>. QED  BY <1>2, <1>4, <1>6 DEF Owners

(***************************************************************************)
(* No two clients of the sbrk heap share a byte, or one with a header, and *)
(* all have the room they asked for, however the product of their sizes    *)
(* wraps, for every width of the word (sbrk_alloc, a_nalloc, a_nrealloc):  *)
(* until a request wraps round when the header is added to it, or brk      *)
(* refuses a break. After either nothing is said; the allocator sees       *)
(* neither.                                                                *)
(***************************************************************************)
THEOREM SbrkBuffers == Spec => []BuffersDisjoint
<1>1. Spec => []IInv
  BY InitIInv, NextIInv, PTL DEF Spec
<1>. QED  BY <1>1, SoundIsDisjoint, PTL

(***************************************************************************)
(* Memory below the break is in a block that somebody has, that is free,   *)
(* or that the two known ways of losing one account for.                   *)
(***************************************************************************)
THEOREM SbrkLeaks == Spec => []NothingElseLeaks
<1>1. Spec => []IInv
  BY InitIInv, NextIInv, PTL DEF Spec
<1>2. IInv => NothingElseLeaks
  BY DEF IInv, Sound, Accounted, Covered, NothingElseLeaks
<1>. QED  BY <1>1, <1>2, PTL

=============================================================================
