------------------------------ MODULE StdioProofs ------------------------------
(***************************************************************************)
(* The standard streams' life for any number of threads, messages, hooks   *)
(* and input bytes.  The invariant comes in layers, each proved from those *)
(* before it: HInv, the hooks; BInv, the objects that constructors and     *)
(* closes leave; TInv, the types; CInv, who is in which mutex and who in   *)
(* exit; MInv, the messages; and EInv, the end of exit.                    *)
(***************************************************************************)
EXTENDS Stdio, SequenceTheorems, TLAPS

(***************************************************************************)
(* A short write or read cuts a sequence into a head of k elements and the *)
(* rest; together they are the sequence again.                             *)
(***************************************************************************)
LEMMA Cut ==
  ASSUME NEW S, NEW s \in Seq(S), NEW k \in 0 .. Len(s)
  PROVE  /\ SubSeq(s, 1, k) \in Seq(S)
         /\ Len(SubSeq(s, 1, k)) = k
         /\ SubSeq(s, k + 1, Len(s)) \in Seq(S)
         /\ Len(SubSeq(s, k + 1, Len(s))) = Len(s) - k
         /\ SubSeq(s, 1, k) \o SubSeq(s, k + 1, Len(s)) = s
<1>0. Len(s) \in Nat /\ k \in Int /\ \A i \in 1 .. Len(s) : s[i] \in S
  BY LenProperties, ElementOfSeq
<1>1. SubSeq(s, 1, k) \in Seq(S) /\ Len(SubSeq(s, 1, k)) = k
  <2>1. \A i \in 1 .. k : s[i] \in S
    BY <1>0
  <2>. QED  BY <1>0, <2>1, SubSeqProperties
<1>2. /\ SubSeq(s, k + 1, Len(s)) \in Seq(S)
      /\ Len(SubSeq(s, k + 1, Len(s))) = Len(s) - k
  <2>1. \A i \in k + 1 .. Len(s) : s[i] \in S
    BY <1>0
  <2>2. k + 1 \in Int /\ Len(s) \in Int
    BY <1>0
  <2>3. /\ SubSeq(s, k + 1, Len(s)) \in Seq(S)
        /\ Len(SubSeq(s, k + 1, Len(s)))
              = IF k + 1 <= Len(s) THEN Len(s) - (k + 1) + 1 ELSE 0
    BY <2>1, <2>2, SubSeqProperties
  <2>. QED  BY <1>0, <2>3
<1>3. SubSeq(s, 1, k) \o SubSeq(s, k + 1, Len(s)) = SubSeq(s, 1, Len(s))
  <2>1. 1 \in 1 .. Len(s) + 1 /\ k \in 1 - 1 .. Len(s) /\ Len(s) \in k .. Len(s)
    BY <1>0
  <2>. QED  BY <2>1, ConcatAdjacentSubSeq
<1>4. SubSeq(s, 1, Len(s)) = s
  BY SubSeqFull
<1>. QED  BY <1>1, <1>2, <1>3, <1>4

(***************************************************************************)
(* The elements of the two parts of a cut.                                 *)
(***************************************************************************)
LEMMA CutElements ==
  ASSUME NEW S, NEW s \in Seq(S), NEW k \in 0 .. Len(s)
  PROVE  /\ \A i \in 1 .. k : SubSeq(s, 1, k)[i] = s[i]
         /\ \A i \in 1 .. Len(s) - k : SubSeq(s, k + 1, Len(s))[i] = s[k + i]
<1>0. Len(s) \in Nat /\ k \in Int /\ \A i \in 1 .. Len(s) : s[i] \in S
  BY LenProperties, ElementOfSeq
<1>1. ASSUME NEW i \in 1 .. k PROVE SubSeq(s, 1, k)[i] = s[i]
  <2>1. \A j \in 1 .. k : s[j] \in S
    BY <1>0
  <2>2. 1 \in Int /\ i \in 1 .. k - 1 + 1
    BY <1>0
  <2>3. SubSeq(s, 1, k)[i] = s[1 + i - 1]
    BY <1>0, <2>1, <2>2, SubSeqProperties
  <2>4. 1 + i - 1 = i
    OBVIOUS
  <2>. QED  BY <2>3, <2>4
<1>2. ASSUME NEW i \in 1 .. Len(s) - k PROVE SubSeq(s, k + 1, Len(s))[i] = s[k + i]
  <2>1. \A j \in k + 1 .. Len(s) : s[j] \in S
    BY <1>0
  <2>2. k + 1 \in Int /\ Len(s) \in Int /\ i \in 1 .. Len(s) - (k + 1) + 1 /\ k + 1 + i - 1 = k + i
    BY <1>0
  <2>3. SubSeq(s, k + 1, Len(s))[i] = s[k + 1 + i - 1]
    BY <2>1, <2>2, SubSeqProperties
  <2>. QED  BY <2>2, <2>3
<1>. QED  BY <1>1, <1>2

-----------------------------------------------------------------------------

Kinds == {"raw", "rbuf", "wbuf", "bf", "lf", "lock"}
Streams4 == {"in", "out", "err", "file"}

\* Objects and descriptors, which a call takes and leaves.
IsObjects(s) == s \in [live : SUBSET (Kinds \X Streams4), fds : SUBSET Streams4]

\* A call that touches nothing but what belongs to x.
Only(r, s, x) ==
    /\ r.live \subseteq Kinds \X Streams4 /\ r.fds \subseteq Streams4
    /\ \A k \in Kinds, y \in Streams4 : y # x => (<<k, y>> \in r.live <=> <<k, y>> \in s.live)
    /\ \A y \in Streams4 : y # x => (y \in r.fds <=> y \in s.fds)

\* g has, of what s has, all but the K of x; and g has the K of x as well.
Frees(g, s, K, x) ==
    /\ IsObjects(g) /\ g.fds = s.fds
    /\ \A k, y : <<k, y>> \in g.live <=> <<k, y>> \in s.live /\ ~(k \in K /\ y = x)

Adds(g, s, K, x) ==
    /\ IsObjects(g) /\ g.fds = s.fds
    /\ \A k, y : <<k, y>> \in g.live <=> <<k, y>> \in s.live \/ (k \in K /\ y = x)

\* The descriptor of x is closed in g.
Closes(g, s, x) == IsObjects(g) /\ g.live = s.live /\ \A y : y \in g.fds <=> y \in s.fds /\ y # x

(***************************************************************************)
(* Adding and freeing objects, and closing a descriptor.                   *)
(***************************************************************************)
LEMMA ObjectFacts ==
  ASSUME NEW s, IsObjects(s), NEW K \in SUBSET Kinds, NEW x \in Streams4
  PROVE  Adds(Add(s, K, x), s, K, x) /\ Frees(Free(s, K, x), s, K, x) /\ Closes(CloseFd(s, x), s, x)
<1>1. /\ Add(s, K, x) = [live |-> s.live \cup {<<k, x>> : k \in K}, fds |-> s.fds]
      /\ Free(s, K, x) = [live |-> s.live \ {<<k, x>> : k \in K}, fds |-> s.fds]
      /\ CloseFd(s, x) = [live |-> s.live, fds |-> s.fds \ {x}]
  BY DEF IsObjects, Add, Free, CloseFd
<1>2. {<<k, x>> : k \in K} \subseteq Kinds \X Streams4
  OBVIOUS
<1>3. IsObjects(Add(s, K, x)) /\ IsObjects(Free(s, K, x)) /\ IsObjects(CloseFd(s, x))
  <2> DEFINE Z == {<<k, x>> : k \in K}
  <2>1. /\ s.live \cup Z \in SUBSET (Kinds \X Streams4) /\ s.live \ Z \in SUBSET (Kinds \X Streams4)
        /\ s.fds \in SUBSET Streams4 /\ s.fds \ {x} \in SUBSET Streams4 /\ s.live \in SUBSET (Kinds \X Streams4)
    BY <1>2 DEF IsObjects
  <2> HIDE DEF Z
  <2>. QED  BY <1>1, <2>1 DEF IsObjects, Z
<1>4. \A k, y : <<k, y>> \in {<<j, x>> : j \in K} <=> k \in K /\ y = x
  OBVIOUS
<1>5. \A k, y : <<k, y>> \in Add(s, K, x).live <=> <<k, y>> \in s.live \/ (k \in K /\ y = x)
  BY <1>1, <1>4
<1>6. \A k, y : <<k, y>> \in Free(s, K, x).live <=> <<k, y>> \in s.live /\ ~(k \in K /\ y = x)
  BY <1>1, <1>4
<1>. QED  BY <1>1, <1>3, <1>5, <1>6 DEF Adds, Frees, Closes

\* The kinds of objects that x has.
Have(s, x, H) == \A k \in Kinds : <<k, x>> \in s.live <=> k \in H

Own(s, x) == {k \in Kinds : <<k, x>> \in s.live}

(***************************************************************************)
(* bf_close and lf_close free what is x's, all of it when the flush does   *)
(* not fail, and nothing of the file below when it does.                   *)
(***************************************************************************)
LEMMA CloseFacts ==
  ASSUME NEW s, IsObjects(s), NEW x \in Streams4, NEW f \in BOOLEAN
  PROVE  /\ IsObjects(BfClose(s, x, f)) /\ IsObjects(Release(s, x, f)) /\ IsObjects(LfClose(s, x, f))
         /\ Only(BfClose(s, x, f), s, x) /\ Only(Release(s, x, f), s, x) /\ Only(LfClose(s, x, f), s, x)
         /\ f => /\ Have(BfClose(s, x, f), x, Own(s, x) \ {"rbuf", "wbuf", "raw"})
                 /\ x \notin BfClose(s, x, f).fds
                 /\ "bf" \in Own(s, x) => Have(Release(s, x, f), x, Own(s, x) \ {"rbuf", "wbuf", "raw", "bf"})
                 /\ "bf" \notin Own(s, x) => Have(Release(s, x, f), x, Own(s, x) \ {"raw"})
                 /\ x \notin Release(s, x, f).fds
                 /\ "bf" \in Own(s, x) => Have(LfClose(s, x, f), x, Own(s, x) \ {"rbuf", "wbuf", "raw", "bf", "lock"})
                 /\ x \notin LfClose(s, x, f).fds
         /\ ~f => /\ BfClose(s, x, f) = s
                  /\ "bf" \in Own(s, x) => /\ Have(LfClose(s, x, f), x, Own(s, x) \ {"bf", "lock"})
                                           /\ x \in LfClose(s, x, f).fds <=> x \in s.fds
         /\ <<"lock", x>> \notin LfClose(s, x, f).live
         /\ <<"bf", x>> \notin Release(s, x, f).live
         /\ \A k : <<k, x>> \in Release(s, x, f).live => <<k, x>> \in s.live
<1> DEFINE c(q) == BfClose(q, x, f)
           e(q) == Release(q, x, f)
<1>1. ASSUME NEW q, IsObjects(q)
      PROVE  /\ IsObjects(c(q)) /\ Only(c(q), q, x)
             /\ f => Have(c(q), x, Own(q, x) \ {"rbuf", "wbuf", "raw"}) /\ x \notin c(q).fds
             /\ ~f => c(q) = q
             /\ \A k : <<k, x>> \in c(q).live => <<k, x>> \in q.live
  <2> DEFINE K == {"rbuf", "wbuf", "raw"}
             d == CloseFd(q, x)
             g == Free(d, K, x)
  <2>1. Closes(d, q, x)
    <3>1. {} \in SUBSET Kinds
      OBVIOUS
    <3>. QED  BY <1>1, <3>1, ObjectFacts
  <2>2. K \in SUBSET Kinds
    BY DEF Kinds
  <2> HIDE DEF d, K
  <2>3. Frees(g, d, K, x)
    <3>1. IsObjects(d)
      BY <2>1 DEF Closes
    <3>. QED  BY <2>2, <3>1, ObjectFacts
  <2> HIDE DEF g
  <2>4. c(q) = IF f THEN g ELSE q
    BY DEF BfClose, g, d, K
  <2> HIDE DEF c
  <2>5. IsObjects(c(q)) /\ Only(c(q), q, x) /\ \A k : <<k, x>> \in c(q).live => <<k, x>> \in q.live
    BY <1>1, <2>1, <2>3, <2>4 DEF IsObjects, Only, Frees, Closes
  <2>6. f => Have(c(q), x, Own(q, x) \ K) /\ x \notin c(q).fds
    <3>1. SUFFICES ASSUME f PROVE Have(c(q), x, Own(q, x) \ K) /\ x \notin c(q).fds
      OBVIOUS
    <3>2. c(q) = g
      BY <2>4, <3>1
    <3>3. Have(g, x, Own(q, x) \ K)
      <4>1. ASSUME NEW k \in Kinds PROVE <<k, x>> \in g.live <=> k \in Own(q, x) \ K
        BY <2>1, <2>3 DEF Own, Frees, Closes
      <4>. QED  BY <4>1 DEF Have
    <3>4. x \notin g.fds
      BY <2>1, <2>3 DEF Frees, Closes
    <3>. QED  BY <3>2, <3>3, <3>4
  <2>. QED  BY <2>4, <2>5, <2>6 DEF K
<1> HIDE DEF c
<1>2. ASSUME NEW q, IsObjects(q)
      PROVE  /\ IsObjects(e(q)) /\ Only(e(q), q, x)
             /\ f /\ "bf" \in Own(q, x) => Have(e(q), x, Own(q, x) \ {"rbuf", "wbuf", "raw", "bf"})
             /\ "bf" \notin Own(q, x) => Have(e(q), x, Own(q, x) \ {"raw"})
             /\ f => x \notin e(q).fds
             /\ ~f /\ "bf" \in Own(q, x) => Have(e(q), x, Own(q, x) \ {"bf"}) /\ (x \in e(q).fds <=> x \in q.fds)
             /\ <<"bf", x>> \notin e(q).live
             /\ \A k : <<k, x>> \in e(q).live => <<k, x>> \in q.live
  <2>0. {"bf"} \in SUBSET Kinds /\ {"raw"} \in SUBSET Kinds /\ "bf" \in Kinds
    BY DEF Kinds
  <2>1. CASE "bf" \in Own(q, x)
    <3> DEFINE g == Free(c(q), {"bf"}, x)
    <3>1. IsObjects(c(q)) /\ Only(c(q), q, x)
      BY <1>1, <1>2
    <3>2. Frees(g, c(q), {"bf"}, x)
      BY <2>0, <3>1, ObjectFacts
    <3> HIDE DEF g
    <3>3. e(q) = g
      BY <2>1 DEF Release, Own, c, g
    <3>4. IsObjects(g) /\ Only(g, q, x)
      BY <3>1, <3>2 DEF Only, IsObjects, Frees
    <3>5. ASSUME f PROVE Have(g, x, Own(q, x) \ {"rbuf", "wbuf", "raw", "bf"}) /\ x \notin g.fds
      <4>1. Have(c(q), x, Own(q, x) \ {"rbuf", "wbuf", "raw"}) /\ x \notin c(q).fds
        BY <1>1, <1>2, <3>5
      <4>. QED  BY <3>2, <4>1 DEF Have, Own, Frees
    <3>6. <<"bf", x>> \notin g.live /\ \A k : <<k, x>> \in g.live => <<k, x>> \in q.live
      BY <1>1, <1>2, <3>2 DEF Frees
    <3>7. ASSUME ~f PROVE Have(g, x, Own(q, x) \ {"bf"}) /\ (x \in g.fds <=> x \in q.fds)
      <4>1. c(q) = q
        BY <1>1, <1>2, <3>7
      <4>. QED  BY <3>2, <4>1 DEF Have, Own, Frees
    <3> HIDE DEF e
    <3>. QED  BY <2>1, <3>3, <3>4, <3>5, <3>6, <3>7
  <2>2. CASE "bf" \notin Own(q, x)
    <3> DEFINE d == CloseFd(q, x)
               g == Free(d, {"raw"}, x)
    <3>1. Closes(d, q, x)
      BY <1>2, <2>0, ObjectFacts
    <3> HIDE DEF d
    <3>2. Frees(g, d, {"raw"}, x)
      <4>1. IsObjects(d)
        BY <3>1 DEF Closes
      <4>. QED  BY <2>0, <4>1, ObjectFacts
    <3> HIDE DEF g
    <3>3. e(q) = g
      BY <2>0, <2>2 DEF Release, Own, g, d
    <3>4. IsObjects(g) /\ Only(g, q, x)
      BY <1>2, <3>1, <3>2 DEF Only, IsObjects, Frees, Closes
    <3>5. Have(g, x, Own(q, x) \ {"raw"}) /\ x \notin g.fds
      BY <3>1, <3>2 DEF Have, Own, Frees, Closes
    <3>6. <<"bf", x>> \notin g.live /\ \A k : <<k, x>> \in g.live => <<k, x>> \in q.live
      BY <2>0, <2>2, <3>1, <3>2 DEF Frees, Closes, Own
    <3> HIDE DEF e
    <3>. QED  BY <2>2, <3>3, <3>4, <3>5, <3>6
  <2>. QED  BY <2>1, <2>2
<1> HIDE DEF e
<1> DEFINE u == Free(s, {"lock"}, x)
           w == e(u)
<1>3. Frees(u, s, {"lock"}, x)
  <2>1. {"lock"} \in SUBSET Kinds
    BY DEF Kinds
  <2>. QED  BY <2>1, ObjectFacts
<1>4. LfClose(s, x, f) = w
  BY DEF LfClose, e, u
<1> HIDE DEF u
<1>5. /\ IsObjects(w) /\ Only(w, u, x)
      /\ f /\ "bf" \in Own(u, x) => Have(w, x, Own(u, x) \ {"rbuf", "wbuf", "raw", "bf"})
      /\ f => x \notin w.fds
      /\ ~f /\ "bf" \in Own(u, x) => Have(w, x, Own(u, x) \ {"bf"}) /\ (x \in w.fds <=> x \in u.fds)
      /\ \A k : <<k, x>> \in w.live => <<k, x>> \in u.live
  BY <1>2, <1>3 DEF Frees
<1>6. Only(w, s, x) /\ <<"lock", x>> \notin w.live
  BY <1>3, <1>5 DEF Only, Frees
<1>7. /\ f /\ "bf" \in Own(s, x) => Have(w, x, Own(s, x) \ {"rbuf", "wbuf", "raw", "bf", "lock"})
      /\ ~f /\ "bf" \in Own(s, x) => Have(w, x, Own(s, x) \ {"bf", "lock"}) /\ (x \in w.fds <=> x \in s.fds)
  <2>1. \A k \in Kinds : k \in Own(u, x) <=> k \in Own(s, x) /\ k # "lock"
    BY <1>3 DEF Own, Frees
  <2>2. "bf" \in Kinds
    BY DEF Kinds
  <2>. QED  BY <1>3, <1>5, <2>1, <2>2 DEF Have, Frees
<1> HIDE DEF w
<1>. QED  BY <1>1, <1>2, <1>4, <1>5, <1>6, <1>7 DEF c, e

(***************************************************************************)
(* The same of bf_close alone, and of lf_close of a BufferedFile.          *)
(***************************************************************************)
LEMMA BfClosed ==
  ASSUME NEW s, IsObjects(s), NEW x \in Streams4, NEW f \in BOOLEAN, NEW q, q = BfClose(s, x, f)
  PROVE  /\ IsObjects(q) /\ Only(q, s, x)
         /\ f => Have(q, x, Own(s, x) \ {"rbuf", "wbuf", "raw"}) /\ x \notin q.fds
         /\ ~f => q = s
<1>1. /\ IsObjects(BfClose(s, x, f)) /\ Only(BfClose(s, x, f), s, x)
      /\ f => Have(BfClose(s, x, f), x, Own(s, x) \ {"rbuf", "wbuf", "raw"}) /\ x \notin BfClose(s, x, f).fds
      /\ ~f => BfClose(s, x, f) = s
  BY CloseFacts, Zenon
<1>. QED  BY <1>1, Zenon

\* lf_close frees the lock whatever its flush does.
LEMMA LfClosed ==
  ASSUME NEW s, IsObjects(s), NEW x \in Streams4, NEW f \in BOOLEAN, NEW q, q = LfClose(s, x, f)
  PROVE  /\ IsObjects(q) /\ Only(q, s, x)
         /\ "bf" \in Own(s, x) =>
               /\ f => Have(q, x, Own(s, x) \ {"rbuf", "wbuf", "raw", "bf", "lock"}) /\ x \notin q.fds
               /\ ~f => Have(q, x, Own(s, x) \ {"bf", "lock"}) /\ (x \in q.fds <=> x \in s.fds)
<1>1. /\ IsObjects(LfClose(s, x, f)) /\ Only(LfClose(s, x, f), s, x)
      /\ f => /\ "bf" \in Own(s, x) => Have(LfClose(s, x, f), x, Own(s, x) \ {"rbuf", "wbuf", "raw", "bf", "lock"})
              /\ x \notin LfClose(s, x, f).fds
      /\ ~f /\ "bf" \in Own(s, x) => Have(LfClose(s, x, f), x, Own(s, x) \ {"bf", "lock"})
      /\ ~f /\ "bf" \in Own(s, x) => (x \in LfClose(s, x, f).fds <=> x \in s.fds)
  BY CloseFacts, Zenon
<1>2. IsObjects(q) /\ Only(q, s, x)
  BY <1>1, Zenon
<1>3. ASSUME "bf" \in Own(s, x), f PROVE Have(q, x, Own(s, x) \ {"rbuf", "wbuf", "raw", "bf", "lock"}) /\ x \notin q.fds
  BY <1>1, <1>3, Zenon
<1>4. ASSUME "bf" \in Own(s, x), ~f PROVE Have(q, x, Own(s, x) \ {"bf", "lock"})
  BY <1>1, <1>4, Zenon
<1>5. ASSUME "bf" \in Own(s, x), ~f PROVE x \in q.fds <=> x \in s.fds
  <2>1. x \in LfClose(s, x, f).fds <=> x \in s.fds
    BY <1>1, <1>5, Zenon
  <2>. QED  BY <2>1, Zenon
<1>. QED  BY <1>2, <1>3, <1>4, <1>5, Zenon

-----------------------------------------------------------------------------
(***************************************************************************)
(* The hooks.  What exit has called is the end of the table, backwards,    *)
(* while nothing is registered after exit began.                           *)
(***************************************************************************)
HookNames == {"cleanup", "user", "adder"}

HInv ==
    /\ hooks \in Seq(HookNames) /\ ran \in Seq(Nat) /\ late \in Nat
    /\ Len(ran) <= Len(hooks) /\ Len(hooks) <= HooksCap
    /\ fate = "boot" => ran = <<>> /\ late = 0
    /\ fate \in {"files", "runs", "exited"} => hooks # <<>> /\ hooks[1] = "cleanup"
    /\ late = 0 => \A i \in DOMAIN ran : ran[i] = Len(hooks) + 1 - i
    /\ \A h \in 1 .. Len(hooks) - late : h > NextHook => \E i \in DOMAIN ran : ran[i] = h
    /\ ran # <<>> => ran[Len(ran)] \in 1 .. NextHook + 1
    /\ fate = "exited" => NextHook = 0

\* Registering adds to the end of a table that is not full.
Registers(hook) == Len(hooks) # HooksCap /\ hooks' = Append(hooks, hook) /\ UNCHANGED <<ran, fate>>

\* The steps that concern the hooks, and all the others.
HookSteps ==
    \/ UNCHANGED exiting /\ (fate' = fate \/ fate' \in {"strays", "dies", "overruns"})
    \/ hooks' = <<"cleanup">> /\ fate = "boot" /\ fate' # "boot" /\ fate' # "exited" /\ UNCHANGED <<ran, late>>
    \/ \E hook \in HookNames : fate = "runs" /\ Registers(hook) /\ (late' = late + 1 \/ (ran = <<>> /\ late' = late))
    \/ /\ Len(ran) < Len(hooks) /\ fate = "runs" /\ ran' = Append(ran, NextHook) /\ UNCHANGED <<hooks, late, fate>>
       /\ \E t \in Threads : RunHook(t)
    \/ /\ Len(ran) >= Len(hooks) /\ fate = "runs" /\ fate' = "exited" /\ UNCHANGED exiting
       /\ \E t \in Threads : pc[t] = "exit"

\* Every step is one of these.
LEMMA HookStepsAre ==
  ASSUME HInv, [Next]_vars
  PROVE  HookSteps
<1> USE DEF Stray, Overrun, Become, Goto, Idle, At
<1>1. CASE IoInit
  BY <1>1 DEF IoInit, BootFails, HookSteps, exiting
<1>2. CASE Main
  BY <1>2 DEF Main, HookSteps, exiting
<1>3. CASE MakeFile
  BY <1>3 DEF MakeFile, Wrap, HookSteps, exiting
<1>4. CASE CloseFile
  BY <1>4 DEF CloseFile, HookSteps, exiting
<1>5. ASSUME NEW t \in Threads, Step(t) PROVE HookSteps
  <2>h. ASSUME NEW hook \in {"user", "adder"}, Register(hook), fate = "runs" PROVE HookSteps
    <3>1. CASE Len(hooks) = HooksCap
      BY <2>h, <3>1 DEF Register, HookSteps, exiting
    <3>2. CASE Len(hooks) # HooksCap
      <4>1. Registers(hook) /\ hook \in HookNames
        BY <2>h, <3>2 DEF Register, Registers, HookNames
      <4>2. late' = IF Exiting THEN late + 1 ELSE late
        BY <2>h, <3>2 DEF Register
      <4>3. late' = late + 1 \/ (ran = <<>> /\ late' = late)
        BY <4>2 DEF Exiting
      <4>. QED  BY <2>h, <4>1, <4>3 DEF HookSteps
    <3>. QED  BY <3>1, <3>2
  <2>1. CASE Atexit(t)
    BY <2>1, <2>h DEF Atexit
  <2>2. CASE RunHook(t)
    <3>1. Len(ran) < Len(hooks) /\ fate = "runs" /\ ran' = Append(ran, NextHook) /\ UNCHANGED <<hooks, late, fate>>
      BY <2>2 DEF RunHook
    <3>. QED  BY <2>2, <3>1 DEF HookSteps
  <2>3. CASE HookRegisters(t)
    BY <2>3, <2>h DEF HookRegisters
  <2>4. CASE ExitGroup(t)
    BY <2>4 DEF ExitGroup, HookSteps
  <2>5. CASE PutOut(t) \/ Printing(t) \/ Flushing(t) \/ LeaveOut(t)
    BY <2>5 DEF PutOut, Printing, Store, NoRoom, Refill, Flushing, SendSome, Reload, Advance, AllSent, Reset, LeaveOut,
                OnStdout, OffStdout, HookSteps, exiting
  <2>6. CASE Report(t) \/ Reporting(t) \/ Read(t, "read") \/ Read(t, "peek") \/ UsePushBack(t) \/ Reading(t)
    BY <2>6 DEF Report, Reporting, Read, UsePushBack, PushBackStep, Reading, HookSteps, exiting
  <2>8. CASE Exit(t) \/ CloseStdin(t) \/ CloseStdout(t) \/ StdoutClosed(t) \/ ThreadEnds(t) \/ Clone(t)
    BY <2>8 DEF Exit, CloseStdin, CloseStdout, StdoutClosed, ThreadEnds, Clone, HookSteps, exiting
  <2>7. CASE \/ Enter(t, "out", "print", "printing") \/ Enter(t, "out", "flush", "flushing")
             \/ Enter(t, "err", "err", "reporting") \/ Enter(t, "in", "in", "reading")
    BY <2>7 DEF Enter, HookSteps, exiting
  <2>. QED  BY <1>5, <2>1, <2>2, <2>3, <2>4, <2>5, <2>6, <2>7, <2>8 DEF Step
<1>6. CASE ChildExits
  BY <1>6 DEF ChildExits, HookSteps, exiting
<1>7. CASE UNCHANGED vars
  BY <1>7 DEF vars, HookSteps, exiting
<1>. QED  BY <1>1, <1>2, <1>3, <1>4, <1>5, <1>6, <1>7 DEF Next

\* The table is empty at the start.
LEMMA HooksInit == Init => HInv
<1> SUFFICES ASSUME Init PROVE HInv
  OBVIOUS
<1>1. hooks = <<>> /\ ran = <<>> /\ late = 0 /\ fate = "boot"
  BY DEF Init
<1>2. hooks \in Seq(HookNames) /\ ran \in Seq(Nat) /\ Len(hooks) = 0 /\ Len(ran) = 0 /\ DOMAIN ran = {}
  BY <1>1
<1>3. 1 .. Len(hooks) - late = {} /\ late \in Nat
  BY <1>1, <1>2
<1>4. fate \notin {"files", "runs", "exited"}
  BY <1>1
<1>5. 0 <= 0 /\ 0 <= HooksCap
  BY BoundsAssumption
<1>. QED  BY <1>1, <1>2, <1>3, <1>4, <1>5 DEF HInv

\* No step calls a hook out of turn.
LEMMA HooksNext == HInv /\ [Next]_vars => HInv'
<1> SUFFICES ASSUME HInv, HookSteps PROVE HInv'
  BY HookStepsAre
<1>0. Len(hooks) \in Nat /\ Len(ran) \in Nat /\ HooksCap \in Nat \ {0} /\ late \in Nat /\ NextHook = Len(hooks) - Len(ran)
  BY BoundsAssumption DEF HInv, NextHook
<1>1. CASE UNCHANGED exiting /\ (fate' = fate \/ fate' \in {"strays", "dies", "overruns"})
  BY <1>1 DEF HInv, exiting, NextHook
<1>2. CASE hooks' = <<"cleanup">> /\ fate = "boot" /\ fate' # "boot" /\ fate' # "exited" /\ UNCHANGED <<ran, late>>
  <2>1. hooks' \in Seq(HookNames) /\ Len(hooks') = 1 /\ hooks'[1] = "cleanup" /\ hooks' # <<>>
    BY <1>2 DEF HookNames
  <2>2. ran' = <<>> /\ Len(ran') = 0 /\ DOMAIN ran' = {} /\ late' = 0
    BY <1>2 DEF HInv
  <2>3. \A h \in 1 .. Len(hooks') - late' : ~(h > NextHook')
    BY <2>1, <2>2 DEF NextHook
  <2>. QED  BY <1>0, <1>2, <2>1, <2>2, <2>3 DEF HInv
<1>3. ASSUME NEW hook \in HookNames, fate = "runs", Registers(hook), late' = late + 1 \/ (ran = <<>> /\ late' = late)
      PROVE  HInv'
  <2>1. /\ hooks' \in Seq(HookNames) /\ Len(hooks') = Len(hooks) + 1 /\ hooks' # <<>>
        /\ hooks # <<>> => hooks'[1] = hooks[1]
    BY <1>3, <1>0, AppendProperties, EmptySeq DEF HInv, Registers
  <2>2. Len(hooks') <= HooksCap /\ ran' = ran /\ fate' = fate
    BY <1>0, <1>3, <2>1 DEF HInv, Registers
  <2>3. late' \in Nat /\ (late' = 0 => ran = <<>>)
    BY <1>0, <1>3
  <2>4. NextHook' = NextHook + 1 /\ NextHook \in Int
    BY <1>0, <2>1, <2>2 DEF NextHook
  <2>5. late' = 0 => \A i \in DOMAIN ran' : ran'[i] = Len(hooks') + 1 - i
    BY <2>2, <2>3
  <2>6. \A h \in 1 .. Len(hooks') - late' : h > NextHook' => \E i \in DOMAIN ran' : ran'[i] = h
    <3>1. CASE late' = late + 1
      <4>1. Len(hooks') - late' = Len(hooks) - late
        BY <1>0, <2>1, <3>1
      <4>2. ASSUME NEW h \in 1 .. Len(hooks) - late, h > NextHook' PROVE \E i \in DOMAIN ran : ran[i] = h
        <5>1. h > NextHook
          BY <2>4, <4>2
        <5>. QED  BY <5>1 DEF HInv
      <4>. QED  BY <2>2, <4>1, <4>2
    <3>2. CASE ran = <<>> /\ late' = late
      <4>1. Len(ran) = 0
        BY <3>2
      <4>. QED  BY <1>0, <2>1, <2>2, <2>4, <3>2, <4>1
    <3>. QED  BY <1>3, <3>1, <3>2
  <2>7. ran' # <<>> => ran'[Len(ran')] \in 1 .. NextHook' + 1
    BY <1>0, <2>2, <2>4 DEF HInv
  <2>8. Len(ran') <= Len(hooks') /\ hooks'[1] = "cleanup"
    BY <1>0, <1>3, <2>1, <2>2 DEF HInv
  <2>. QED  BY <1>0, <1>3, <2>1, <2>2, <2>3, <2>5, <2>6, <2>7, <2>8 DEF HInv
<1>4. CASE Len(ran) < Len(hooks) /\ fate = "runs" /\ ran' = Append(ran, NextHook) /\ UNCHANGED <<hooks, late, fate>>
  <2>1. NextHook \in Nat /\ NextHook >= 1
    BY <1>0, <1>4
  <2>2. /\ ran' \in Seq(Nat) /\ Len(ran') = Len(ran) + 1 /\ ran'[Len(ran) + 1] = NextHook
        /\ \A i \in 1 .. Len(ran) : ran'[i] = ran[i]
    BY <1>4, <2>1, AppendProperties DEF HInv
  <2>0. DOMAIN ran' = 1 .. Len(ran) + 1 /\ DOMAIN ran = 1 .. Len(ran) /\ NextHook' = NextHook - 1
    BY <1>0, <1>4, <2>2, LenProperties DEF HInv, NextHook
  <2>3. late = 0 => \A i \in DOMAIN ran' : ran'[i] = Len(hooks) + 1 - i
    <3>1. SUFFICES ASSUME late = 0, NEW i \in DOMAIN ran' PROVE ran'[i] = Len(hooks) + 1 - i
      OBVIOUS
    <3>3. CASE i = Len(ran) + 1
      BY <1>0, <2>2, <3>3
    <3>4. CASE i \in 1 .. Len(ran)
      BY <2>0, <2>2, <3>1, <3>4 DEF HInv
    <3>. QED  BY <1>0, <2>0, <3>3, <3>4
  <2>4. ASSUME NEW h \in 1 .. Len(hooks) - late, h > NextHook - 1 PROVE \E i \in DOMAIN ran' : ran'[i] = h
    <3>1. CASE h = NextHook
      BY <1>0, <2>0, <2>2, <3>1
    <3>2. CASE h > NextHook
      <4>1. PICK i \in DOMAIN ran : ran[i] = h
        BY <3>2 DEF HInv
      <4>. QED  BY <1>0, <2>0, <2>2, <4>1
    <3>. QED  BY <2>1, <2>4, <3>1, <3>2
  <2>5. ran'[Len(ran')] \in 1 .. NextHook' + 1
    BY <1>0, <2>0, <2>1, <2>2
  <2>. QED  BY <1>0, <1>4, <2>0, <2>2, <2>3, <2>4, <2>5 DEF HInv
<1>5. CASE Len(ran) >= Len(hooks) /\ fate = "runs" /\ fate' = "exited" /\ UNCHANGED exiting
  <2>1. NextHook' = 0 /\ NextHook' = NextHook
    BY <1>0, <1>5 DEF HInv, NextHook, exiting
  <2>. QED  BY <1>5, <2>1 DEF HInv, exiting
<1>. QED  BY <1>1, <1>2, <1>3, <1>4, <1>5 DEF HookSteps

\* At the end exit has called everything from before it, the library's own last.
LEMMA HooksMean == HInv => HooksInReverse
<1> SUFFICES ASSUME HInv PROVE HooksInReverse
  OBVIOUS
<1>0. Len(hooks) \in Nat /\ Len(ran) \in Nat /\ late \in Nat /\ NextHook = Len(hooks) - Len(ran)
  BY DEF HInv, NextHook
<1>1. ASSUME fate = "exited"
      PROVE  /\ Len(ran) = Len(hooks)
             /\ \A h \in 1 .. Len(hooks) - late : \E i \in DOMAIN ran : ran[i] = h
             /\ hooks[ran[Len(ran)]] = "cleanup"
  <2>1. NextHook = 0 /\ hooks # <<>> /\ hooks[1] = "cleanup"
    BY <1>1 DEF HInv
  <2>2. Len(ran) = Len(hooks) /\ Len(hooks) > 0
    BY <1>0, <2>1, EmptySeq DEF HInv
  <2>3. ran # <<>>
    BY <2>2
  <2>4. ran[Len(ran)] = 1
    BY <2>1, <2>3 DEF HInv
  <2>5. \A h \in 1 .. Len(hooks) - late : h > NextHook
    BY <1>0, <2>1
  <2>. QED  BY <2>1, <2>2, <2>4, <2>5 DEF HInv
<1>2. late = 0 => \A i \in DOMAIN ran : ran[i] = Len(hooks) + 1 - i
  BY DEF HInv
<1>. QED  BY <1>1, <1>2 DEF HooksInReverse

(***************************************************************************)
(* exit calls every hook once and in reverse order, or, when hooks are     *)
(* registered meanwhile, every one from before and the library's own last  *)
(* (atexit, exit).                                                         *)
(***************************************************************************)
THEOREM HooksReverse == Spec => []HooksInReverse
BY HooksInit, HooksNext, HooksMean, PTL DEF Spec

-----------------------------------------------------------------------------
(***************************************************************************)
(* What the outcomes of the constructors leave of x's objects, by kind,    *)
(* and of its descriptor.                                                  *)
(***************************************************************************)
Kept(r, s, x) == x \in r.fds <=> x \in s.fds

\* q with an error, a result and a cause is an outcome that has what q has.
Gives(r, q, err, res, cause) ==
    r.live = q.live /\ r.fds = q.fds /\ r.err = err /\ r.res = res /\ r.cause = cause

\* What a call's outcome says.
LEMMA OutcomeFacts ==
  \A q : /\ \A err, res, cause : Gives(Outcome(q, err, res, cause), q, err, res, cause)
         /\ Gives(Refused(q), q, TRUE, "null", "none") /\ Gives(Made(q), q, FALSE, "object", "none")
BY DEF Gives, Outcome, Refused, Made

\* r has, of x, the kinds H, and nothing else has changed.
Leaves(r, s, x, H) == Only(r, s, x) /\ Have(r, x, H)

\* An outcome that leaves the objects as they were.
LEMMA SameFacts ==
  ASSUME NEW s, IsObjects(s), NEW x \in Streams4, NEW r, r.live = s.live, r.fds = s.fds
  PROVE  Leaves(r, s, x, Own(s, x)) /\ Kept(r, s, x)
BY DEF IsObjects, Leaves, Only, Have, Own, Kept

\* An outcome with objects of x more.
LEMMA AddFacts ==
  ASSUME NEW s, IsObjects(s), NEW x \in Streams4, NEW K \in SUBSET Kinds, NEW r,
         NEW g, Adds(g, s, K, x), r.live = g.live, r.fds = g.fds
  PROVE  Leaves(r, s, x, Own(s, x) \cup K) /\ Kept(r, s, x)
<1>1. Only(r, s, x)
  BY DEF IsObjects, Only, Adds
<1>2. Have(r, x, Own(s, x) \cup K)
  BY DEF Have, Own, Adds
<1>. QED  BY <1>1, <1>2 DEF Leaves, Kept, Adds

\* An outcome with objects of x fewer.
LEMMA FreeFacts ==
  ASSUME NEW s, IsObjects(s), NEW x \in Streams4, NEW K \in SUBSET Kinds, NEW r,
         NEW g, Frees(g, s, K, x), r.live = g.live, r.fds = g.fds
  PROVE  Leaves(r, s, x, Own(s, x) \ K) /\ Kept(r, s, x)
<1>1. Only(r, s, x)
  BY DEF IsObjects, Only, Frees
<1>2. Have(r, x, Own(s, x) \ K)
  BY DEF Have, Own, Frees
<1>. QED  BY <1>1, <1>2 DEF Leaves, Kept, Frees

(***************************************************************************)
(* bf_new.                                                                 *)
(***************************************************************************)
LEMMA BfNewFacts ==
  ASSUME NEW s, IsObjects(s), NEW x \in Streams4, NEW r \in BfNew(s, x)
  PROVE  \/ r.err = TRUE /\ r.cause = "none" /\ Leaves(r, s, x, Own(s, x)) /\ Kept(r, s, x)
         \/ r.err = TRUE /\ r.cause = "none" /\ Leaves(r, s, x, Own(s, x) \ {"rbuf"}) /\ Kept(r, s, x)
         \/ r.err = TRUE /\ r.cause = "bf" /\ Leaves(r, s, x, Own(s, x) \ {"raw", "rbuf", "wbuf"}) /\ x \notin r.fds
         \/ /\ r.err = FALSE /\ r.res = "object" /\ r.cause = "none"
            /\ Leaves(r, s, x, Own(s, x) \cup {"rbuf", "wbuf", "bf"}) /\ Kept(r, s, x)
<1> DEFINE one == Add(s, {"rbuf"}, x)
           both == Add(one, {"wbuf"}, x)
           back == Free(one, {"rbuf"}, x)
           shut == CloseFd(both, x)
           gone == Free(shut, {"raw", "rbuf", "wbuf"}, x)
           all == Add(both, {"bf"}, x)
<1>0. /\ {"raw", "rbuf", "wbuf"} \in SUBSET Kinds /\ {"rbuf"} \in SUBSET Kinds /\ {"wbuf"} \in SUBSET Kinds
      /\ {"bf"} \in SUBSET Kinds
  BY DEF Kinds
<1>1. Adds(one, s, {"rbuf"}, x) /\ IsObjects(one)
  BY <1>0, ObjectFacts DEF Adds
<1>2. r \in {Refused(s), Refused(back), Outcome(gone, TRUE, "null", "bf"), Made(all)}
  BY DEF BfNew
<1> HIDE DEF one
<1>3. Adds(both, one, {"wbuf"}, x) /\ IsObjects(both) /\ Frees(back, one, {"rbuf"}, x)
  BY <1>0, <1>1, ObjectFacts DEF Adds
<1> HIDE DEF both, back
<1>4. Closes(shut, both, x) /\ IsObjects(shut) /\ Adds(all, both, {"bf"}, x)
  BY <1>0, <1>3, ObjectFacts DEF Closes
<1> HIDE DEF shut, all
<1>5. Frees(gone, shut, {"raw", "rbuf", "wbuf"}, x)
  BY <1>0, <1>4, ObjectFacts
<1> HIDE DEF gone
<1>6. CASE r = Refused(s)
  <2>1. Gives(r, s, TRUE, "null", "none")
    BY <1>6, OutcomeFacts
  <2>. QED  BY <2>1, SameFacts DEF Gives
<1>7. CASE r = Refused(back)
  <2>1. Gives(r, back, TRUE, "null", "none")
    BY <1>7, OutcomeFacts
  <2>2. Only(r, s, x)
    BY <1>1, <1>3, <2>1 DEF Gives, Only, Adds, Frees, IsObjects
  <2>3. Have(r, x, Own(s, x) \ {"rbuf"}) /\ Kept(r, s, x)
    BY <1>1, <1>3, <2>1 DEF Gives, Have, Own, Adds, Frees, Kept
  <2>. QED  BY <2>1, <2>2, <2>3 DEF Gives, Leaves
<1>8. CASE r = Outcome(gone, TRUE, "null", "bf")
  <2>1. Gives(r, gone, TRUE, "null", "bf")
    BY <1>8, OutcomeFacts
  <2>2. Only(r, s, x)
    <3>1. \A k \in Kinds, y \in Streams4 : y # x => (<<k, y>> \in gone.live <=> <<k, y>> \in s.live)
      BY <1>1, <1>3, <1>4, <1>5 DEF Adds, Frees, Closes
    <3>2. \A y \in Streams4 : y # x => (y \in gone.fds <=> y \in s.fds)
      BY <1>1, <1>3, <1>4, <1>5 DEF Adds, Frees, Closes
    <3>. QED  BY <1>5, <2>1, <3>1, <3>2 DEF Gives, Only, Frees, IsObjects
  <2>3. Have(r, x, Own(s, x) \ {"raw", "rbuf", "wbuf"}) /\ x \notin r.fds
    <3>1. \A k \in Kinds : <<k, x>> \in gone.live <=> <<k, x>> \in s.live /\ k \notin {"raw", "rbuf", "wbuf"}
      BY <1>1, <1>3, <1>4, <1>5 DEF Adds, Frees, Closes
    <3>2. x \notin gone.fds
      BY <1>4, <1>5 DEF Frees, Closes
    <3>. QED  BY <2>1, <3>1, <3>2 DEF Gives, Have, Own
  <2>. QED  BY <2>1, <2>2, <2>3 DEF Gives, Leaves
<1>9. CASE r = Made(all)
  <2>1. Gives(r, all, FALSE, "object", "none")
    BY <1>9, OutcomeFacts
  <2>2. Only(r, s, x)
    <3>1. \A k \in Kinds, y \in Streams4 : y # x => (<<k, y>> \in all.live <=> <<k, y>> \in s.live)
      BY <1>1, <1>3, <1>4 DEF Adds
    <3>. QED  BY <1>1, <1>3, <1>4, <2>1, <3>1 DEF Gives, Only, Adds, IsObjects
  <2>3. Have(r, x, Own(s, x) \cup {"rbuf", "wbuf", "bf"}) /\ Kept(r, s, x)
    <3>1. \A k \in Kinds : <<k, x>> \in all.live <=> <<k, x>> \in s.live \/ k \in {"rbuf", "wbuf", "bf"}
      BY <1>1, <1>3, <1>4 DEF Adds
    <3>. QED  BY <1>1, <1>3, <1>4, <2>1, <3>1 DEF Gives, Have, Own, Kept, Adds
  <2>. QED  BY <2>1, <2>2, <2>3 DEF Gives, Leaves
<1>. QED  BY <1>2, <1>6, <1>7, <1>8, <1>9

(***************************************************************************)
(* lf_new around a BufferedFile.                                           *)
(***************************************************************************)
LEMMA LfNewFacts ==
  ASSUME NEW s, IsObjects(s), NEW x \in Streams4, NEW r \in LfNew(s, x)
  PROVE  \/ r.err = TRUE /\ r.cause = "none" /\ Leaves(r, s, x, Own(s, x)) /\ Kept(r, s, x)
         \/ /\ r.err = FALSE /\ r.res = "freed" /\ r.cause = "lock" /\ Only(r, s, x) /\ x \notin r.fds
            /\ "bf" \in Own(s, x) => Have(r, x, Own(s, x) \ {"rbuf", "wbuf", "raw", "bf", "lf"})
         \/ /\ r.err = FALSE /\ r.res = "object" /\ r.cause = "none"
            /\ Leaves(r, s, x, Own(s, x) \cup {"lf", "lock"}) /\ Kept(r, s, x)
<1>0. {"lf", "lock"} \in SUBSET Kinds /\ {"lf"} \in SUBSET Kinds /\ "bf" \in Kinds
  BY DEF Kinds
<1> DEFINE one == Add(s, {"lf"}, x)
           shut == Release(one, x, TRUE)
           gone == Free(shut, {"lf"}, x)
           all == Add(s, {"lf", "lock"}, x)
<1>1. r \in {Refused(s), Outcome(gone, FALSE, "freed", "lock"), Made(all)}
  BY DEF LfNew
<1>2. CASE r = Refused(s)
  <2>1. Gives(r, s, TRUE, "null", "none")
    BY <1>2, OutcomeFacts
  <2>. QED  BY <2>1, SameFacts DEF Gives
<1>3. CASE r = Outcome(gone, FALSE, "freed", "lock")
  <2>1. Adds(one, s, {"lf"}, x) /\ IsObjects(one)
    BY <1>0, ObjectFacts DEF Adds
  <2> HIDE DEF one
  <2>2. /\ IsObjects(shut) /\ Only(shut, one, x) /\ x \notin shut.fds
        /\ "bf" \in Own(one, x) => Have(shut, x, Own(one, x) \ {"rbuf", "wbuf", "raw", "bf"})
    BY <2>1, CloseFacts
  <2> HIDE DEF shut
  <2>3. Frees(gone, shut, {"lf"}, x)
    BY <1>0, <2>2, ObjectFacts
  <2> HIDE DEF gone
  <2>4. Gives(r, gone, FALSE, "freed", "lock")
    BY <1>3, OutcomeFacts
  <2>5. Only(r, s, x) /\ x \notin r.fds
    BY <2>1, <2>2, <2>3, <2>4 DEF Gives, Only, Frees, Adds, IsObjects
  <2>6. ASSUME "bf" \in Own(s, x) PROVE Have(r, x, Own(s, x) \ {"rbuf", "wbuf", "raw", "bf", "lf"})
    <3>1. \A k \in Kinds : k \in Own(one, x) <=> k \in Own(s, x) \/ k = "lf"
      BY <2>1 DEF Own, Adds
    <3>2. Have(shut, x, Own(one, x) \ {"rbuf", "wbuf", "raw", "bf"})
      BY <1>0, <2>2, <2>6, <3>1
    <3>. QED  BY <2>3, <2>4, <3>1, <3>2 DEF Gives, Have, Frees
  <2>. QED  BY <2>4, <2>5, <2>6 DEF Gives
<1>4. CASE r = Made(all)
  <2>1. Adds(all, s, {"lf", "lock"}, x)
    BY <1>0, ObjectFacts
  <2>2. Gives(r, all, FALSE, "object", "none")
    BY <1>4, OutcomeFacts
  <2> HIDE DEF all
  <2>. QED  BY <1>0, <2>1, <2>2, AddFacts DEF Gives
<1>. QED  BY <1>1, <1>2, <1>3, <1>4

(***************************************************************************)
(* open and from_fd.                                                       *)
(***************************************************************************)
LEMMA FromFdFacts ==
  ASSUME NEW s, IsObjects(s), NEW x \in Streams4, NEW r \in FromFd(s, x)
  PROVE  \/ r.err = TRUE /\ r.cause = "none" /\ Leaves(r, s, x, Own(s, x)) /\ Kept(r, s, x)
         \/ r.err = TRUE /\ r.cause = "open" /\ Leaves(r, s, x, Own(s, x)) /\ x \in r.fds
         \/ r.err = FALSE /\ r.cause = "none" /\ Leaves(r, s, x, Own(s, x) \cup {"raw"}) /\ x \in r.fds
<1> DEFINE o == [s EXCEPT !.fds = @ \cup {x}]
<1>0. {"raw"} \in SUBSET Kinds
  BY DEF Kinds
<1>1. /\ IsObjects(o) /\ o.live = s.live
      /\ \A y : y \in o.fds <=> y \in s.fds \/ y = x
  <2>1. o = [live |-> s.live, fds |-> s.fds \cup {x}]
    BY DEF IsObjects
  <2>2. s.fds \cup {x} \in SUBSET Streams4 /\ s.live \in SUBSET (Kinds \X Streams4)
    BY DEF IsObjects
  <2>. QED  BY <2>1, <2>2 DEF IsObjects
<1>2. r \in {Refused(s), Outcome(o, TRUE, "null", "open"), Made(Add(o, {"raw"}, x))}
  BY DEF FromFd
<1> HIDE DEF o
<1>3. CASE r = Refused(s)
  <2>1. Gives(r, s, TRUE, "null", "none")
    BY <1>3, OutcomeFacts
  <2>. QED  BY <2>1, SameFacts DEF Gives
<1>4. CASE r = Outcome(o, TRUE, "null", "open")
  <2>1. Gives(r, o, TRUE, "null", "open")
    BY <1>4, OutcomeFacts
  <2>2. Only(r, s, x)
    BY <1>1, <2>1 DEF Gives, Only, IsObjects
  <2>3. Have(r, x, Own(s, x)) /\ x \in r.fds
    BY <1>1, <2>1 DEF Gives, Have, Own
  <2>. QED  BY <2>1, <2>2, <2>3 DEF Gives, Leaves
<1>5. CASE r = Made(Add(o, {"raw"}, x))
  <2> DEFINE g == Add(o, {"raw"}, x)
  <2>1. Adds(g, o, {"raw"}, x)
    BY <1>0, <1>1, ObjectFacts
  <2>2. Gives(r, g, FALSE, "object", "none")
    BY <1>5, OutcomeFacts
  <2> HIDE DEF g
  <2>3. Only(r, s, x)
    BY <1>1, <2>1, <2>2 DEF Gives, Only, IsObjects, Adds
  <2>4. Have(r, x, Own(s, x) \cup {"raw"}) /\ x \in r.fds
    BY <1>1, <2>1, <2>2 DEF Gives, Have, Own, Adds
  <2>. QED  BY <2>2, <2>3, <2>4 DEF Gives, Leaves
<1>. QED  BY <1>2, <1>3, <1>4, <1>5

-----------------------------------------------------------------------------
(***************************************************************************)
(* The invariant of the objects.  While the process starts it has what the *)
(* constructors that went well made; while it runs, stderr is there, and   *)
(* stdin when its mutex is; and of a file of its own a client has what it  *)
(* takes itself to have, or exactly what the failure that surprised it     *)
(* leaves.                                                                 *)
(***************************************************************************)
Has(k, x) == <<k, x>> \in live

Booted ==
    fate = "boot" =>
        /\ boot > 1 => Has("raw", "err")
        /\ boot > 2 => Has("lf", "err") /\ Has("lock", "err")
        /\ boot > 4 => Has("bf", "in")
        /\ boot > 5 => Has("lf", "in") /\ Has("lock", "in")
        /\ boot > 7 => Has("bf", "out") \/ boot > 8
        /\ Has("lock", "out") => Has("lf", "out") /\ Has("bf", "out") /\ boot > 8
        /\ top = "none" /\ surprise = "none" /\ "file" \notin fds /\ \A k \in Kinds : ~Has(k, "file")

Streams ==
    fate = "runs" => /\ Has("lf", "err") /\ Has("lock", "err") /\ Has("raw", "err")
                     /\ Has("lock", "in") => Has("lf", "in") /\ Has("bf", "in")

KindsOf(t) == CASE t = "raw" -> {"raw"}
                [] t = "bf" -> {"raw", "rbuf", "wbuf", "bf"}
                [] t = "lf" -> {"raw", "rbuf", "wbuf", "bf", "lf", "lock"}
                [] OTHER -> {}

\* What there is of the client's file.
Left == IF surprise = "none" THEN KindsOf(top) ELSE IF surprise = "flush" THEN {"raw", "rbuf", "wbuf"} ELSE {}

Owns == /\ \A k \in Kinds : Has(k, "file") <=> k \in Left
        /\ "file" \in fds <=> surprise \in {"open", "flush"} \/ (surprise = "none" /\ top # "none")
        /\ surprise \in {"open", "flush"} => top = "none"

Surprises == {"none", "open", "bf", "lock", "flush"}

BInv ==
    /\ live \subseteq Kinds \X Streams4 /\ fds \subseteq Streams4
    /\ boot \in 1 .. 9 /\ top \in {"none", "raw", "bf", "lf"} /\ surprise \in Surprises
    /\ Booted /\ Streams
    /\ fate = "files" => Owns

\* The objects of x that a pointer owns are those of its kinds.
LEMMA OwnedIs == \A t, x : Owned(t, x) = {<<k, x>> : k \in KindsOf(t)}
BY DEF Owned, KindsOf

\* Those kinds, one by one.
LEMMA KindsOfIs ==
  /\ KindsOf("none") = {} /\ KindsOf("raw") = {"raw"}
  /\ KindsOf("bf") = {"raw", "rbuf", "wbuf", "bf"} /\ KindsOf("lf") = {"raw", "rbuf", "wbuf", "bf", "lf", "lock"}
BY DEF KindsOf

\* The property, by kinds.
LEMMA OwnsIs == BInv => ClientOwnsFile
<1> SUFFICES ASSUME BInv, fate = "files"
    PROVE  /\ {o \in live : o[2] = "file"} =
                CASE surprise = "none" -> Owned(top, "file")
                  [] surprise = "flush" -> {<<"raw", "file">>, <<"rbuf", "file">>, <<"wbuf", "file">>}
                  [] OTHER -> {}
           /\ "file" \in fds <=> surprise \in {"open", "flush"} \/ (surprise = "none" /\ top # "none")
  BY DEF ClientOwnsFile
<1>1. Owns /\ Left \subseteq Kinds /\ surprise \in Surprises
  BY DEF BInv, Left, KindsOf, Kinds
<1>2. {o \in live : o[2] = "file"} = {<<k, "file">> : k \in Left}
  <2>1. ASSUME NEW o \in live, o[2] = "file" PROVE o \in {<<k, "file">> : k \in Left}
    <3>1. PICK k \in Kinds : o = <<k, "file">>
      BY <2>1 DEF BInv, Streams4
    <3>. QED  BY <1>1, <3>1 DEF Owns, Has
  <2>2. ASSUME NEW k \in Left PROVE <<k, "file">> \in {o \in live : o[2] = "file"}
    BY <1>1 DEF Owns, Has
  <2>. QED  BY <2>1, <2>2
<1>3. CASE surprise = "none"
  BY <1>1, <1>2, <1>3, OwnedIs DEF Owns, Left
<1>4. CASE surprise = "flush"
  <2>1. {<<k, "file">> : k \in {"raw", "rbuf", "wbuf"}} = {<<"raw", "file">>, <<"rbuf", "file">>, <<"wbuf", "file">>}
    OBVIOUS
  <2>. QED  BY <1>1, <1>2, <1>4, <2>1 DEF Owns, Left
<1>5. CASE surprise \notin {"none", "flush"}
  BY <1>1, <1>2, <1>5 DEF Owns, Left
<1>. QED  BY <1>3, <1>4, <1>5

\* What becomes of the objects when x is left with the kinds H.
Elsewhere(x) ==
    /\ live' \subseteq Kinds \X Streams4 /\ fds' \subseteq Streams4
    /\ \A k \in Kinds, y \in Streams4 : y # x => (Has(k, y)' <=> Has(k, y))
    /\ \A y \in Streams4 : y # x => (y \in fds' <=> y \in fds)

Moved(x, H) == Elsewhere(x) /\ \A k \in Kinds : Has(k, x)' <=> k \in H

\* The state's objects are what a call takes.
LEMMA ObjectsAre == BInv => IsObjects(Objects) /\ \A x, k : k \in Own(Objects, x) <=> k \in Kinds /\ Has(k, x)
BY DEF BInv, IsObjects, Objects, Own, Has

\* What a call on x leaves becomes the state.
LEMMA Moves ==
  ASSUME NEW r, NEW x \in Streams4, Become(r)
  PROVE  /\ Only(r, Objects, x) => Elsewhere(x)
         /\ \A H : Leaves(r, Objects, x, H) => Moved(x, H)
BY DEF Become, Leaves, Only, Have, Elsewhere, Moved, Objects, Has

(***************************************************************************)
(* A step of _ministd_io_init that goes well.                              *)
(***************************************************************************)
LEMMA BootStepFacts ==
  ASSUME BInv, NEW kind \in {"raw", "bf", "lf"}, NEW x \in Streams4, NEW r \in Outcomes(kind, x), Become(r), r.err = FALSE
  PROVE  /\ kind = "raw" => Moved(x, Own(Objects, x) \cup {"raw"})
         /\ kind = "bf" => Moved(x, Own(Objects, x) \cup {"rbuf", "wbuf", "bf"})
         /\ kind = "lf" /\ r.res # "freed" => Moved(x, Own(Objects, x) \cup {"lf", "lock"})
         /\ kind = "lf" /\ r.res = "freed" =>
              Elsewhere(x) /\ (Has("bf", x) => Moved(x, Own(Objects, x) \ {"rbuf", "wbuf", "raw", "bf", "lf"}))
<1>0. IsObjects(Objects)
  BY ObjectsAre
<1>1. CASE kind = "raw"
  <2> DEFINE g == Add(Objects, {"raw"}, x)
  <2>1. {"raw"} \in SUBSET Kinds
    BY DEF Kinds
  <2>2. Adds(g, Objects, {"raw"}, x)
    BY <1>0, <2>1, ObjectFacts
  <2>3. r \in {Refused(Objects), Made(g)}
    BY <1>1 DEF Outcomes
  <2> HIDE DEF g
  <2>4. Gives(r, g, FALSE, "object", "none")
    <3>1. Gives(Refused(Objects), Objects, TRUE, "null", "none") /\ Gives(Made(g), g, FALSE, "object", "none")
      BY OutcomeFacts
    <3>. QED  BY <2>3, <3>1 DEF Gives
  <2>5. Leaves(r, Objects, x, Own(Objects, x) \cup {"raw"})
    BY <1>0, <2>1, <2>2, <2>4, AddFacts DEF Gives
  <2>. QED  BY <1>1, <2>5, Moves
<1>2. CASE kind = "bf"
  <2>1. r \in BfNew(Objects, x)
    BY <1>2 DEF Outcomes
  <2>2. Leaves(r, Objects, x, Own(Objects, x) \cup {"rbuf", "wbuf", "bf"})
    BY <1>0, <2>1, BfNewFacts
  <2>. QED  BY <1>2, <2>2, Moves
<1>3. CASE kind = "lf"
  <2>1. r \in LfNew(Objects, x)
    BY <1>3 DEF Outcomes
  <2>2. \/ /\ r.res = "freed" /\ Only(r, Objects, x)
           /\ "bf" \in Own(Objects, x) => Have(r, x, Own(Objects, x) \ {"rbuf", "wbuf", "raw", "bf", "lf"})
        \/ r.res = "object" /\ Leaves(r, Objects, x, Own(Objects, x) \cup {"lf", "lock"})
    BY <1>0, <2>1, LfNewFacts
  <2>3. Has("bf", x) => "bf" \in Own(Objects, x)
    BY ObjectsAre DEF Kinds
  <2>. QED  BY <1>3, <2>2, <2>3, Moves DEF Leaves
<1>. QED  BY <1>1, <1>2, <1>3

\* Whatever comes of a constructor, it touches nothing but x.
LEMMA OutcomesElsewhere ==
  ASSUME BInv, NEW kind \in {"raw", "bf", "lf"}, NEW x \in Streams4, NEW r \in Outcomes(kind, x), Become(r)
  PROVE  Elsewhere(x) /\ r.err \in BOOLEAN
<1>0. IsObjects(Objects)
  BY ObjectsAre
<1>1. CASE kind = "raw"
  <2>1. r = Refused(Objects) \/ r = Made(Add(Objects, {"raw"}, x))
    BY <1>1 DEF Outcomes
  <2>2. r = Refused(Objects) => Gives(r, Objects, TRUE, "null", "none")
    BY OutcomeFacts
  <2>3. r = Made(Add(Objects, {"raw"}, x)) => r.err = FALSE
    BY DEF Made, Outcome
  <2>4. CASE Gives(r, Objects, TRUE, "null", "none")
    BY <1>0, <2>4, SameFacts, Moves DEF Gives, Leaves
  <2>5. CASE r.err = FALSE
    BY <1>1, <2>5, BootStepFacts DEF Moved
  <2>. QED  BY <2>1, <2>2, <2>3, <2>4, <2>5
<1>2. CASE kind = "bf"
  <2>1. r \in BfNew(Objects, x)
    BY <1>2 DEF Outcomes
  <2>2. Only(r, Objects, x) /\ r.err \in BOOLEAN
    BY <1>0, <2>1, BfNewFacts DEF Leaves
  <2>. QED  BY <2>2, Moves
<1>3. CASE kind = "lf"
  <2>1. r \in LfNew(Objects, x)
    BY <1>3 DEF Outcomes
  <2>2. Only(r, Objects, x) /\ r.err \in BOOLEAN
    BY <1>0, <2>1, LfNewFacts DEF Leaves
  <2>. QED  BY <2>2, Moves
<1>. QED  BY <1>1, <1>2, <1>3

\* _ministd_io_init takes eight steps.
LEMMA BootStepsAre ==
  /\ Len(BootSteps) = 8
  /\ BootSteps[1] = <<"raw", "err">> /\ BootSteps[2] = <<"lf", "err">>
  /\ BootSteps[3] = <<"raw", "in">> /\ BootSteps[4] = <<"bf", "in">> /\ BootSteps[5] = <<"lf", "in">>
  /\ BootSteps[6] = <<"raw", "out">> /\ BootSteps[7] = <<"bf", "out">> /\ BootSteps[8] = <<"lf", "out">>
BY DEF BootSteps

\* The constructor of the step and its stream.
BootKind == BootSteps[boot][1]
BootFile == BootSteps[boot][2]

\* What one of them makes, and of which stream.
LEMMA BootKinds ==
  ASSUME BInv, boot <= Len(BootSteps)
  PROVE  /\ boot \in 1 .. 8 /\ BootKind \in {"raw", "bf", "lf"} /\ BootFile \in {"in", "out", "err"} /\ BootFile \in Streams4
         /\ boot = 1 => BootKind = "raw" /\ BootFile = "err"
         /\ boot = 2 => BootKind = "lf" /\ BootFile = "err"
         /\ boot = 3 => BootKind = "raw" /\ BootFile = "in"
         /\ boot = 4 => BootKind = "bf" /\ BootFile = "in"
         /\ boot = 5 => BootKind = "lf" /\ BootFile = "in"
         /\ boot = 6 => BootKind = "raw" /\ BootFile = "out"
         /\ boot = 7 => BootKind = "bf" /\ BootFile = "out"
         /\ boot = 8 => BootKind = "lf" /\ BootFile = "out"
<1>1. boot \in 1 .. 8
  BY BootStepsAre DEF BInv
<1>2. boot = 1 \/ boot = 2 \/ boot = 3 \/ boot = 4 \/ boot = 5 \/ boot = 6 \/ boot = 7 \/ boot = 8
  BY <1>1
<1>. QED  BY <1>1, <1>2, BootStepsAre DEF BootKind, BootFile, Streams4

\* _ministd_io_init keeps the objects in order, failing or not.
LEMMA IoInitObjects == BInv /\ IoInit => BInv'
<1> SUFFICES ASSUME BInv, IoInit PROVE BInv'
  OBVIOUS
<1>1. /\ fate = "boot" /\ boot <= Len(BootSteps)
      /\ boot' = boot + 1 /\ top' = top /\ surprise' = surprise
  BY DEF IoInit
<1>0. PICK kind \in {"raw", "bf", "lf"}, x \in Streams4 : kind = BootKind /\ x = BootFile
  BY <1>1, BootKinds
<1>2. PICK r \in Outcomes(kind, x) :
         /\ Become(r)
         /\ IF r.err THEN BootFails(x)
            ELSE IF r.res = "freed" /\ x # "out" THEN fate' = "strays" ELSE UNCHANGED fate
  BY <1>0, Zenon DEF IoInit, BootKind, BootFile
<1>3. /\ boot \in 1 .. 8 /\ x \in {"in", "out", "err"}
      /\ boot = 1 \/ boot = 2 \/ boot = 3 \/ boot = 4 \/ boot = 5 \/ boot = 6 \/ boot = 7 \/ boot = 8
  BY <1>0, <1>1, BootKinds
<1>8. /\ boot = 1 => kind = "raw" /\ x = "err"
      /\ boot = 2 => kind = "lf" /\ x = "err"
      /\ boot = 3 => kind = "raw" /\ x = "in"
      /\ boot = 4 => kind = "bf" /\ x = "in"
      /\ boot = 5 => kind = "lf" /\ x = "in"
      /\ boot = 6 => kind = "raw" /\ x = "out"
      /\ boot = 7 => kind = "bf" /\ x = "out"
      /\ boot = 8 => kind = "lf" /\ x = "out"
  BY <1>0, <1>1, BootKinds
<1>4. Elsewhere(x) /\ r.err \in BOOLEAN
  BY <1>2, <1>3, OutcomesElsewhere
<1>5. boot' \in 1 .. 9 /\ live' \subseteq Kinds \X Streams4 /\ fds' \subseteq Streams4
  BY <1>1, <1>3, <1>4 DEF Elsewhere
<1>6. fate' # "runs" /\ fate' # "files"
  BY <1>1, <1>2, <1>4 DEF BootFails
<1>7. ASSUME fate' = "boot" PROVE Booted'
  <2>1. r.err = FALSE /\ (r.res = "freed" => x = "out")
    BY <1>1, <1>2, <1>4, <1>7 DEF BootFails
  <2>2. /\ kind = "raw" => Moved(x, Own(Objects, x) \cup {"raw"})
        /\ kind = "bf" => Moved(x, Own(Objects, x) \cup {"rbuf", "wbuf", "bf"})
        /\ kind = "lf" /\ r.res # "freed" => Moved(x, Own(Objects, x) \cup {"lf", "lock"})
        /\ kind = "lf" /\ r.res = "freed" =>
              (Has("bf", x) => Moved(x, Own(Objects, x) \ {"rbuf", "wbuf", "raw", "bf", "lf"}))
    BY <1>2, <1>3, <2>1, BootStepFacts
  <2>3. /\ \A y, k : k \in Own(Objects, y) <=> k \in Kinds /\ Has(k, y)
        /\ "raw" \in Kinds /\ "bf" \in Kinds /\ "lf" \in Kinds /\ "lock" \in Kinds
        /\ "in" \in Streams4 /\ "out" \in Streams4 /\ "err" \in Streams4 /\ "file" \in Streams4
    BY ObjectsAre DEF Kinds, Streams4
  <2>4. /\ top' = "none" /\ surprise' = "none" /\ "file" \notin fds' /\ \A k \in Kinds : ~Has(k, "file")'
    BY <1>1, <1>3, <1>4, <2>3 DEF BInv, Booted, Elsewhere
  <2>5. CASE kind = "lf" /\ r.res = "freed"
    <3>1. boot = 8 /\ x = "out" /\ boot' = 9
      BY <1>1, <1>3, <1>8, <2>1, <2>5
    <3>2. Has("bf", "out") /\ ~Has("lock", "out")
      BY <1>1, <3>1 DEF BInv, Booted
    <3>3. Moved("out", Own(Objects, "out") \ {"rbuf", "wbuf", "raw", "bf", "lf"})
      BY <2>2, <2>5, <3>1, <3>2
    <3>4. ~Has("lock", "out")'
      BY <2>3, <3>2, <3>3 DEF Moved
    <3>5. \A k \in Kinds, y \in {"in", "err"} : Has(k, y) => Has(k, y)'
      BY <2>3, <3>3 DEF Moved, Elsewhere
    <3>6. /\ Has("raw", "err")' /\ Has("lf", "err")' /\ Has("lock", "err")' /\ Has("bf", "in")'
          /\ Has("lf", "in")' /\ Has("lock", "in")'
      BY <1>1, <2>3, <3>1, <3>5 DEF BInv, Booted
    <3>. QED  BY <2>4, <3>1, <3>4, <3>6 DEF Booted
  <2>6. CASE ~(kind = "lf" /\ r.res = "freed")
    <3>1. /\ kind = "raw" => Has("raw", x)'
          /\ kind = "bf" => Has("bf", x)'
          /\ kind = "lf" => Has("lf", x)' /\ Has("lock", x)'
      BY <2>2, <2>3, <2>6 DEF Moved
    <3>2. \A k \in Kinds : Has(k, x) => Has(k, x)'
      BY <1>3, <2>2, <2>3, <2>6 DEF Moved
    <3>3. \A k \in Kinds, y \in Streams4 : Has(k, y) => Has(k, y)'
      <4>1. SUFFICES ASSUME NEW k \in Kinds, NEW y \in Streams4, Has(k, y) PROVE Has(k, y)'
        OBVIOUS
      <4>2. CASE y = x
        BY <3>2, <4>1, <4>2
      <4>3. CASE y # x
        BY <1>4, <4>1, <4>3 DEF Elsewhere
      <4>. QED  BY <4>2, <4>3
    <3>4. /\ Has("raw", "err") => Has("raw", "err")'
          /\ Has("lf", "err") => Has("lf", "err")'
          /\ Has("lock", "err") => Has("lock", "err")'
          /\ Has("bf", "in") => Has("bf", "in")'
          /\ Has("lf", "in") => Has("lf", "in")'
          /\ Has("lock", "in") => Has("lock", "in")'
          /\ Has("bf", "out") => Has("bf", "out")'
      BY <2>3, <3>3
    <3>5. boot # 8 => ~Has("lock", "out")'
      <4>1. SUFFICES ASSUME boot # 8 PROVE ~Has("lock", "out")'
        OBVIOUS
      <4>2. ~Has("lock", "out") /\ (x = "out" => kind # "lf")
        BY <1>1, <1>3, <4>1, <1>8 DEF BInv, Booted
      <4>3. CASE x = "out"
        BY <1>3, <2>2, <2>3, <4>2, <4>3 DEF Moved
      <4>4. CASE x # "out"
        BY <1>4, <2>3, <4>2, <4>4 DEF Elsewhere
      <4>. QED  BY <4>3, <4>4
    <3>6. /\ boot = 1 => Has("raw", "err")'
          /\ boot = 2 => Has("lf", "err")' /\ Has("lock", "err")'
          /\ boot = 4 => Has("bf", "in")'
          /\ boot = 5 => Has("lf", "in")' /\ Has("lock", "in")'
          /\ boot = 7 => Has("bf", "out")'
          /\ boot = 8 => Has("lf", "out")' /\ Has("lock", "out")'
      BY <1>1, <3>1, <1>8
    <3>7. /\ boot > 1 => Has("raw", "err")
          /\ boot > 2 => Has("lf", "err") /\ Has("lock", "err")
          /\ boot > 4 => Has("bf", "in")
          /\ boot > 5 => Has("lf", "in") /\ Has("lock", "in")
          /\ boot = 8 => Has("bf", "out")
      BY <1>1, <1>3 DEF BInv, Booted
    <3>. QED  BY <1>1, <1>3, <2>4, <3>4, <3>5, <3>6, <3>7 DEF Booted
  <2>. QED  BY <2>5, <2>6
<1>. QED  BY <1>1, <1>5, <1>6, <1>7 DEF BInv, Booted, Streams

\* An outcome leaves the client what it takes itself to have, or surprises it.
Expected(r, from, kind) ==
    /\ Only(r, Objects, "file") /\ r.err \in BOOLEAN
    /\ \/ /\ r.cause = "none" /\ Have(r, "file", KindsOf(IF r.err THEN from ELSE kind))
          /\ "file" \in r.fds <=> ~r.err \/ from # "none"
       \/ r.cause = "open" /\ Have(r, "file", {}) /\ "file" \in r.fds /\ r.err /\ from = "none"
       \/ r.cause \in {"bf", "lock"} /\ Have(r, "file", {}) /\ "file" \notin r.fds

(***************************************************************************)
(* A client's constructors.                                                *)
(***************************************************************************)
LEMMA WrapObjects ==
  ASSUME BInv, NEW from \in {"none", "raw", "bf"}, NEW kind \in {"raw", "bf", "lf"}, NEW outcomes,
         Wrap(from, kind, outcomes), \A r \in outcomes : Expected(r, from, kind)
  PROVE  BInv'
<1>1. /\ fate = "files" /\ top = from /\ fate' = fate /\ boot' = boot
  BY DEF Wrap
<1>2. PICK r \in outcomes : Become(r) /\ top' = (IF r.err THEN top ELSE kind) /\ surprise' = r.cause
  BY DEF Wrap
<1>3. Only(r, Objects, "file") /\ r.err \in BOOLEAN /\ live' = r.live /\ fds' = r.fds
  BY <1>2 DEF Become, Expected
<1>4. /\ live' \subseteq Kinds \X Streams4 /\ fds' \subseteq Streams4
      /\ top' \in {"none", "raw", "bf", "lf"} /\ surprise' \in Surprises
  BY <1>1, <1>2, <1>3 DEF Only, Expected, Surprises
<1>5. Owns'
  <2>1. top' = (IF r.err THEN from ELSE kind) /\ kind # "none"
    BY <1>1, <1>2
  <2>2. CASE /\ r.cause = "none" /\ Have(r, "file", KindsOf(IF r.err THEN from ELSE kind))
             /\ "file" \in r.fds <=> ~r.err \/ from # "none"
    <3>1. "file" \in fds' <=> top' # "none"
      BY <1>3, <2>1, <2>2
    <3>2. Left' = KindsOf(top')
      BY <1>2, <2>2 DEF Left
    <3>3. Have(r, "file", KindsOf(top'))
      BY <2>1, <2>2
    <3>. QED  BY <1>2, <1>3, <2>2, <3>1, <3>2, <3>3 DEF Owns, Have, Has
  <2>3. CASE r.cause = "open" /\ Have(r, "file", {}) /\ "file" \in r.fds /\ r.err /\ from = "none"
    BY <1>2, <1>3, <2>1, <2>3 DEF Owns, Left, Have, Has
  <2>4. CASE r.cause \in {"bf", "lock"} /\ Have(r, "file", {}) /\ "file" \notin r.fds
    BY <1>2, <1>3, <2>1, <2>4 DEF Owns, Left, Have, Has
  <2>. QED  BY <1>2, <2>2, <2>3, <2>4 DEF Expected
<1>. QED  BY <1>1, <1>4, <1>5 DEF BInv, Booted, Streams

\* Wrapping a file of one's own keeps them in order.
LEMMA MakeFileObjects == BInv /\ MakeFile => BInv'
<1> SUFFICES ASSUME BInv, MakeFile PROVE BInv'
  OBVIOUS
<1>0. IsObjects(Objects) /\ "file" \in Streams4 /\ fate = "files" /\ surprise = "none"
  BY ObjectsAre DEF MakeFile, Wrap, Streams4
<1>1. /\ \A k : k \in Own(Objects, "file") <=> k \in Kinds /\ k \in KindsOf(top)
      /\ "file" \in Objects.fds <=> top # "none"
  BY <1>0, ObjectsAre DEF BInv, Owns, Left, Objects
<1>2. CASE Wrap("none", "raw", FromFd(Objects, "file"))
  <2>1. top = "none"
    BY <1>2 DEF Wrap
  <2>2. ASSUME NEW r \in FromFd(Objects, "file")
        PROVE  Expected(r, "none", "raw")
    <3>1. \/ r.err = TRUE /\ r.cause = "none" /\ Leaves(r, Objects, "file", Own(Objects, "file")) /\ Kept(r, Objects, "file")
          \/ r.err = TRUE /\ r.cause = "open" /\ Leaves(r, Objects, "file", Own(Objects, "file")) /\ "file" \in r.fds
          \/ r.err = FALSE /\ r.cause = "none" /\ Leaves(r, Objects, "file", Own(Objects, "file") \cup {"raw"}) /\ "file" \in r.fds
      BY <1>0, FromFdFacts
    <3>2. /\ Leaves(r, Objects, "file", Own(Objects, "file")) => Have(r, "file", KindsOf("none")) /\ Have(r, "file", {})
          /\ Leaves(r, Objects, "file", Own(Objects, "file") \cup {"raw"}) => Have(r, "file", KindsOf("raw"))
      BY <1>1, <2>1, KindsOfIs DEF Leaves, Have
    <3>. QED  BY <1>1, <2>1, <3>1, <3>2 DEF Expected, Leaves, Kept
  <2>. QED  BY <1>2, <2>2, WrapObjects, Zenon
<1>3. CASE Wrap("raw", "bf", BfNew(Objects, "file"))
  <2>1. top = "raw"
    BY <1>3 DEF Wrap
  <2>2. ASSUME NEW r \in BfNew(Objects, "file")
        PROVE  Expected(r, "raw", "bf")
    <3>0. Own(Objects, "file") = {"raw"}
      BY <1>1, <2>1, KindsOfIs DEF Kinds
    <3>1. \/ r.err = TRUE /\ r.cause = "none" /\ Leaves(r, Objects, "file", {"raw"}) /\ Kept(r, Objects, "file")
          \/ r.err = TRUE /\ r.cause = "bf" /\ Leaves(r, Objects, "file", {}) /\ "file" \notin r.fds
          \/ /\ r.err = FALSE /\ r.cause = "none" /\ Leaves(r, Objects, "file", {"raw", "rbuf", "wbuf", "bf"})
             /\ Kept(r, Objects, "file")
      <4>1. /\ {"raw"} \ {"rbuf"} = {"raw"} /\ {"raw"} \ {"raw", "rbuf", "wbuf"} = {}
            /\ {"raw"} \cup {"rbuf", "wbuf", "bf"} = {"raw", "rbuf", "wbuf", "bf"}
        OBVIOUS
      <4>2. \/ r.err = TRUE /\ r.cause = "none" /\ Leaves(r, Objects, "file", Own(Objects, "file")) /\ Kept(r, Objects, "file")
            \/ r.err = TRUE /\ r.cause = "none" /\ Leaves(r, Objects, "file", Own(Objects, "file") \ {"rbuf"}) /\ Kept(r, Objects, "file")
            \/ r.err = TRUE /\ r.cause = "bf" /\ Leaves(r, Objects, "file", Own(Objects, "file") \ {"raw", "rbuf", "wbuf"}) /\ "file" \notin r.fds
            \/ /\ r.err = FALSE /\ r.cause = "none" /\ Leaves(r, Objects, "file", Own(Objects, "file") \cup {"rbuf", "wbuf", "bf"})
               /\ Kept(r, Objects, "file")
        BY <1>0, BfNewFacts
      <4>. QED  BY <3>0, <4>1, <4>2, Zenon
    <3>. QED  BY <1>1, <2>1, <3>1, KindsOfIs DEF Expected, Leaves, Kept
  <2>. QED  BY <1>3, <2>2, WrapObjects, Zenon
<1>4. CASE Wrap("bf", "lf", LfNew(Objects, "file"))
  <2>1. top = "bf"
    BY <1>4 DEF Wrap
  <2>2. ASSUME NEW r \in LfNew(Objects, "file")
        PROVE  Expected(r, "bf", "lf")
    <3>0. Own(Objects, "file") = {"raw", "rbuf", "wbuf", "bf"}
      BY <1>1, <2>1, KindsOfIs DEF Kinds
    <3>1. \/ r.err = TRUE /\ r.cause = "none" /\ Leaves(r, Objects, "file", {"raw", "rbuf", "wbuf", "bf"}) /\ Kept(r, Objects, "file")
          \/ r.err = FALSE /\ r.cause = "lock" /\ Only(r, Objects, "file") /\ Have(r, "file", {}) /\ "file" \notin r.fds
          \/ /\ r.err = FALSE /\ r.cause = "none" /\ Leaves(r, Objects, "file", {"raw", "rbuf", "wbuf", "bf", "lf", "lock"})
             /\ Kept(r, Objects, "file")
      <4>1. /\ {"raw", "rbuf", "wbuf", "bf"} \ {"rbuf", "wbuf", "raw", "bf", "lf"} = {}
            /\ {"raw", "rbuf", "wbuf", "bf"} \cup {"lf", "lock"} = {"raw", "rbuf", "wbuf", "bf", "lf", "lock"}
        OBVIOUS
      <4>2. \/ r.err = TRUE /\ r.cause = "none" /\ Leaves(r, Objects, "file", Own(Objects, "file")) /\ Kept(r, Objects, "file")
            \/ /\ r.err = FALSE /\ r.cause = "lock" /\ Only(r, Objects, "file") /\ "file" \notin r.fds
               /\ "bf" \in Own(Objects, "file") => Have(r, "file", Own(Objects, "file") \ {"rbuf", "wbuf", "raw", "bf", "lf"})
            \/ /\ r.err = FALSE /\ r.cause = "none" /\ Leaves(r, Objects, "file", Own(Objects, "file") \cup {"lf", "lock"})
               /\ Kept(r, Objects, "file")
        BY <1>0, LfNewFacts
      <4>3. "bf" \in Own(Objects, "file")
        BY <3>0
      <4>. QED  BY <3>0, <4>1, <4>2, <4>3, Zenon
    <3>. QED  BY <1>1, <2>1, <3>1, KindsOfIs DEF Expected, Leaves, Kept
  <2>. QED  BY <1>4, <2>2, WrapObjects, Zenon
<1>. QED  BY <1>2, <1>3, <1>4 DEF MakeFile

(***************************************************************************)
(* A client that closes its file.                                          *)
(***************************************************************************)
LEMMA CloseFileObjects == BInv /\ CloseFile => BInv'
<1> SUFFICES ASSUME BInv, CloseFile PROVE BInv'
  OBVIOUS
<1>0. IsObjects(Objects) /\ "file" \in Streams4 /\ fate = "files" /\ top \in {"raw", "bf", "lf"}
  BY ObjectsAre DEF CloseFile, Streams4, BInv
<1>1. CASE ~(Owned(top, "file") \subseteq live)
  BY <1>1 DEF CloseFile, Stray, objects, BInv, Booted, Streams
<1>2. CASE Owned(top, "file") \subseteq live
  <2> DEFINE Closing(f) == CASE top = "raw" -> CloseFd(Objects, "file")
                             [] top = "bf" -> BfClose(Objects, "file", f)
                             [] top = "lf" -> LfClose(Objects, "file", f)
  <2>1. PICK f \in BOOLEAN : /\ Become(Free(Closing(f), {top}, "file"))
                             /\ surprise' = IF f \/ top = "raw" THEN surprise ELSE "flush"
    BY <1>2 DEF CloseFile
  <2>2. PICK q : q = Closing(f)
    OBVIOUS
  <2>3. top' = "none" /\ fate' = fate /\ boot' = boot
    BY <1>2 DEF CloseFile
  <2>4. PICK k \in {"raw", "bf", "lf"} : top = k
    BY <1>0
  <2>5. /\ k = "raw" => q = CloseFd(Objects, "file")
        /\ k = "bf" => q = BfClose(Objects, "file", f)
        /\ k = "lf" => q = LfClose(Objects, "file", f)
    BY <2>2, <2>4
  <2> HIDE DEF Closing
  <2>6. IsObjects(q) /\ Only(q, Objects, "file")
    <3>1. CASE k = "raw"
      <4>1. {} \in SUBSET Kinds
        OBVIOUS
      <4>2. Closes(q, Objects, "file")
        BY <1>0, <2>5, <3>1, <4>1, ObjectFacts
      <4>. QED  BY <1>0, <4>2 DEF Closes, Only, IsObjects
    <3>2. CASE k = "bf"
      BY <1>0, <2>5, <3>2, BfClosed, Zenon
    <3>3. CASE k = "lf"
      BY <1>0, <2>5, <3>3, LfClosed, Zenon
    <3>. QED  BY <3>1, <3>2, <3>3
  <2>7. PICK g : g = Free(q, {k}, "file")
    OBVIOUS
  <2>8. {k} \in SUBSET Kinds
    BY DEF Kinds
  <2>9. Frees(g, q, {k}, "file")
    BY <1>0, <2>6, <2>7, <2>8, ObjectFacts
  <2>10. live' = g.live /\ fds' = g.fds
    BY <2>1, <2>2, <2>4, <2>7 DEF Become
  <2>11. live' \subseteq Kinds \X Streams4 /\ fds' \subseteq Streams4
    BY <2>9, <2>10 DEF Frees, IsObjects
  <2>12. surprise' \in Surprises
    BY <2>1 DEF BInv, Surprises
  <2>13. surprise = "none" /\ \A j : j \in Own(Objects, "file") <=> j \in Kinds /\ j \in KindsOf(k)
    <3>1. Owns /\ k \in KindsOf(k) /\ k \in Kinds
      BY <1>0, <2>4, KindsOfIs DEF BInv, Kinds
    <3>2. Has(k, "file")
      <4>1. <<k, "file">> \in Owned(top, "file")
        BY <2>4, <3>1, OwnedIs
      <4>. QED  BY <1>2, <4>1 DEF Has
    <3>3. surprise = "none"
      <4>1. k \in Left
        BY <3>1, <3>2 DEF Owns
      <4>2. surprise # "flush"
        BY <2>4, <3>1 DEF Owns
      <4>. QED  BY <4>1, <4>2 DEF Left
    <3>. QED  BY <2>4, <3>1, <3>3, ObjectsAre DEF Owns, Left
  <2>14. CASE f \/ k = "raw"
    <3>1. "file" \notin q.fds /\ \A j \in Kinds : <<j, "file">> \in q.live => j = k
      <4>1. CASE k = "raw"
        <5>1. {} \in SUBSET Kinds
          OBVIOUS
        <5>2. Closes(q, Objects, "file")
          BY <1>0, <2>5, <4>1, <5>1, ObjectFacts
        <5>. QED  BY <2>13, <4>1, <5>2, KindsOfIs DEF Closes, Own
      <4>2. CASE k = "bf"
        <5>1. Have(q, "file", Own(Objects, "file") \ {"rbuf", "wbuf", "raw"}) /\ "file" \notin q.fds
          BY <1>0, <2>5, <2>14, <4>2, BfClosed
        <5>. QED  BY <2>13, <4>2, <5>1, KindsOfIs DEF Have
      <4>3. CASE k = "lf"
        <5>1. "bf" \in Own(Objects, "file")
          BY <2>13, <4>3, KindsOfIs DEF Kinds
        <5>2. Have(q, "file", Own(Objects, "file") \ {"rbuf", "wbuf", "raw", "bf", "lock"}) /\ "file" \notin q.fds
          BY <1>0, <2>5, <2>14, <4>3, <5>1, LfClosed
        <5>. QED  BY <2>13, <4>3, <5>2, KindsOfIs DEF Have
      <4>. QED  BY <4>1, <4>2, <4>3
    <3>2. "file" \notin fds' /\ \A j \in Kinds : <<j, "file">> \notin live'
      BY <2>9, <2>10, <3>1 DEF Frees
    <3>3. surprise' = "none"
      BY <2>1, <2>4, <2>13, <2>14
    <3>4. Left' = {}
      BY <2>3, <3>3, KindsOfIs DEF Left
    <3>5. Owns'
      BY <2>3, <3>2, <3>3, <3>4 DEF Owns, Has
    <3>. QED  BY <1>0, <2>3, <2>11, <2>12, <3>5 DEF BInv, Booted, Streams
  <2>15. CASE ~(f \/ k = "raw")
    <3>1. /\ "file" \in q.fds <=> "file" \in fds
          /\ \A j \in Kinds : <<j, "file">> \in q.live /\ j # k <=> j \in {"raw", "rbuf", "wbuf"}
      <4>1. CASE k = "bf"
        <5>1. q = Objects
          BY <1>0, <2>5, <2>15, <4>1, BfClosed
        <5>. QED  BY <2>13, <4>1, <5>1, KindsOfIs DEF Own, Objects
      <4>2. CASE k = "lf"
        <5>1. "bf" \in Own(Objects, "file")
          BY <2>13, <4>2, KindsOfIs DEF Kinds
        <5>2. Have(q, "file", Own(Objects, "file") \ {"bf", "lock"}) /\ ("file" \in q.fds <=> "file" \in Objects.fds)
          BY <1>0, <2>5, <2>15, <4>2, <5>1, LfClosed
        <5>. QED  BY <2>13, <4>2, <5>2, KindsOfIs DEF Have, Objects, Kinds
      <4>. QED  BY <2>15, <4>1, <4>2
    <3>2. "file" \in fds
      BY <1>0, <2>13 DEF BInv, Owns
    <3>3. surprise' = "flush"
      BY <2>1, <2>4, <2>15
    <3>4. Left' = {"raw", "rbuf", "wbuf"}
      BY <3>3 DEF Left
    <3>5. \A j \in Kinds : <<j, "file">> \in live' <=> j \in {"raw", "rbuf", "wbuf"}
      BY <2>9, <2>10, <2>15, <3>1 DEF Frees
    <3>6. "file" \in fds'
      BY <2>9, <2>10, <3>1, <3>2 DEF Frees
    <3>7. Owns'
      BY <2>3, <3>3, <3>4, <3>5, <3>6 DEF Owns, Has
    <3>. QED  BY <1>0, <2>3, <2>11, <2>12, <3>7 DEF BInv, Booted, Streams
  <2>. QED  BY <2>14, <2>15
<1>. QED  BY <1>1, <1>2

(***************************************************************************)
(* ministd_io_cleanup leaves nothing of stdin's LockedFile.  Of stdout's   *)
(* it takes the lock, and after the flush the rest.                        *)
(***************************************************************************)
ClosesIn == Become(Free(LfClose(Objects, "in", TRUE), {"lf"}, "in"))
FreesLock == Become(Free(Objects, {"lock"}, "out"))
ClosesOut == Become(Free(Release(Objects, "out", TRUE), {"lf"}, "out"))

\* What each of the three frees, and that it touches no other stream.
LEMMA CleanupFacts ==
  ASSUME BInv
  PROVE  /\ ClosesIn => Elsewhere("in") /\ ~Has("lf", "in")' /\ ~Has("lock", "in")'
         /\ FreesLock => Elsewhere("out") /\ \A k \in Kinds : Has(k, "out")' <=> Has(k, "out") /\ k # "lock"
         /\ ClosesOut => Elsewhere("out") /\ ~Has("bf", "out")' /\ \A k \in Kinds : Has(k, "out")' => Has(k, "out")
<1>0. IsObjects(Objects) /\ "in" \in Streams4 /\ "out" \in Streams4 /\ {"lf"} \in SUBSET Kinds /\ {"lock"} \in SUBSET Kinds
  BY ObjectsAre DEF Streams4, Kinds
<1>1. ASSUME ClosesIn PROVE Elsewhere("in") /\ ~Has("lf", "in")' /\ ~Has("lock", "in")'
  <2>1. PICK q : q = LfClose(Objects, "in", TRUE)
    OBVIOUS
  <2>2. IsObjects(q) /\ Only(q, Objects, "in") /\ <<"lock", "in">> \notin q.live
    BY <1>0, <2>1, CloseFacts
  <2>3. PICK g : g = Free(q, {"lf"}, "in")
    OBVIOUS
  <2>4. Frees(g, q, {"lf"}, "in")
    BY <1>0, <2>2, <2>3, ObjectFacts
  <2>5. Become(g)
    BY <1>1, <2>1, <2>3 DEF ClosesIn
  <2>6. Only(g, Objects, "in") /\ <<"lf", "in">> \notin g.live /\ <<"lock", "in">> \notin g.live
    BY <2>2, <2>4 DEF Only, Frees, IsObjects
  <2>7. Elsewhere("in")
    BY <1>0, <2>5, <2>6, Moves
  <2>. QED  BY <2>5, <2>6, <2>7 DEF Become, Has
<1>2. ASSUME FreesLock PROVE Elsewhere("out") /\ \A k \in Kinds : Has(k, "out")' <=> Has(k, "out") /\ k # "lock"
  <2>1. PICK g : g = Free(Objects, {"lock"}, "out")
    OBVIOUS
  <2>2. Frees(g, Objects, {"lock"}, "out") /\ Become(g)
    BY <1>0, <1>2, <2>1, ObjectFacts DEF FreesLock
  <2>3. Only(g, Objects, "out")
    BY <2>2 DEF Only, Frees, IsObjects
  <2>4. Elsewhere("out")
    BY <1>0, <2>2, <2>3, Moves
  <2>. QED  BY <2>2, <2>4 DEF Become, Has, Frees, Objects
<1>3. ASSUME ClosesOut PROVE Elsewhere("out") /\ ~Has("bf", "out")' /\ \A k \in Kinds : Has(k, "out")' => Has(k, "out")
  <2>1. PICK q : q = Release(Objects, "out", TRUE)
    OBVIOUS
  <2>2. /\ IsObjects(q) /\ Only(q, Objects, "out") /\ <<"bf", "out">> \notin q.live
        /\ \A k : <<k, "out">> \in q.live => <<k, "out">> \in Objects.live
    BY <1>0, <2>1, CloseFacts
  <2>3. PICK g : g = Free(q, {"lf"}, "out")
    OBVIOUS
  <2>4. Frees(g, q, {"lf"}, "out")
    BY <1>0, <2>2, <2>3, ObjectFacts
  <2>5. Become(g)
    BY <1>3, <2>1, <2>3 DEF ClosesOut
  <2>6. /\ Only(g, Objects, "out") /\ <<"bf", "out">> \notin g.live
        /\ \A k : <<k, "out">> \in g.live => <<k, "out">> \in Objects.live
    BY <2>2, <2>4 DEF Only, Frees, IsObjects
  <2>7. Elsewhere("out")
    BY <1>0, <2>5, <2>6, Moves
  <2>. QED  BY <2>5, <2>6, <2>7 DEF Become, Has, Objects
<1>. QED  BY <1>1, <1>2, <1>3

\* None of it disturbs the others.
LEMMA CleanupObjects ==
  ASSUME BInv, ClosesIn \/ FreesLock \/ ClosesOut, fate = "runs", UNCHANGED <<fate, boot, top, surprise>>
  PROVE  BInv'
<1>1. \/ Elsewhere("in") /\ ~Has("lock", "in")'
      \/ Elsewhere("out")
  BY CleanupFacts
<1>2. /\ "lf" \in Kinds /\ "lock" \in Kinds /\ "raw" \in Kinds /\ "bf" \in Kinds
      /\ "in" \in Streams4 /\ "err" \in Streams4
  BY DEF Kinds, Streams4
<1>3. Streams'
  <2>1. CASE Elsewhere("in") /\ ~Has("lock", "in")'
    BY <1>2, <2>1 DEF BInv, Streams, Elsewhere
  <2>2. CASE Elsewhere("out")
    BY <1>2, <2>2 DEF BInv, Streams, Elsewhere
  <2>. QED  BY <1>1, <2>1, <2>2
<1>. QED  BY <1>1, <1>3 DEF BInv, Booted, Elsewhere

\* The steps that concern the objects, and all the others.
ObjectSteps ==
    \/ IoInit \/ Main \/ MakeFile \/ CloseFile
    \/ UNCHANGED objects /\ (fate' = fate \/ fate' \in {"strays", "dies", "exited", "overruns"})
    \/ /\ ClosesIn \/ FreesLock \/ (ClosesOut /\ \E t \in Threads : StdoutClosed(t))
       /\ fate = "runs" /\ UNCHANGED <<fate, boot, top, surprise>>

\* Every step is one of these.
LEMMA ObjectStepsAre == [Next]_vars => ObjectSteps
<1> SUFFICES ASSUME [Next]_vars PROVE ObjectSteps
  OBVIOUS
<1>s. Stray \/ Overrun => ObjectSteps
  BY DEF Stray, Overrun, ObjectSteps, objects
<1>1. CASE IoInit \/ Main \/ MakeFile \/ CloseFile
  BY <1>1 DEF ObjectSteps
<1>2. ASSUME NEW t \in Threads, Step(t) PROVE ObjectSteps
  <2>1. CASE CloseStdin(t) \/ CloseStdout(t)
    BY <1>s, <2>1, Zenon DEF CloseStdin, CloseStdout, At, ObjectSteps, ClosesIn, FreesLock
  <2>8. CASE StdoutClosed(t)
    <3>1. Stray \/ (ClosesOut /\ fate = "runs" /\ UNCHANGED <<fate, boot, top, surprise>>)
      BY <2>8, Zenon DEF StdoutClosed, ClosesOut
    <3>. QED  BY <1>s, <2>8, <3>1, Zenon DEF ObjectSteps
  <2>2. CASE Atexit(t) \/ HookRegisters(t)
    BY <1>s, <2>2 DEF Atexit, HookRegisters, Register, ObjectSteps, objects
  <2>3. CASE RunHook(t) \/ ExitGroup(t) \/ Exit(t) \/ ThreadEnds(t) \/ Clone(t)
    BY <2>3 DEF RunHook, ExitGroup, Exit, ThreadEnds, Clone, ObjectSteps, objects
  <2>4. CASE PutOut(t) \/ Report(t) \/ Reporting(t) \/ LeaveOut(t) \/ Read(t, "read") \/ Read(t, "peek")
    BY <1>s, <2>4 DEF PutOut, Report, Reporting, LeaveOut, Read, ObjectSteps, objects
  <2>5. CASE Printing(t) \/ Flushing(t)
    BY <1>s, <2>5 DEF Printing, Store, NoRoom, Refill, Flushing, SendSome, Reload, Advance, AllSent, Reset, OffStdout,
                      ObjectSteps, objects
  <2>6. CASE UsePushBack(t) \/ Reading(t)
    BY <1>s, <2>6 DEF UsePushBack, PushBackStep, Reading, ObjectSteps, objects
  <2>7. CASE \/ Enter(t, "out", "print", "printing") \/ Enter(t, "out", "flush", "flushing")
             \/ Enter(t, "err", "err", "reporting") \/ Enter(t, "in", "in", "reading")
    BY <1>s, <2>7 DEF Enter, ObjectSteps, objects
  <2>. QED  BY <1>2, <2>1, <2>2, <2>3, <2>4, <2>5, <2>6, <2>7, <2>8 DEF Step
<1>3. CASE ChildExits
  BY <1>3 DEF ChildExits, ObjectSteps, objects
<1>4. CASE UNCHANGED vars
  BY <1>4 DEF vars, ObjectSteps, objects
<1>. QED  BY <1>1, <1>2, <1>3, <1>4 DEF Next

\* There is no object at the start.
LEMMA ObjectsInit == Init => BInv
<1> SUFFICES ASSUME Init PROVE BInv
  OBVIOUS
<1>1. /\ fate = "boot" /\ boot = 1 /\ live = {} /\ fds = {"in", "out", "err"} /\ top = "none" /\ surprise = "none"
  BY DEF Init
<1>2. \A k, x : ~Has(k, x)
  BY <1>1 DEF Has
<1>3. Booted /\ Streams
  BY <1>1, <1>2 DEF Booted, Streams
<1>4. live \subseteq Kinds \X Streams4 /\ fds \subseteq Streams4 /\ boot \in 1 .. 9
  BY <1>1 DEF Streams4
<1>5. top \in {"none", "raw", "bf", "lf"} /\ surprise \in Surprises /\ fate # "files"
  BY <1>1 DEF Surprises
<1>. QED  BY <1>3, <1>4, <1>5 DEF BInv

\* Every step keeps the objects in order.
LEMMA ObjectsNext == BInv /\ [Next]_vars => BInv'
<1> SUFFICES ASSUME BInv, ObjectSteps PROVE BInv'
  BY ObjectStepsAre
<1>1. CASE IoInit
  BY <1>1, IoInitObjects
<1>2. CASE Main
  <2>1. boot = 9 /\ fate = "boot" /\ fate' \in {"files", "runs"} /\ UNCHANGED objects
    BY <1>2, BootStepsAre DEF Main, BInv
  <2>2. \A k, x : Has(k, x)' <=> Has(k, x)
    BY <2>1 DEF objects, Has
  <2>3. Booted' /\ Streams'
    BY <2>1, <2>2 DEF BInv, Booted, Streams
  <2>4. Owns'
    BY <2>1, <2>2, KindsOfIs DEF BInv, Booted, Owns, Left, objects
  <2>. QED  BY <2>1, <2>3, <2>4 DEF BInv, objects
<1>3. CASE MakeFile
  BY <1>3, MakeFileObjects
<1>4. CASE CloseFile
  BY <1>4, CloseFileObjects
<1>5. CASE UNCHANGED objects /\ (fate' = fate \/ fate' \in {"strays", "dies", "exited", "overruns"})
  <2>1. Owns => Owns'
    BY <1>5 DEF Owns, Left, Has, objects, KindsOf
  <2>. QED  BY <1>5, <2>1 DEF BInv, Booted, Streams, objects, Has
<1>6. CASE /\ ClosesIn \/ FreesLock \/ (ClosesOut /\ \E t \in Threads : StdoutClosed(t))
           /\ fate = "runs" /\ UNCHANGED <<fate, boot, top, surprise>>
  BY <1>6, CleanupObjects
<1>. QED  BY <1>1, <1>2, <1>3, <1>4, <1>5, <1>6 DEF ObjectSteps

(***************************************************************************)
(* What the client of a file of its own holds is what there is, whichever  *)
(* constructors and closes fail, but after the four failures that do not   *)
(* leave it what it had; and after those there is exactly what each of     *)
(* them leaves.                                                            *)
(***************************************************************************)
THEOREM FilesOwned == Spec => []ClientOwnsFile
BY ObjectsInit, ObjectsNext, OwnsIs, PTL DEF Spec

-----------------------------------------------------------------------------
(***************************************************************************)
(* The types, with those of what a thread carries through a call.          *)
(***************************************************************************)
Pcs == {"idle", "print", "printing", "flush", "flushing", "advance", "reset", "done", "stopped", "failed",
        "err", "reporting", "check", "clear", "take", "unget", "set", "store", "in", "reading",
        "exit", "closein", "closeout", "dead"}

Bytes == 1 .. MaxIn
Ops == {"none", "full", "err", "read", "peek", "close"}
Backs == {"idle", "exit", "closeout"}

Locs == [op : Ops, back : Backs, id : Nat, from : Nat, sent : Nat, mark : SUBSET Messages, sure : BOOLEAN]

\* The places inside a stream's mutex.
InOut == {"printing", "flushing", "advance", "reset", "done", "stopped", "failed"}
Within(x) == CASE x = "out" -> InOut [] x = "err" -> {"reporting"} [] x = "in" -> {"reading"}

\* What the place where a thread is says of what it carries.
Carries(w, l) ==
    /\ w \in {"print", "printing"} => l.op = "none" /\ l.id \in Messages
    /\ l.op = "full" => w \in InOut /\ l.id \in Messages
    /\ l.op = "close" => w \in InOut \ {"printing"} /\ l.back = "closeout"
    /\ w \in {"unget", "set", "store"} => l.id \in Bytes
    /\ w = "reading" => l.from \in 1 .. MaxIn + 1
    /\ w \in {"idle", "exit", "closein", "closeout", "dead"} => l.back = "idle"

ThreadTypes ==
    /\ pc \in [Threads -> Pcs] /\ loc \in [Threads -> Locs]
    /\ \A t \in Threads : Carries(pc[t], loc[t])

Fates == {"boot", "files", "runs", "exited", "dies", "overruns", "strays"}
Mutexes == {"in", "out", "err"}

InputTypes == nextin \in 1 .. MaxIn + 1 /\ has \in BOOLEAN /\ ungot \in 0 .. MaxIn /\ got \in Seq(Bytes)

OutputTypes ==
    /\ n \in 0 .. MaxPrints /\ kept \in SUBSET Messages
    /\ outbuf \in Seq(Messages) /\ outpos \in Nat /\ screen \in Seq(Messages) /\ stalled \in BOOLEAN

TInv ==
    /\ fate \in Fates
    /\ holder \in [Mutexes -> Threads \cup {None}]
    /\ OutputTypes /\ InputTypes
    /\ child = None \/ child \in [pending : Seq(Messages), done : BOOLEAN]
    /\ ThreadTypes

\* The fields of what a thread carries.
Is(l, op, back, id, from, sent, mark, sure) ==
    /\ l.op = op /\ l.back = back /\ l.id = id /\ l.from = from /\ l.sent = sent
    /\ l.mark = mark /\ l.sure = sure

\* Thread t, alone, is at w with l afterwards.
Turn(t, w, l) ==
    /\ w \in Pcs /\ l \in Locs
    /\ pc' \in [Threads -> Pcs] /\ loc' \in [Threads -> Locs]
    /\ pc'[t] = w /\ loc'[t] = l
    /\ \A u \in Threads \ {t} : pc'[u] = pc[u] /\ loc'[u] = loc[u]

(***************************************************************************)
(* Replacing fields of what a thread carries.                              *)
(***************************************************************************)
LEMMA LocExcept ==
  ASSUME NEW l \in Locs
  PROVE  /\ \A b \in Backs : LET m == [l EXCEPT !.back = b]
                             IN m \in Locs /\ Is(m, l.op, b, l.id, l.from, l.sent, l.mark, l.sure)
         /\ \A f \in Nat : LET m == [l EXCEPT !.from = f]
                           IN m \in Locs /\ Is(m, l.op, l.back, l.id, f, l.sent, l.mark, l.sure)
         /\ \A f \in Nat, k \in Nat : LET m == [l EXCEPT !.from = f, !.sent = k]
                           IN m \in Locs /\ Is(m, l.op, l.back, l.id, f, k, l.mark, l.sure)
         /\ \A i \in Nat : LET m == [l EXCEPT !.id = i]
                           IN m \in Locs /\ Is(m, l.op, l.back, i, l.from, l.sent, l.mark, l.sure)
         /\ \A o \in Ops : LET m == [l EXCEPT !.op = o]
                           IN m \in Locs /\ Is(m, o, l.back, l.id, l.from, l.sent, l.mark, l.sure)
         /\ \A a \in BOOLEAN, x \in SUBSET Messages :
              LET m == [l EXCEPT !.sure = a, !.mark = x]
              IN m \in Locs /\ Is(m, l.op, l.back, l.id, l.from, l.sent, x, a)
         /\ \A o \in Ops, x \in SUBSET Messages :
              LET m == [l EXCEPT !.op = o, !.mark = x]
              IN m \in Locs /\ Is(m, o, l.back, l.id, l.from, l.sent, x, l.sure)
         /\ \A o \in Ops, b \in Backs, i \in Nat :
              LET m == [l EXCEPT !.op = o, !.back = b, !.id = i]
              IN m \in Locs /\ Is(m, o, b, i, l.from, l.sent, l.mark, l.sure)
         /\ \A o \in Ops, b \in Backs, x \in SUBSET Messages :
              LET m == [l EXCEPT !.op = o, !.back = b, !.mark = x]
              IN m \in Locs /\ Is(m, o, b, l.id, l.from, l.sent, x, l.sure)
BY ZenonT(60) DEF Locs, Is

\* The fields of what a thread outside a call carries.
LEMMA NothingIs == Nothing \in Locs /\ Is(Nothing, "none", "idle", 0, 0, 0, {}, FALSE)
BY DEF Nothing, Locs, Is, Ops, Backs

\* A thread that moves alone takes its turn.
LEMMA TurnIs ==
  ASSUME ThreadTypes, NEW t \in Threads, NEW w \in Pcs, NEW l \in Locs,
         pc' = [pc EXCEPT ![t] = w], loc' = [loc EXCEPT ![t] = l]
  PROVE  Turn(t, w, l)
BY DEF Turn, ThreadTypes

\* The types of the fields.
LEMMA LocFields ==
  ASSUME ThreadTypes, NEW t \in Threads
  PROVE  /\ loc[t] \in Locs /\ loc[t].op \in Ops /\ loc[t].back \in Backs /\ loc[t].id \in Nat
         /\ loc[t].from \in Nat /\ loc[t].sent \in Nat
         /\ loc[t].mark \in SUBSET Messages /\ loc[t].sure \in BOOLEAN
         /\ pc[t] \in Pcs
<1>1. loc[t] \in Locs /\ pc[t] \in Pcs
  BY DEF ThreadTypes
<1>. QED  BY <1>1 DEF Locs

(***************************************************************************)
(* How a thread moves: it calls, returns, goes on with what it carries, or *)
(* changes a field of that.                                                *)
(***************************************************************************)
LEMMA CallTurn ==
  ASSUME ThreadTypes, NEW t \in Threads, NEW w \in Pcs, pc[t] \in Backs, NEW rec \in Locs, Call(t, w, rec)
  PROVE  \E l : Turn(t, w, l) /\ Is(l, rec.op, pc[t], rec.id, rec.from, rec.sent, rec.mark, rec.sure)
<1>1. PICK l : l = [rec EXCEPT !.back = pc[t]]
  OBVIOUS
<1>2. l \in Locs /\ Is(l, rec.op, pc[t], rec.id, rec.from, rec.sent, rec.mark, rec.sure)
  BY <1>1, LocExcept
<1>3. Turn(t, w, l)
  BY <1>1, <1>2, TurnIs DEF Call, Goto
<1>. QED  BY <1>2, <1>3

\* It goes back to where it was called from, with nothing.
LEMMA ReturnTurn ==
  ASSUME ThreadTypes, NEW t \in Threads, Return(t)
  PROVE  Turn(t, loc[t].back, Nothing) /\ loc[t].back \in Backs
<1>1. loc[t].back \in Backs /\ loc[t].back \in Pcs
  BY DEF ThreadTypes, Locs, Backs, Pcs
<1>. QED  BY <1>1, NothingIs, TurnIs DEF Return, Goto

\* It goes on with what it carries.
LEMMA GotoTurn ==
  ASSUME ThreadTypes, NEW t \in Threads, NEW w \in Pcs, Goto(t, w), loc' = loc
  PROVE  Turn(t, w, loc[t])
BY DEF Goto, Turn, ThreadTypes

\* It goes on from a position it has loaded.
LEMMA FromTurn ==
  ASSUME ThreadTypes, NEW t \in Threads, NEW w \in Pcs, NEW from \in Nat,
         pc' = [pc EXCEPT ![t] = w], loc' = [loc EXCEPT ![t].from = from]
  PROVE  \E l : /\ Turn(t, w, l)
                /\ Is(l, loc[t].op, loc[t].back, loc[t].id, from, loc[t].sent, loc[t].mark, loc[t].sure)
<1>1. PICK l : l = [loc[t] EXCEPT !.from = from]
  OBVIOUS
<1>2. l \in Locs /\ Is(l, loc[t].op, loc[t].back, loc[t].id, from, loc[t].sent, loc[t].mark, loc[t].sure)
  BY <1>1, LocFields, LocExcept
<1>3. Turn(t, w, l)
  BY <1>1, <1>2, TurnIs
<1>. QED  BY <1>2, <1>3

\* It goes on with what a raw write took.
LEMMA SentTurn ==
  ASSUME ThreadTypes, NEW t \in Threads, NEW w \in Pcs, NEW from \in Nat, NEW k \in Nat,
         Goto(t, w), loc' = [loc EXCEPT ![t].from = from, ![t].sent = k]
  PROVE  \E l : Turn(t, w, l) /\ Is(l, loc[t].op, loc[t].back, loc[t].id, from, k, loc[t].mark, loc[t].sure)
<1>1. PICK l : l = [loc[t] EXCEPT !.from = from, !.sent = k]
  OBVIOUS
<1>2. l \in Locs /\ Is(l, loc[t].op, loc[t].back, loc[t].id, from, k, loc[t].mark, loc[t].sure)
  BY <1>1, LocFields, LocExcept
<1>3. loc' = [loc EXCEPT ![t] = l]
  BY <1>1 DEF ThreadTypes
<1>4. Turn(t, w, l)
  BY <1>2, <1>3, TurnIs DEF Goto
<1>. QED  BY <1>2, <1>4

\* It goes on as another call.
LEMMA OpTurn ==
  ASSUME ThreadTypes, NEW t \in Threads, NEW w \in Pcs, NEW op \in Ops,
         pc' = [pc EXCEPT ![t] = w], loc' = [loc EXCEPT ![t].op = op]
  PROVE  \E l : /\ Turn(t, w, l)
                /\ Is(l, op, loc[t].back, loc[t].id, loc[t].from, loc[t].sent, loc[t].mark, loc[t].sure)
<1>1. PICK l : l = [loc[t] EXCEPT !.op = op]
  OBVIOUS
<1>2. l \in Locs /\ Is(l, op, loc[t].back, loc[t].id, loc[t].from, loc[t].sent, loc[t].mark, loc[t].sure)
  BY <1>1, LocFields, LocExcept
<1>3. Turn(t, w, l)
  BY <1>1, <1>2, TurnIs
<1>. QED  BY <1>2, <1>3

\* It goes on with what its flush told it.
LEMMA FlushTurn ==
  ASSUME ThreadTypes, NEW t \in Threads, NEW w \in Pcs, NEW all \in BOOLEAN, Goto(t, w),
         loc' = [loc EXCEPT ![t].sure = all, ![t].mark = IF all THEN @ ELSE {}]
  PROVE  \E l : /\ Turn(t, w, l)
                /\ Is(l, loc[t].op, loc[t].back, loc[t].id, loc[t].from, loc[t].sent,
                      IF all THEN loc[t].mark ELSE {}, all)
<1>1. PICK m : m = IF all THEN loc[t].mark ELSE {}
  OBVIOUS
<1>2. m \in SUBSET Messages
  BY <1>1, LocFields
<1>3. PICK l : l = [loc[t] EXCEPT !.sure = all, !.mark = m]
  OBVIOUS
<1>4. l \in Locs /\ Is(l, loc[t].op, loc[t].back, loc[t].id, loc[t].from, loc[t].sent, m, all)
  BY <1>2, <1>3, LocFields, LocExcept
<1>5. loc' = [loc EXCEPT ![t] = l]
  BY <1>1, <1>3, LocFields DEF ThreadTypes, Locs
<1>6. Turn(t, w, l)
  BY <1>4, <1>5, TurnIs DEF Goto
<1>. QED  BY <1>1, <1>4, <1>6

\* The other threads carry what they did.
LEMMA TurnTypes ==
  ASSUME ThreadTypes, NEW t \in Threads, NEW w, NEW l, Turn(t, w, l), Carries(w, l)
  PROVE  ThreadTypes'
<1>1. ASSUME NEW u \in Threads PROVE Carries(pc'[u], loc'[u])
  BY DEF ThreadTypes, Turn
<1>2. ThreadTypes' <=> /\ pc' \in [Threads -> Pcs] /\ loc' \in [Threads -> Locs]
                       /\ \A u \in Threads : Carries(pc'[u], loc'[u])
  BY DEF ThreadTypes, Carries, Pcs, Locs, Bytes, Messages, Ops, Backs, InOut
<1>. QED  BY <1>1, <1>2 DEF Turn

\* A turn that keeps the rest in its types keeps all.
LEMMA TurnKeepsTypes ==
  ASSUME TInv, NEW t \in Threads, NEW w, NEW l, Turn(t, w, l), Carries(w, l),
         holder' \in [Mutexes -> Threads \cup {None}], OutputTypes', InputTypes', child' = child, fate' \in Fates
  PROVE  TInv'
<1>1. ThreadTypes'
  BY TurnTypes DEF TInv
<1>. QED  BY <1>1 DEF TInv

(***************************************************************************)
(* Most steps of a thread print nothing and change no object or hook: they *)
(* call, take a mutex or leave it, go on in a loop, push back and return.  *)
(* What all of them respect is said here once.                             *)
(***************************************************************************)
\* A thread at w with l is under the mutex of x.
InLock(w, l, x) == w \in Within(x) /\ l.op # "close"

Tied == {"err", "reporting", "in", "reading"}

\* A thread that still has its message to give to stdout.
Printer(w, l) == w \in {"print", "printing"} \/ l.op = "full"

\* Whoever is in exit, and in the library's hook.
EndsAt(w, l) == w \in {"exit", "closein", "closeout"} \/ l.back \in {"exit", "closeout"}
CleansAt(w, l) == w \in {"closein", "closeout"} \/ l.back = "closeout"

\* The mutexes of a thread that goes to w with l: the same, one taken or one left.
Stays(t, w, l) == holder' = holder /\ \A x \in Mutexes : InLock(pc[t], loc[t], x) <=> InLock(w, l, x)

Takes(t, w, l) ==
    \E x \in Mutexes : /\ holder[x] = None /\ holder' = [holder EXCEPT ![x] = t] /\ <<"lock", x>> \in live
                       /\ \A y \in Mutexes : ~InLock(pc[t], loc[t], y) /\ (InLock(w, l, y) <=> y = x)

LeavesIt(t, w, l) ==
    \E x \in Mutexes : /\ holder' = [holder EXCEPT ![x] = None] /\ <<"lock", x>> \in live
                       /\ \A y \in Mutexes : ~InLock(w, l, y) /\ (InLock(pc[t], loc[t], y) <=> y = x)

\* What a quiet step does not change for the others, nor for the messages.
Respects(t, w, l) ==
    /\ Printer(w, l) => Printer(pc[t], loc[t]) /\ l.id = loc[t].id
    /\ l.mark = loc[t].mark \/ l.mark = {} \/ l.mark = Pending
    /\ w \in Tied /\ l.sure =>
          \/ pc[t] \in Tied /\ loc[t].sure /\ l.mark = loc[t].mark
          \/ pc[t] = "done" /\ loc[t].op \in {"err", "read", "peek"} /\ <<"lock", "out">> \in live
    /\ w = "advance" \/ pc[t] = "advance" => w = pc[t] /\ loc[t].from # outpos
    /\ w = "reset" => outpos >= Len(outbuf)
    /\ w # "done"
    /\ l.op = "close" => loc[t].op = "close"
    /\ EndsAt(w, l) => EndsAt(pc[t], loc[t]) /\ pc[t] # "exit"
    /\ CleansAt(pc[t], loc[t]) => CleansAt(w, l)

Quietly(t, w, l) ==
    /\ fate = "runs" /\ fate' \in {"runs", "dies"}
    /\ Turn(t, w, l) /\ Carries(w, l) /\ InputTypes'
    /\ Stays(t, w, l) \/ Takes(t, w, l) \/ LeavesIt(t, w, l)
    /\ Respects(t, w, l)
    /\ UNCHANGED <<objects, output, exiting, child>>

\* The places within each mutex.
LEMMA Withins == /\ Within("out") = InOut /\ Within("err") = {"reporting"} /\ Within("in") = {"reading"}
                 /\ Mutexes = {"in", "out", "err"} /\ Backs \cap InOut = {}
                 /\ "reporting" \notin InOut /\ "reading" \notin InOut
BY DEF Within, Mutexes, Backs, InOut

\* A thread in no place within a mutex holds none.
LEMMA Free3 ==
  ASSUME NEW w, w \notin InOut \cup {"reporting", "reading"}, NEW l
  PROVE  \A x \in Mutexes : ~InLock(w, l, x)
BY Withins DEF InLock

\* What the buffer still has to send are elements of it.
LEMMA WaitingIs ==
  ASSUME OutputTypes
  PROVE  /\ Len(outbuf) \in Nat /\ Waiting \in Seq(Messages)
         /\ outpos <= Len(outbuf) => Len(Waiting) = Len(outbuf) - outpos
         /\ \A i \in DOMAIN Waiting : outpos + i \in DOMAIN outbuf /\ Waiting[i] = outbuf[outpos + i]
         /\ DOMAIN Waiting = 1 .. Len(Waiting) /\ DOMAIN outbuf = 1 .. Len(outbuf)
<1>1. outbuf \in Seq(Messages) /\ outpos \in Nat /\ Len(outbuf) \in Nat /\ DOMAIN outbuf = 1 .. Len(outbuf)
  BY LenProperties DEF OutputTypes
<1>2. CASE outpos <= Len(outbuf)
  <2>1. outpos \in 0 .. Len(outbuf)
    BY <1>1, <1>2
  <2>2. Waiting \in Seq(Messages) /\ Len(Waiting) = Len(outbuf) - outpos
    BY <1>1, <2>1, Cut DEF Waiting
  <2>3. \A i \in 1 .. Len(outbuf) - outpos : Waiting[i] = outbuf[outpos + i]
    BY <1>1, <2>1, CutElements DEF Waiting
  <2>4. DOMAIN Waiting = 1 .. Len(outbuf) - outpos
    BY <2>2, LenProperties
  <2>. QED  BY <1>1, <1>2, <2>2, <2>3, <2>4
<1>3. CASE outpos > Len(outbuf)
  <2>1. outpos + 1 \in Int /\ Len(outbuf) \in Int /\ ~(outpos + 1 <= Len(outbuf)) /\ outpos + 1 .. Len(outbuf) = {}
    BY <1>1, <1>3
  <2>2. Waiting \in Seq(Messages) /\ Len(Waiting) = 0
    BY <2>1, SubSeqProperties DEF Waiting
  <2>3. DOMAIN Waiting = 1 .. Len(Waiting)
    BY <2>2, LenProperties
  <2>4. DOMAIN Waiting = {} /\ ~(outpos <= Len(outbuf))
    BY <1>1, <1>3, <2>2, <2>3
  <2>. QED  BY <1>1, <2>2, <2>3, <2>4
<1>4. outpos <= Len(outbuf) \/ outpos > Len(outbuf)
  BY <1>1
<1>. QED  BY <1>2, <1>3, <1>4, Zenon

Vals(s) == {s[i] : i \in DOMAIN s}

\* So what is pending are messages of the buffer.
LEMMA PendingIs == OutputTypes => Pending \subseteq Vals(outbuf) /\ Pending \in SUBSET Messages
<1> SUFFICES ASSUME OutputTypes PROVE Pending \subseteq Vals(outbuf) /\ Pending \in SUBSET Messages
  OBVIOUS
<1>1. Pending \subseteq Vals(outbuf)
  BY WaitingIs DEF Pending, Vals
<1>2. Vals(outbuf) \subseteq Messages
  BY ElementOfSeq, WaitingIs DEF OutputTypes, Vals
<1>. QED  BY <1>1, <1>2

\* The places where a thread waits for a mutex, and where it goes.
Entry(x, from, to) ==
    \/ x = "out" /\ from = "print" /\ to = "printing"
    \/ x = "out" /\ from = "flush" /\ to = "flushing"
    \/ x = "err" /\ from = "err" /\ to = "reporting"
    \/ x = "in" /\ from = "in" /\ to = "reading"

\* Taking a mutex is quiet.
LEMMA EnterQuiet ==
  ASSUME TInv, NEW t \in Threads,
         NEW x, NEW from, NEW to, Entry(x, from, to), Enter(t, x, from, to), fate' # "strays"
  PROVE  \E w, l : Quietly(t, w, l)
<1>0. x \in Mutexes /\ to \in Pcs
  BY DEF Entry, Mutexes, Pcs
<1>1. /\ fate = "runs" /\ pc[t] = from /\ holder[x] = None /\ holder' = [holder EXCEPT ![x] = t]
      /\ Goto(t, to) /\ UNCHANGED <<fate, objects, output, input, exiting, child>>
      /\ <<"lock", x>> \in live
  BY DEF Enter, At, Stray
<1>2. PICK s : s = IF x = "in" THEN nextin ELSE 0
  OBVIOUS
<1>3. s \in Nat /\ (x = "in" => s \in 1 .. MaxIn + 1)
  BY <1>2, BoundsAssumption DEF TInv, InputTypes
<1>4. loc' = [loc EXCEPT ![t].from = s]
  BY <1>2 DEF Enter, Stray
<1>5. PICK l : Turn(t, to, l) /\ Is(l, loc[t].op, loc[t].back, loc[t].id, s, loc[t].sent, loc[t].mark, loc[t].sure)
  BY <1>0, <1>1, <1>3, <1>4, FromTurn DEF TInv, Goto
<1>6. Carries(pc[t], loc[t])
  BY DEF TInv, ThreadTypes
<1>o. loc[t].op \notin {"close", "full"}
  BY <1>1, <1>6 DEF Entry, Carries, InOut
<1>7. Carries(to, l)
  BY <1>1, <1>3, <1>5, <1>6, <1>o DEF Entry, Carries, Is, InOut
<1>8. Takes(t, to, l)
  <2>1. from \notin InOut \cup {"reporting", "reading"}
    BY DEF Entry, InOut
  <2>2. \A y \in Mutexes : ~InLock(pc[t], loc[t], y)
    BY <1>1, <2>1, Free3
  <2>3. \A y \in Mutexes : InLock(to, l, y) <=> y = x
    BY <1>5, <1>o, Withins DEF Entry, InLock, Is, InOut
  <2>. QED  BY <1>0, <1>1, <2>2, <2>3 DEF Takes
<1>9. Respects(t, to, l)
  BY <1>1, <1>5, <1>o DEF Entry, Respects, Printer, Is, Tied, EndsAt, CleansAt
<1>10. InputTypes'
  BY <1>1 DEF TInv, InputTypes, input
<1>. QED  BY <1>1, <1>5, <1>7, <1>8, <1>9, <1>10 DEF Quietly

\* Beginning to report or to read is.
LEMMA CallQuiet ==
  ASSUME TInv, NEW t \in Threads, NEW w \in {"flush", "check"}, Idle(t),
         NEW op \in {"err", "read", "peek"}, Call(t, w, [Nothing EXCEPT !.op = op, !.mark = Pending]),
         UNCHANGED <<fate, objects, holder, output, input, exiting, child>>
  PROVE  \E l : Quietly(t, w, l)
<1>1. PICK rec : rec = [Nothing EXCEPT !.op = op, !.mark = Pending]
  OBVIOUS
<1>2. rec \in Locs /\ Is(rec, op, "idle", 0, 0, 0, Pending, FALSE)
  <2>1. Nothing \in Locs /\ op \in Ops /\ Pending \in SUBSET Messages
    BY NothingIs, PendingIs DEF Ops, TInv
  <2>2. rec \in Locs /\ Is(rec, op, Nothing.back, Nothing.id, Nothing.from, Nothing.sent, Pending, Nothing.sure)
    BY <1>1, <2>1, LocExcept
  <2>. QED  BY <2>2, NothingIs DEF Is
<1>3. fate = "runs" /\ pc[t] = "idle" /\ pc[t] \in Backs /\ w \in Pcs
  BY DEF Idle, Backs, Pcs
<1>4. PICK l : Turn(t, w, l) /\ Is(l, rec.op, pc[t], rec.id, rec.from, rec.sent, rec.mark, rec.sure)
  BY <1>1, <1>2, <1>3, CallTurn DEF TInv
<1>5. l.op = op /\ l.back = "idle" /\ l.mark = Pending /\ l.sure = FALSE
  BY <1>2, <1>3, <1>4 DEF Is
<1>6. Carries(w, l)
  BY <1>5 DEF Carries
<1>7. Stays(t, w, l)
  <2>1. w \notin InOut \cup {"reporting", "reading"} /\ "idle" \notin InOut \cup {"reporting", "reading"}
    BY DEF InOut
  <2>. QED  BY <1>3, <2>1, Free3 DEF Stays
<1>8. Respects(t, w, l)
  <2>1. loc[t].back = "idle"
    BY <1>3 DEF TInv, ThreadTypes, Carries
  <2>. QED  BY <1>3, <1>5, <2>1 DEF Respects, Printer, Tied, EndsAt, CleansAt
<1>9. InputTypes'
  BY DEF TInv, InputTypes, input
<1>. QED  BY <1>3, <1>4, <1>6, <1>7, <1>8, <1>9 DEF Quietly

\* Returning is.
LEMMA ReturnQuiet ==
  ASSUME TInv, NEW t \in Threads, fate = "runs", fate' = fate, Return(t), InputTypes',
         pc[t] \notin {"idle", "exit", "closein", "closeout", "dead", "advance"},
         UNCHANGED <<objects, output, exiting, child>>,
         Stays(t, loc[t].back, Nothing) \/ LeavesIt(t, loc[t].back, Nothing)
  PROVE  \E w, l : Quietly(t, w, l)
<1>1. Turn(t, loc[t].back, Nothing) /\ loc[t].back \in Backs
  BY ReturnTurn DEF TInv
<1>2. Is(Nothing, "none", "idle", 0, 0, 0, {}, FALSE)
  BY NothingIs
<1>3. Carries(loc[t].back, Nothing)
  BY <1>1, <1>2 DEF Carries, Is, Backs
<1>4. Respects(t, loc[t].back, Nothing)
  BY <1>1, <1>2 DEF Respects, Printer, Is, Backs, Tied, EndsAt, CleansAt
<1>. QED  BY <1>1, <1>3, <1>4 DEF Quietly

\* A thread in no mutex returns to none.
LEMMA OutsideBack ==
  ASSUME TInv, NEW t \in Threads, holder' = holder, \A x \in Mutexes : ~InLock(pc[t], loc[t], x)
  PROVE  Stays(t, loc[t].back, Nothing)
<1>1. loc[t].back \notin InOut \cup {"reporting", "reading"}
  BY LocFields DEF TInv, Backs, InOut
<1>. QED  BY <1>1, Free3 DEF Stays

\* One in a mutex leaves it.
LEMMA LeavesBack ==
  ASSUME TInv, NEW t \in Threads, NEW x \in Mutexes, Leave(x), InLock(pc[t], loc[t], x), <<"lock", x>> \in live
  PROVE  /\ LeavesIt(t, loc[t].back, Nothing)
         /\ \A w, l : w \notin InOut \cup {"reporting", "reading"} => LeavesIt(t, w, l)
<1>1. loc[t].back \notin InOut \cup {"reporting", "reading"}
  BY LocFields DEF TInv, Backs, InOut
<1>2. \A y \in Mutexes : InLock(pc[t], loc[t], y) <=> y = x
  BY Withins DEF InLock, InOut
<1>3. ASSUME NEW w, NEW l, w \notin InOut \cup {"reporting", "reading"} PROVE LeavesIt(t, w, l)
  BY <1>2, <1>3, Free3 DEF LeavesIt, Leave
<1>. QED  BY <1>1, <1>3

\* Leaving stderr's mutex is quiet.
LEMMA ReportingQuiet ==
  ASSUME TInv, NEW t \in Threads, Reporting(t), fate' # "strays"
  PROVE  \E w, l : Quietly(t, w, l)
<1>1. /\ fate = "runs" /\ pc[t] = "reporting" /\ Leave("err") /\ Return(t) /\ <<"lock", "err">> \in live
      /\ UNCHANGED <<fate, objects, output, input, exiting, child>>
  BY DEF Reporting, At, Stray, Inside
<1>2. InLock(pc[t], loc[t], "err") /\ "err" \in Mutexes
  BY <1>1, Withins DEF InLock, TInv, ThreadTypes, Carries
<1>3. LeavesIt(t, loc[t].back, Nothing)
  BY <1>1, <1>2, LeavesBack
<1>4. InputTypes'
  BY <1>1 DEF TInv, InputTypes, input
<1>. QED  BY <1>1, <1>3, <1>4, ReturnQuiet

\* Delivering a byte is, under stdin's mutex or outside it.
LEMMA DeliverQuiet ==
  ASSUME TInv, NEW t \in Threads, fate = "runs", fate' = fate, NEW byte \in 0 .. MaxIn, Deliver(t, byte),
         nextin' \in 1 .. MaxIn + 1, has' \in BOOLEAN, ungot' \in 0 .. MaxIn,
         UNCHANGED <<objects, output, exiting, child>>,
         \/ pc[t] = "take" /\ holder' = holder
         \/ pc[t] = "reading" /\ Leave("in") /\ <<"lock", "in">> \in live
  PROVE  \E w, l : Quietly(t, w, l)
<1>0. pc[t] \notin {"idle", "exit", "closein", "closeout", "dead", "advance"} /\ MaxIn \in Nat /\ "in" \in Mutexes
  BY BoundsAssumption DEF Mutexes
<1>o. loc[t].op # "close"
  BY Withins DEF TInv, ThreadTypes, Carries, InOut
<1>l. \/ holder' = holder /\ \A x \in Mutexes : ~InLock(pc[t], loc[t], x)
      \/ Leave("in") /\ InLock(pc[t], loc[t], "in") /\ <<"lock", "in">> \in live
  <2>1. CASE pc[t] = "take" /\ holder' = holder
    <3>1. "take" \notin InOut \cup {"reporting", "reading"}
      BY DEF InOut
    <3>. QED  BY <2>1, <3>1, Free3
  <2>2. CASE pc[t] = "reading" /\ Leave("in") /\ <<"lock", "in">> \in live
    BY <1>o, <2>2, Withins DEF InLock
  <2>. QED  BY <2>1, <2>2
<1>1. CASE loc[t].op = "peek" /\ byte # 0
  <2>0. got' = got /\ byte \in Nat /\ byte \in Bytes /\ "unget" \in Pcs /\ "peek" \in Ops /\ loc[t].back \in Backs
    BY <1>0, <1>1, LocFields DEF Deliver, Bytes, Pcs, Ops, TInv
  <2>1. PICK l : l = [Nothing EXCEPT !.op = "peek", !.back = loc[t].back, !.id = byte]
    OBVIOUS
  <2>2. l \in Locs /\ Is(l, "peek", loc[t].back, byte, Nothing.from, Nothing.sent, Nothing.mark, Nothing.sure)
    BY <2>0, <2>1, NothingIs, LocExcept
  <2>3. Is(l, "peek", loc[t].back, byte, 0, 0, {}, FALSE)
    BY <2>2, NothingIs DEF Is
  <2>4. Turn(t, "unget", l)
    BY <1>1, <2>0, <2>1, <2>2, TurnIs DEF Deliver, Goto, TInv
  <2>5. Carries("unget", l)
    BY <2>0, <2>3 DEF Carries, Is
  <2>6. Stays(t, "unget", l) \/ LeavesIt(t, "unget", l)
    <3>1. "unget" \notin InOut \cup {"reporting", "reading"}
      BY DEF InOut
    <3>2. \A x \in Mutexes : ~InLock("unget", l, x)
      BY <3>1, Free3
    <3>3. CASE holder' = holder /\ \A x \in Mutexes : ~InLock(pc[t], loc[t], x)
      BY <3>2, <3>3 DEF Stays
    <3>4. CASE Leave("in") /\ InLock(pc[t], loc[t], "in") /\ <<"lock", "in">> \in live
      BY <1>0, <3>1, <3>4, LeavesBack
    <3>. QED  BY <1>l, <3>3, <3>4
  <2>7. Respects(t, "unget", l)
    BY <1>0, <2>3 DEF Respects, Printer, Is, Tied, EndsAt, CleansAt
  <2>8. InputTypes'
    BY <2>0 DEF TInv, InputTypes
  <2>. QED  BY <2>4, <2>5, <2>6, <2>7, <2>8 DEF Quietly
<1>2. CASE ~(loc[t].op = "peek" /\ byte # 0)
  <2>1. Return(t) /\ got' = IF byte # 0 THEN Append(got, byte) ELSE got
    BY <1>2 DEF Deliver
  <2>2. got' \in Seq(Bytes)
    <3>1. byte # 0 => byte \in Bytes
      BY <1>0 DEF Bytes
    <3>2. got \in Seq(Bytes)
      BY DEF TInv, InputTypes
    <3>. QED  BY <2>1, <3>1, <3>2, AppendProperties
  <2>3. Stays(t, loc[t].back, Nothing) \/ LeavesIt(t, loc[t].back, Nothing)
    BY <1>0, <1>l, OutsideBack, LeavesBack
  <2>4. InputTypes'
    BY <2>2 DEF InputTypes
  <2>. QED  BY <1>0, <2>1, <2>3, <2>4, ReturnQuiet
<1>. QED  BY <1>1, <1>2

\* Reading a byte under stdin's mutex is.
LEMMA ReadingQuiet ==
  ASSUME TInv, NEW t \in Threads, Reading(t), fate' # "strays"
  PROVE  \E w, l : Quietly(t, w, l)
<1>1. PICK byte \in {0} \cup {b \in {loc[t].from} : b <= MaxIn} :
         nextin' = (IF byte = 0 THEN nextin ELSE byte + 1) /\ Deliver(t, byte)
  BY DEF Reading, Stray
<1>2. /\ fate = "runs" /\ pc[t] = "reading" /\ Leave("in") /\ <<"lock", "in">> \in live
      /\ UNCHANGED <<fate, objects, output, has, ungot, exiting, child>>
  BY DEF Reading, At, Stray, Inside
<1>3. loc[t].from \in 1 .. MaxIn + 1 /\ MaxIn \in Nat
  BY <1>2, BoundsAssumption DEF TInv, ThreadTypes, Carries
<1>4. byte \in 0 .. MaxIn /\ nextin' \in 1 .. MaxIn + 1
  BY <1>1, <1>3 DEF TInv, InputTypes
<1>5. has' \in BOOLEAN /\ ungot' \in 0 .. MaxIn
  BY <1>2 DEF TInv, InputTypes
<1>. QED  BY <1>1, <1>2, <1>4, <1>5, DeliverQuiet

\* The steps of a push-back that only move on are.
LEMMA GotoQuiet ==
  ASSUME TInv, NEW t \in Threads, fate = "runs", fate' = fate, InputTypes',
         NEW w \in {"clear", "flush", "take", "set", "store"}, Goto(t, w), UNCHANGED <<loc, holder, objects, output, exiting, child>>,
         pc[t] \in {"check", "clear", "unget", "set"}, w \in {"set", "store"} => pc[t] \in {"unget", "set"}
  PROVE  Quietly(t, w, loc[t])
<1>1. Turn(t, w, loc[t])
  BY GotoTurn DEF TInv, Pcs
<1>o. /\ pc[t] \notin InOut \cup {"reporting", "reading"} /\ w \notin InOut \cup {"reporting", "reading"}
      /\ loc[t].op \notin {"full", "close"}
  BY DEF TInv, ThreadTypes, Carries, InOut
<1>2. Carries(w, loc[t])
  BY <1>o DEF TInv, ThreadTypes, Carries
<1>3. Stays(t, w, loc[t])
  BY <1>o, Free3 DEF Stays
<1>4. Respects(t, w, loc[t])
  BY <1>o DEF Respects, Printer, Tied, EndsAt, CleansAt
<1>. QED  BY <1>1, <1>2, <1>3, <1>4 DEF Quietly

\* Using the byte pushed back, outside the mutex, is.
LEMMA PushBackQuiet ==
  ASSUME TInv, NEW t \in Threads, UsePushBack(t), fate' # "strays"
  PROVE  \E w, l : Quietly(t, w, l)
<1>1. PushBackStep(t) /\ fate' = fate
  BY DEF UsePushBack, Stray
<1>2. UNCHANGED <<objects, holder, output, nextin, exiting, child>>
  BY <1>1 DEF PushBackStep
<1>3. nextin' \in 1 .. MaxIn + 1 /\ has \in BOOLEAN /\ ungot \in 0 .. MaxIn /\ got \in Seq(Bytes)
  BY <1>2 DEF TInv, InputTypes
<1>r. ASSUME pc[t] \in {"unget", "store"} PROVE Stays(t, loc[t].back, Nothing)
  <2>1. pc[t] \notin InOut \cup {"reporting", "reading"}
    BY <1>r DEF InOut
  <2>. QED  BY <1>2, <2>1, Free3, OutsideBack
<1>4. CASE At(t, "check") /\ Goto(t, IF has THEN "clear" ELSE "flush") /\ UNCHANGED <<loc, has, ungot, got>>
  <2>1. InputTypes' /\ fate = "runs" /\ pc[t] = "check"
    BY <1>3, <1>4 DEF InputTypes, At
  <2>2. Goto(t, "clear") \/ Goto(t, "flush")
    BY <1>4
  <2>. QED  BY <1>1, <1>2, <1>4, <2>1, <2>2, GotoQuiet
<1>5. CASE At(t, "clear") /\ has' = FALSE /\ Goto(t, "take") /\ UNCHANGED <<loc, ungot, got>>
  <2>1. InputTypes' /\ fate = "runs" /\ pc[t] = "clear"
    BY <1>3, <1>5 DEF InputTypes, At
  <2>. QED  BY <1>1, <1>2, <1>5, <2>1, GotoQuiet
<1>6. CASE At(t, "take") /\ Deliver(t, ungot) /\ UNCHANGED <<has, ungot>>
  BY <1>1, <1>2, <1>3, <1>6, DeliverQuiet DEF At
<1>7. CASE At(t, "unget") /\ has /\ Return(t) /\ UNCHANGED <<has, ungot, got>>
  <2>1. InputTypes' /\ fate = "runs" /\ pc[t] = "unget"
    BY <1>3, <1>7 DEF InputTypes, At
  <2>. QED  BY <1>1, <1>2, <1>7, <1>r, <2>1, ReturnQuiet
<1>8. CASE At(t, "unget") /\ Goto(t, "set") /\ UNCHANGED <<loc, has, ungot, got>>
  <2>1. InputTypes' /\ fate = "runs" /\ pc[t] = "unget"
    BY <1>3, <1>8 DEF InputTypes, At
  <2>. QED  BY <1>1, <1>2, <1>8, <2>1, GotoQuiet
<1>9. CASE At(t, "set") /\ has' = TRUE /\ Goto(t, "store") /\ UNCHANGED <<loc, ungot, got>>
  <2>1. InputTypes' /\ fate = "runs" /\ pc[t] = "set"
    BY <1>3, <1>9 DEF InputTypes, At
  <2>. QED  BY <1>1, <1>2, <1>9, <2>1, GotoQuiet
<1>10. CASE At(t, "store") /\ ungot' = loc[t].id /\ Return(t) /\ UNCHANGED <<has, got>>
  <2>1. fate = "runs" /\ pc[t] = "store"
    BY <1>10 DEF At
  <2>2. loc[t].id \in 0 .. MaxIn
    BY <2>1, BoundsAssumption DEF TInv, ThreadTypes, Carries, Bytes
  <2>3. InputTypes'
    BY <1>3, <1>10, <2>2 DEF InputTypes
  <2>. QED  BY <1>1, <1>2, <1>10, <1>r, <2>1, <2>3, ReturnQuiet
<1>. QED  BY <1>1, <1>4, <1>5, <1>6, <1>7, <1>8, <1>9, <1>10 DEF PushBackStep

\* The end of a thread is.
LEMMA EndsQuiet ==
  ASSUME TInv, NEW t \in Threads, ThreadEnds(t)
  PROVE  \E w, l : Quietly(t, w, l)
<1>1. /\ fate = "runs" /\ pc[t] = "idle" /\ Goto(t, "dead") /\ fate' \in {"runs", "dies"}
      /\ UNCHANGED <<objects, loc, holder, output, input, exiting, child>>
  BY DEF ThreadEnds, Idle
<1>2. Turn(t, "dead", loc[t])
  BY <1>1, GotoTurn DEF TInv, Pcs
<1>3. Carries("dead", loc[t]) /\ loc[t].back = "idle" /\ loc[t].op \notin {"full", "close"}
  BY <1>1 DEF TInv, ThreadTypes, Carries, InOut
<1>4. Stays(t, "dead", loc[t])
  <2>1. "idle" \notin InOut \cup {"reporting", "reading"} /\ "dead" \notin InOut \cup {"reporting", "reading"}
    BY DEF InOut
  <2>. QED  BY <1>1, <2>1, Free3 DEF Stays
<1>5. Respects(t, "dead", loc[t])
  BY <1>1, <1>3 DEF Respects, Printer, Tied, EndsAt, CleansAt
<1>6. InputTypes'
  BY <1>1 DEF TInv, InputTypes, input
<1>. QED  BY <1>1, <1>2, <1>3, <1>4, <1>5, <1>6 DEF Quietly

\* A step within stdout that changes no more than the place, the call and the position loaded is.
LEMMA InnerQuiet ==
  ASSUME TInv, NEW t \in Threads, fate = "runs", UNCHANGED <<fate, objects, holder, output, input, exiting, child>>,
         pc[t] \in InOut, NEW w \in InOut \ {"printing", "done"}, NEW l, Turn(t, w, l),
         l.back = loc[t].back /\ l.id = loc[t].id /\ l.mark = loc[t].mark /\ l.sure = loc[t].sure,
         l.op = loc[t].op \/ (l.op = "full" /\ pc[t] = "printing"),
         w = "advance" \/ pc[t] = "advance" => w = pc[t] /\ loc[t].from # outpos,
         w = "reset" => outpos >= Len(outbuf)
  PROVE  Quietly(t, w, l)
<1>1. Carries(pc[t], loc[t])
  BY DEF TInv, ThreadTypes
<1>o. pc[t] = "printing" => loc[t].op = "none" /\ loc[t].id \in Messages
  BY <1>1 DEF Carries
<1>2. Carries(w, l)
  BY <1>1, <1>o DEF Carries, InOut
<1>3. Stays(t, w, l)
  BY <1>o, Withins DEF Stays, InLock
<1>4. Respects(t, w, l)
  <2>1. Printer(w, l) => Printer(pc[t], loc[t])
    BY <1>o DEF Printer, InOut
  <2>2. w \notin Tied /\ w \notin {"exit", "closein", "closeout"} /\ pc[t] \notin {"exit", "closein", "closeout"}
    BY DEF Tied, InOut
  <2>3. l.op = "close" => loc[t].op = "close"
    BY <1>o
  <2>. QED  BY <2>1, <2>2, <2>3 DEF Respects, EndsAt, CleansAt
<1>5. InputTypes'
  BY DEF TInv, InputTypes, input
<1>. QED  BY <1>2, <1>3, <1>4, <1>5 DEF Quietly

\* So are the steps of the loops that move no message.
LEMMA LoopsQuiet ==
  ASSUME TInv, NEW t \in Threads,
         \/ NoRoom(t) \/ Reload(t) \/ AllSent(t)
         \/ SendSome(t) /\ (Goto(t, "stopped") \/ Goto(t, "failed")) /\ UNCHANGED <<loc, screen>>
  PROVE  \E w, l : Quietly(t, w, l)
<1>0. ThreadTypes /\ OutputTypes
  BY DEF TInv
<1>1. CASE NoRoom(t)
  <2>1. /\ fate = "runs" /\ pc[t] = "printing" /\ UNCHANGED <<fate, objects, holder, output, input, exiting, child>>
        /\ Goto(t, "flushing") /\ loc' = [loc EXCEPT ![t].op = "full"] /\ "flushing" \in Pcs /\ "full" \in Ops
    BY <1>1 DEF NoRoom, OnStdout, At, Pcs, Ops
  <2>2. PICK l : /\ Turn(t, "flushing", l)
                 /\ Is(l, "full", loc[t].back, loc[t].id, loc[t].from, loc[t].sent, loc[t].mark, loc[t].sure)
    BY <1>0, <2>1, OpTurn DEF Goto
  <2>. QED  BY <2>1, <2>2, InnerQuiet DEF Is, InOut
<1>2. CASE Reload(t)
  <2>1. /\ fate = "runs" /\ pc[t] = "advance" /\ loc[t].from # outpos
        /\ UNCHANGED <<fate, objects, pc, holder, output, input, exiting, child>>
        /\ loc' = [loc EXCEPT ![t].from = outpos] /\ "advance" \in Pcs /\ outpos \in Nat
    BY <1>0, <1>2 DEF Reload, OnStdout, At, Pcs, OutputTypes
  <2>2. pc' = [pc EXCEPT ![t] = "advance"]
    BY <1>0, <2>1 DEF ThreadTypes
  <2>3. PICK l : /\ Turn(t, "advance", l)
                 /\ Is(l, loc[t].op, loc[t].back, loc[t].id, outpos, loc[t].sent, loc[t].mark, loc[t].sure)
    BY <1>0, <2>1, <2>2, FromTurn
  <2>. QED  BY <2>1, <2>3, InnerQuiet DEF Is, InOut
<1>3. CASE AllSent(t)
  <2>1. /\ fate = "runs" /\ pc[t] = "flushing" /\ outpos >= Len(outbuf) /\ Goto(t, "reset") /\ "reset" \in Pcs
        /\ UNCHANGED <<fate, objects, loc, holder, output, input, exiting, child>>
    BY <1>3 DEF AllSent, OnStdout, At, Pcs
  <2>2. Turn(t, "reset", loc[t])
    BY <1>0, <2>1, GotoTurn
  <2>. QED  BY <2>1, <2>2, InnerQuiet DEF InOut
<1>4. ASSUME NEW w \in {"stopped", "failed"}, SendSome(t), Goto(t, w), UNCHANGED <<loc, screen>>
      PROVE  Quietly(t, w, loc[t])
  <2>1. /\ fate = "runs" /\ pc[t] = "flushing" /\ w \in Pcs
        /\ UNCHANGED <<fate, objects, holder, output, input, exiting, child>>
    BY <1>4 DEF SendSome, OnStdout, At, Pcs, output
  <2>2. Turn(t, w, loc[t])
    BY <1>0, <1>4, <2>1, GotoTurn
  <2>. QED  BY <2>1, <2>2, InnerQuiet DEF InOut
<1>. QED  BY <1>1, <1>2, <1>3, <1>4

\* And so is leaving stdout's mutex.
LEMMA LeaveOutQuiet ==
  ASSUME TInv, NEW t \in Threads, LeaveOut(t), fate' # "strays"
  PROVE  \E w, l : Quietly(t, w, l)
<1>1. /\ fate = "runs" /\ pc[t] \in {"done", "stopped", "failed"} /\ loc[t].op # "close"
      /\ ~(pc[t] = "done" /\ loc[t].op = "full")
      /\ <<"lock", "out">> \in live /\ Leave("out") /\ UNCHANGED <<fate, objects, output, input, exiting, child>>
  BY DEF LeaveOut, Stray, Inside
<1>2. InLock(pc[t], loc[t], "out") /\ "out" \in Mutexes
  BY <1>1, Withins DEF InLock, InOut
<1>3. InputTypes'
  BY <1>1 DEF TInv, InputTypes, input
<1>4. CASE Return(t)
  BY <1>1, <1>2, <1>3, <1>4, LeavesBack, ReturnQuiet
<1>5. CASE ~(loc[t].op \in {"none", "full"} \/ (pc[t] = "failed" /\ loc[t].op # "err"))
  <2>1. PICK w \in {"err", "in"} : w = IF loc[t].op = "err" THEN "err" ELSE "in"
    OBVIOUS
  <2>2. PICK all \in BOOLEAN : all = (pc[t] = "done")
    OBVIOUS
  <2>3. /\ Goto(t, w) /\ w \in Pcs
        /\ loc' = [loc EXCEPT ![t].sure = all, ![t].mark = IF all THEN @ ELSE {}]
    BY <1>5, <2>1, <2>2 DEF Pcs, LeaveOut, Stray
  <2>4. PICK l : /\ Turn(t, w, l)
                 /\ Is(l, loc[t].op, loc[t].back, loc[t].id, loc[t].from, loc[t].sent,
                       IF all THEN loc[t].mark ELSE {}, all)
    BY <2>3, FlushTurn DEF TInv
  <2>5. loc[t].op \in {"err", "read", "peek"}
    BY <1>1, <1>5, LocFields DEF TInv, Ops
  <2>6. Carries(w, l)
    BY <2>4, <2>5 DEF Carries, Is
  <2>7. LeavesIt(t, w, l)
    <3>1. w \notin InOut \cup {"reporting", "reading"}
      BY DEF InOut
    <3>. QED  BY <1>1, <1>2, <3>1, LeavesBack
  <2>8. Respects(t, w, l)
    <3>1. l.op = loc[t].op /\ l.back = loc[t].back /\ (l.mark = loc[t].mark \/ l.mark = {}) /\ l.sure = all
      BY <2>4 DEF Is
    <3>. QED  BY <1>1, <2>2, <2>5, <3>1 DEF Respects, Printer, Tied, EndsAt, CleansAt
  <2>. QED  BY <1>1, <1>3, <2>4, <2>6, <2>7, <2>8 DEF Quietly
<1>. QED  BY <1>1, <1>4, <1>5 DEF LeaveOut, Stray

-----------------------------------------------------------------------------
\* No thread moves.
Rests == UNCHANGED <<pc, loc, holder, output, input, child>> /\ fate' \in Fates

\* A raw write of the flush takes k of what is waiting.
Sends(t, k) ==
    /\ OnStdout(t, "flushing") /\ outpos < Len(outbuf)
    /\ screen' = screen \o SubSeq(Waiting, 1, k)
    /\ loc' = [loc EXCEPT ![t].from = outpos, ![t].sent = k] /\ Goto(t, "advance")
    /\ UNCHANGED <<fate, objects, holder, n, kept, outbuf, outpos, stalled, input, exiting, child>>

\* The steps that do more.
Deeds(t) ==
    /\ fate' # "strays"
    /\ \/ PutOut(t) \/ Store(t) \/ Refill(t) \/ (\E k \in 1 .. Len(Waiting) : Sends(t, k)) \/ Advance(t) \/ Reset(t)
       \/ Exit(t) \/ RunHook(t) \/ CloseStdin(t) \/ CloseStdout(t) \/ StdoutClosed(t)

Steps ==
    \/ Rests
    \/ \E t \in Threads : \E w, l : Quietly(t, w, l)
    \/ \E t \in Threads : Deeds(t) \/ Clone(t)
    \/ ChildExits

\* Straying moves no thread.
LEMMA StrayRests == Stray \/ Overrun => Rests
BY DEF Stray, Overrun, Rests, Fates

\* Every step rests, is quiet, or is one of the others.
LEMMA StepsAre == TInv /\ [Next]_vars => Steps
<1> SUFFICES ASSUME TInv, [Next]_vars PROVE Steps
  OBVIOUS
<1>s. Stray \/ Overrun => Steps
  BY StrayRests DEF Steps
<1>1. CASE IoInit \/ Main \/ MakeFile
  BY <1>1 DEF IoInit, BootFails, Main, MakeFile, Wrap, Steps, Rests, TInv, Fates
<1>2. CASE CloseFile
  BY <1>2, StrayRests DEF CloseFile, Steps, Rests, TInv
<1>3. ASSUME NEW t \in Threads, Step(t) PROVE Steps
  <2>q. (\E w, l : Quietly(t, w, l)) => Steps
    BY DEF Steps
  <2>d. Deeds(t) => Steps
    BY DEF Steps
  <2>1. CASE Atexit(t) \/ HookRegisters(t) \/ ExitGroup(t)
    <3>1. CASE ExitGroup(t)
      BY <3>1 DEF ExitGroup, Steps, Rests, Fates
    <3>2. ASSUME NEW hook, Register(hook) PROVE Steps
      BY <1>s, <3>2 DEF Register, Steps, Rests, TInv
    <3>3. CASE Atexit(t)
      BY <3>2, <3>3 DEF Atexit
    <3>4. CASE HookRegisters(t)
      BY <3>2, <3>4 DEF HookRegisters
    <3>. QED  BY <2>1, <3>1, <3>3, <3>4
  <2>2. CASE PutOut(t) \/ Exit(t) \/ RunHook(t)
    <3>1. fate' # "strays"
      BY <2>2 DEF PutOut, Exit, RunHook, Idle, At
    <3>. QED  BY <2>2, <2>d, <3>1 DEF Deeds
  <2>3. CASE CloseStdin(t) \/ CloseStdout(t) \/ StdoutClosed(t)
    <3>1. Stray \/ fate' = "runs"
      BY <2>3, Zenon DEF CloseStdin, CloseStdout, StdoutClosed, At
    <3>. QED  BY <1>s, <2>3, <2>d, <3>1 DEF Deeds
  <2>4. CASE Printing(t)
    <3>1. CASE Stray
      BY <1>s, <3>1
    <3>2. CASE NoRoom(t)
      BY <2>q, <3>2, LoopsQuiet
    <3>3. CASE Store(t) \/ Refill(t)
      <4>1. fate' # "strays"
        BY <3>3 DEF Store, Refill, OnStdout, At
      <4>. QED  BY <2>d, <3>3, <4>1 DEF Deeds
    <3>. QED  BY <2>4, <3>1, <3>2, <3>3 DEF Printing, OffStdout
  <2>5. CASE Flushing(t)
    <3>1. CASE Stray
      BY <1>s, <3>1
    <3>2. CASE Reload(t) \/ AllSent(t)
      BY <2>q, <3>2, LoopsQuiet
    <3>3. CASE Advance(t) \/ Reset(t)
      <4>1. fate' # "strays"
        BY <3>3 DEF Advance, Reset, OnStdout, At
      <4>. QED  BY <2>d, <3>3, <4>1 DEF Deeds
    <3>4. CASE SendSome(t)
      <4>1. CASE (Goto(t, "stopped") \/ Goto(t, "failed")) /\ UNCHANGED <<loc, screen>>
        BY <2>q, <3>4, <4>1, LoopsQuiet
      <4>2. ASSUME NEW k \in 1 .. Len(Waiting),
                   screen' = screen \o SubSeq(Waiting, 1, k),
                   loc' = [loc EXCEPT ![t].from = outpos, ![t].sent = k], Goto(t, "advance")
            PROVE  Steps
        <5>1. Sends(t, k) /\ fate' # "strays"
          BY <3>4, <4>2 DEF SendSome, Sends, OnStdout, At
        <5>. QED  BY <2>d, <5>1 DEF Deeds
      <4>. QED  BY <3>4, <4>1, <4>2 DEF SendSome
    <3>. QED  BY <2>5, <3>1, <3>2, <3>3, <3>4 DEF Flushing, OffStdout
  <2>6. CASE LeaveOut(t)
    <3>1. CASE fate' = "strays"
      <4>1. Stray
        BY <2>6, <3>1 DEF LeaveOut
      <4>. QED  BY <1>s, <4>1
    <3>2. CASE fate' # "strays"
      BY <2>6, <2>q, <3>2, LeaveOutQuiet
    <3>. QED  BY <3>1, <3>2
  <2>7. CASE Clone(t)
    BY <2>7 DEF Steps
  <2>8. CASE ThreadEnds(t)
    BY <2>8, <2>q, EndsQuiet
  <2>9. CASE Reporting(t) \/ Reading(t) \/ UsePushBack(t)
    <3>1. CASE fate' = "strays"
      <4>1. Stray
        BY <2>9, <3>1 DEF Reporting, Reading, UsePushBack, PushBackStep, At
      <4>. QED  BY <1>s, <4>1
    <3>2. CASE fate' # "strays"
      BY <2>9, <2>q, <3>2, ReportingQuiet, ReadingQuiet, PushBackQuiet
    <3>. QED  BY <3>1, <3>2
  <2>10. CASE Report(t) \/ Read(t, "read") \/ Read(t, "peek")
    BY <2>10, <2>q, CallQuiet DEF Report, Read
  <2>11. ASSUME NEW x, NEW from, NEW to, Enter(t, x, from, to), Entry(x, from, to) PROVE Steps
    <3>1. CASE fate' = "strays"
      <4>1. Stray
        BY <2>11, <3>1 DEF Enter, At
      <4>. QED  BY <1>s, <4>1
    <3>2. CASE fate' # "strays"
      BY <2>q, <2>11, <3>2, EnterQuiet
    <3>. QED  BY <3>1, <3>2
  <2>12. CASE \/ Enter(t, "out", "print", "printing") \/ Enter(t, "out", "flush", "flushing")
              \/ Enter(t, "err", "err", "reporting") \/ Enter(t, "in", "in", "reading")
    <3>1. /\ Entry("out", "print", "printing") /\ Entry("out", "flush", "flushing")
          /\ Entry("err", "err", "reporting") /\ Entry("in", "in", "reading")
      BY DEF Entry
    <3>. QED  BY <2>11, <2>12, <3>1
  <2>. QED  BY <1>3, <2>1, <2>2, <2>3, <2>4, <2>5, <2>6, <2>7, <2>8, <2>9, <2>10, <2>12 DEF Step
<1>4. CASE ChildExits
  BY <1>4 DEF Steps
<1>5. CASE UNCHANGED vars
  BY <1>5 DEF vars, Steps, Rests, TInv
<1>. QED  BY <1>1, <1>2, <1>3, <1>4, <1>5 DEF Next

-----------------------------------------------------------------------------
(***************************************************************************)
(* Where the thread of a step that does more is afterwards.                *)
(***************************************************************************)
LEMMA PutOutTurn ==
  ASSUME TInv, NEW t \in Threads, PutOut(t)
  PROVE  \E l : Turn(t, "print", l) /\ Carries("print", l) /\ Is(l, "none", pc[t], n + 1, 0, 0, {}, FALSE)
<1>1. fate = "runs" /\ pc[t] \in {"idle", "exit"} /\ n < MaxPrints /\ Call(t, "print", [Nothing EXCEPT !.id = n + 1])
  BY DEF PutOut, Idle, At
<1>2. n + 1 \in Messages /\ n + 1 \in Nat
  BY <1>1, BoundsAssumption DEF TInv, OutputTypes, Messages
<1>3. PICK rec : rec = [Nothing EXCEPT !.id = n + 1]
  OBVIOUS
<1>4. rec \in Locs /\ Is(rec, "none", "idle", n + 1, 0, 0, {}, FALSE)
  <2>1. rec \in Locs /\ Is(rec, Nothing.op, Nothing.back, n + 1, Nothing.from, Nothing.sent, Nothing.mark, Nothing.sure)
    BY <1>2, <1>3, NothingIs, LocExcept
  <2>. QED  BY <2>1, NothingIs DEF Is
<1>5. "print" \in Pcs /\ pc[t] \in Backs
  BY <1>1 DEF Pcs, Backs
<1>6. PICK l : Turn(t, "print", l) /\ Is(l, rec.op, pc[t], rec.id, rec.from, rec.sent, rec.mark, rec.sure)
  BY <1>1, <1>3, <1>4, <1>5, CallTurn DEF TInv
<1>7. Is(l, "none", pc[t], n + 1, 0, 0, {}, FALSE)
  BY <1>4, <1>6 DEF Is
<1>8. Carries("print", l)
  BY <1>2, <1>7 DEF Carries, Is
<1>. QED  BY <1>6, <1>7, <1>8

\* A message goes into the buffer.
LEMMA StoreTurn ==
  ASSUME TInv, NEW t \in Threads, Store(t)
  PROVE  /\ \E w \in {"flushing", "done"} : Turn(t, w, loc[t]) /\ Carries(w, loc[t])
         /\ fate = "runs" /\ pc[t] = "printing" /\ loc[t].op = "none" /\ loc[t].id \in Messages
<1>1. fate = "runs" /\ pc[t] = "printing" /\ loc' = loc /\ "flushing" \in Pcs /\ "done" \in Pcs
  BY DEF Store, OnStdout, At, Pcs
<1>2. loc[t].op = "none" /\ loc[t].id \in Messages
  BY <1>1 DEF TInv, ThreadTypes, Carries
<1>3. PICK w \in {"flushing", "done"} : Goto(t, w)
  BY DEF Store
<1>4. Turn(t, w, loc[t])
  BY <1>1, <1>3, GotoTurn DEF TInv
<1>. QED  BY <1>1, <1>2, <1>4 DEF Carries

\* Or, after a flush, into the buffer or around it.
LEMMA RefillTurn ==
  ASSUME TInv, NEW t \in Threads, Refill(t)
  PROVE  /\ fate = "runs" /\ pc[t] = "done" /\ loc[t].op = "full" /\ loc[t].id \in Messages
         /\ \E l : /\ Turn(t, "done", l) /\ Carries("done", l)
                   /\ Is(l, "none", loc[t].back, loc[t].id, loc[t].from, loc[t].sent, loc[t].mark, loc[t].sure)
<1>1. /\ fate = "runs" /\ pc[t] = "done" /\ loc[t].op = "full" /\ loc' = [loc EXCEPT ![t].op = "none"] /\ pc' = pc
      /\ "done" \in Pcs /\ "none" \in Ops
  BY DEF Refill, OnStdout, At, Pcs, Ops
<1>2. pc' = [pc EXCEPT ![t] = "done"]
  BY <1>1 DEF TInv, ThreadTypes
<1>3. PICK l : /\ Turn(t, "done", l)
               /\ Is(l, "none", loc[t].back, loc[t].id, loc[t].from, loc[t].sent, loc[t].mark, loc[t].sure)
  BY <1>1, <1>2, OpTurn DEF TInv
<1>4. loc[t].id \in Messages /\ Carries("done", l)
  BY <1>1, <1>3 DEF TInv, ThreadTypes, Carries, Is
<1>. QED  BY <1>1, <1>3, <1>4

\* A raw write, and the position that follows it.
LEMMA SendsTurn ==
  ASSUME TInv, NEW t \in Threads, NEW k \in 1 .. Len(Waiting), Sends(t, k)
  PROVE  /\ fate = "runs" /\ pc[t] = "flushing" /\ k \in Nat
         /\ \E l : /\ Turn(t, "advance", l) /\ Carries("advance", l)
                   /\ Is(l, loc[t].op, loc[t].back, loc[t].id, outpos, k, loc[t].mark, loc[t].sure)
<1>1. /\ fate = "runs" /\ pc[t] = "flushing" /\ Goto(t, "advance") /\ "advance" \in Pcs
      /\ loc' = [loc EXCEPT ![t].from = outpos, ![t].sent = k]
  BY DEF Sends, OnStdout, At, Pcs
<1>2. k \in Nat /\ outpos \in Nat
  BY WaitingIs DEF TInv, OutputTypes
<1>3. PICK l : /\ Turn(t, "advance", l)
               /\ Is(l, loc[t].op, loc[t].back, loc[t].id, outpos, k, loc[t].mark, loc[t].sure)
  BY <1>1, <1>2, SentTurn DEF TInv
<1>4. Carries("advance", l)
  BY <1>1, <1>3 DEF TInv, ThreadTypes, Carries, Is, InOut
<1>. QED  BY <1>1, <1>2, <1>3, <1>4

\* The position is stored.
LEMMA AdvanceTurn ==
  ASSUME TInv, NEW t \in Threads, Advance(t)
  PROVE  /\ fate = "runs" /\ pc[t] = "advance"
         /\ \E l : /\ Turn(t, "flushing", l) /\ Carries("flushing", l)
                   /\ Is(l, loc[t].op, loc[t].back, loc[t].id, 0, 0, loc[t].mark, loc[t].sure)
<1>1. /\ fate = "runs" /\ pc[t] = "advance" /\ Goto(t, "flushing") /\ "flushing" \in Pcs /\ 0 \in Nat
      /\ loc' = [loc EXCEPT ![t].from = 0, ![t].sent = 0]
  BY DEF Advance, OnStdout, At, Pcs
<1>2. PICK l : /\ Turn(t, "flushing", l)
               /\ Is(l, loc[t].op, loc[t].back, loc[t].id, 0, 0, loc[t].mark, loc[t].sure)
  BY <1>1, SentTurn DEF TInv
<1>3. Carries("flushing", l)
  BY <1>1, <1>2 DEF TInv, ThreadTypes, Carries, Is, InOut
<1>. QED  BY <1>1, <1>2, <1>3

\* The end of the loop.
LEMMA ResetTurn ==
  ASSUME TInv, NEW t \in Threads, Reset(t)
  PROVE  fate = "runs" /\ pc[t] = "reset" /\ Turn(t, "done", loc[t]) /\ Carries("done", loc[t])
<1>1. fate = "runs" /\ pc[t] = "reset" /\ Goto(t, "done") /\ loc' = loc /\ "done" \in Pcs
  BY DEF Reset, OnStdout, At, Pcs
<1>2. Turn(t, "done", loc[t])
  BY <1>1, GotoTurn DEF TInv
<1>. QED  BY <1>1, <1>2 DEF TInv, ThreadTypes, Carries, InOut

\* perror, or on to stdout.
Reported(t, w, l) ==
    /\ Turn(t, w, l) /\ Carries(w, l)
    /\ \/ w = "closeout" /\ l = loc[t]
       \/ w = "flush" /\ Is(l, "err", "closeout", 0, 0, 0, Pending, FALSE)

\* Closing stdin goes on to stdout, or through perror.
LEMMA CloseStdinTurn ==
  ASSUME TInv, NEW t \in Threads, CloseStdin(t), fate' # "strays"
  PROVE  pc[t] = "closein" /\ \E w, l : Reported(t, w, l)
<1>1. pc[t] = "closein" /\ ((Goto(t, "closeout") /\ UNCHANGED loc) \/ Perror(t, "closeout"))
  BY DEF CloseStdin, At, Stray
<1>2. CASE Goto(t, "closeout") /\ UNCHANGED loc
  <2>1. Turn(t, "closeout", loc[t])
    BY <1>2, GotoTurn DEF TInv, Pcs
  <2>2. Carries("closeout", loc[t])
    BY <1>1 DEF TInv, ThreadTypes, Carries, InOut
  <2>. QED  BY <1>1, <2>1, <2>2 DEF Reported
<1>3. CASE Perror(t, "closeout")
  <2>1. PICK l : l = [Nothing EXCEPT !.op = "err", !.back = "closeout", !.mark = Pending]
    OBVIOUS
  <2>2. "err" \in Ops /\ "closeout" \in Backs /\ "flush" \in Pcs
    BY DEF Ops, Backs, Pcs
  <2>p. Pending \in SUBSET Messages
    BY PendingIs DEF TInv
  <2>3. l \in Locs /\ Is(l, "err", "closeout", Nothing.id, Nothing.from, Nothing.sent, Pending, Nothing.sure)
    BY <2>1, <2>2, <2>p, NothingIs, LocExcept
  <2>4. Is(l, "err", "closeout", 0, 0, 0, Pending, FALSE)
    BY <2>3, NothingIs DEF Is
  <2>5. Turn(t, "flush", l)
    BY <1>3, <2>1, <2>2, <2>3, TurnIs DEF Perror, Goto, TInv
  <2>6. Carries("flush", l)
    BY <2>4 DEF Carries, Is
  <2>. QED  BY <1>1, <2>4, <2>5, <2>6 DEF Reported
<1>. QED  BY <1>1, <1>2, <1>3

\* Closing stdout frees its lock and flushes, and is closed.
LEMMA CloseStdoutTurn ==
  ASSUME TInv, NEW t \in Threads, CloseStdout(t), fate' # "strays"
  PROVE  /\ fate = "runs" /\ pc[t] = "closeout"
         /\ \E l : /\ Turn(t, "flushing", l) /\ Carries("flushing", l)
                   /\ Is(l, "close", "closeout", 0, 0, 0, {}, FALSE)
<1>1. /\ fate = "runs" /\ pc[t] = "closeout" /\ Call(t, "flushing", [Nothing EXCEPT !.op = "close"])
      /\ "flushing" \in Pcs /\ "close" \in Ops /\ pc[t] \in Backs
  BY DEF CloseStdout, At, Stray, Pcs, Ops, Backs
<1>2. PICK rec : rec = [Nothing EXCEPT !.op = "close"]
  OBVIOUS
<1>3. rec \in Locs /\ Is(rec, "close", Nothing.back, Nothing.id, Nothing.from, Nothing.sent, Nothing.mark, Nothing.sure)
  BY <1>1, <1>2, NothingIs, LocExcept
<1>4. Is(rec, "close", "idle", 0, 0, 0, {}, FALSE)
  BY <1>3, NothingIs DEF Is
<1>5. PICK l : Turn(t, "flushing", l) /\ Is(l, rec.op, pc[t], rec.id, rec.from, rec.sent, rec.mark, rec.sure)
  BY <1>1, <1>2, <1>3, CallTurn DEF TInv
<1>6. Is(l, "close", "closeout", 0, 0, 0, {}, FALSE)
  BY <1>1, <1>4, <1>5 DEF Is
<1>7. Carries("flushing", l)
  BY <1>6 DEF Carries, Is, InOut
<1>. QED  BY <1>1, <1>5, <1>6, <1>7

\* The end of exit's flush.
LEMMA StdoutClosedTurn ==
  ASSUME TInv, NEW t \in Threads, StdoutClosed(t), fate' # "strays"
  PROVE  /\ fate = "runs" /\ pc[t] \in {"done", "stopped"} /\ loc[t].op = "close" /\ loc[t].back = "closeout"
         /\ stalled' = (stalled \/ pc[t] = "stopped") /\ ClosesOut
         /\ Turn(t, "exit", Nothing) /\ Carries("exit", Nothing)
         /\ UNCHANGED <<fate, boot, top, surprise, holder, n, kept, outbuf, outpos, screen, input, exiting, child>>
<1>1. /\ fate = "runs" /\ pc[t] \in {"done", "stopped"} /\ loc[t].op = "close"
      /\ stalled' = (stalled \/ pc[t] = "stopped") /\ ClosesOut
      /\ Goto(t, "exit") /\ loc' = [loc EXCEPT ![t] = Nothing] /\ "exit" \in Pcs
      /\ UNCHANGED <<fate, boot, top, surprise, holder, n, kept, outbuf, outpos, screen, input, exiting, child>>
  BY DEF StdoutClosed, Stray, ClosesOut, Pcs
<1>2. loc[t].back = "closeout"
  BY <1>1 DEF TInv, ThreadTypes, Carries
<1>3. Turn(t, "exit", Nothing)
  BY <1>1, NothingIs, TurnIs DEF Goto, TInv
<1>4. Carries("exit", Nothing)
  BY NothingIs DEF Carries, Is
<1>. QED  BY <1>1, <1>2, <1>3, <1>4

\* The steps of exit that only move its thread on.
LEMMA ExitTurns ==
  ASSUME TInv, NEW t \in Threads
  PROVE  /\ Exit(t) => pc[t] = "idle" /\ Turn(t, "exit", loc[t]) /\ Carries("exit", loc[t])
         /\ RunHook(t) => /\ pc[t] = "exit"
                          /\ \E w \in {"closein", "exit"} : /\ Turn(t, w, loc[t]) /\ Carries(w, loc[t])
                                                            /\ w = "closein" <=> hooks[NextHook] = "cleanup"
<1>0. Carries(pc[t], loc[t]) /\ "exit" \in Pcs /\ "closein" \in Pcs
  BY DEF TInv, ThreadTypes, Pcs
<1>1. ASSUME NEW w \in {"closein", "exit"}, Goto(t, w), loc' = loc, pc[t] \in {"idle", "exit"}
      PROVE  Turn(t, w, loc[t]) /\ Carries(w, loc[t])
  <2>1. Turn(t, w, loc[t])
    BY <1>0, <1>1, GotoTurn DEF TInv
  <2>. QED  BY <1>0, <1>1, <2>1 DEF Carries, InOut
<1>2. Exit(t) => pc[t] = "idle" /\ Turn(t, "exit", loc[t]) /\ Carries("exit", loc[t])
  BY <1>1 DEF Exit, Idle
<1>3. ASSUME RunHook(t)
      PROVE  /\ pc[t] = "exit"
             /\ \E w \in {"closein", "exit"} : /\ Turn(t, w, loc[t]) /\ Carries(w, loc[t])
                                               /\ w = "closein" <=> hooks[NextHook] = "cleanup"
  <2>1. PICK w \in {"closein", "exit"} : w = IF hooks[NextHook] = "cleanup" THEN "closein" ELSE "exit"
    OBVIOUS
  <2>2. Goto(t, w) /\ loc' = loc /\ pc[t] = "exit"
    BY <1>3, <2>1 DEF RunHook, At
  <2>3. Turn(t, w, loc[t]) /\ Carries(w, loc[t])
    BY <1>1, <2>2
  <2>. QED  BY <2>1, <2>2, <2>3
<1>. QED  BY <1>2, <1>3

-----------------------------------------------------------------------------
\* The steps that do more keep the types.
LEMMA DeedTypes ==
  ASSUME TInv, NEW t \in Threads, Deeds(t)
  PROVE  TInv'
<1>0. fate' # "strays" /\ OutputTypes /\ InputTypes /\ holder \in [Mutexes -> Threads \cup {None}] /\ fate \in Fates
  BY DEF Deeds, TInv
<1>t. ASSUME NEW w, NEW l, Turn(t, w, l), Carries(w, l), UNCHANGED <<holder, input, child, fate>>, OutputTypes'
      PROVE  TInv'
  <2>1. InputTypes' /\ child' = child /\ fate' \in Fates /\ holder' \in [Mutexes -> Threads \cup {None}]
    BY <1>0, <1>t DEF InputTypes, input
  <2>. QED  BY <1>t, <2>1, TurnKeepsTypes
<1>u. UNCHANGED output => OutputTypes'
  BY <1>0 DEF OutputTypes, output
<1>1. CASE PutOut(t)
  <2>1. OutputTypes'
    BY <1>0, <1>1, BoundsAssumption DEF PutOut, OutputTypes
  <2>2. UNCHANGED <<holder, input, child, fate>>
    BY <1>1 DEF PutOut
  <2>. QED  BY <1>1, <1>t, <2>1, <2>2, PutOutTurn
<1>2. CASE Store(t)
  <2>1. /\ outbuf' = Append(outbuf, loc[t].id) /\ kept' = kept \cup {loc[t].id} /\ loc[t].id \in Messages
        /\ UNCHANGED <<n, outpos, screen, stalled, holder, input, child, fate>>
    BY <1>2, StoreTurn DEF Store
  <2>2. outbuf' \in Seq(Messages) /\ kept' \in SUBSET Messages
    BY <1>0, <2>1, AppendProperties DEF OutputTypes
  <2>3. OutputTypes'
    BY <1>0, <2>1, <2>2 DEF OutputTypes
  <2>. QED  BY <1>2, <1>t, <2>1, <2>3, StoreTurn
<1>3. CASE Refill(t)
  <2>1. UNCHANGED <<n, stalled, holder, input, child, fate>> /\ loc[t].id \in Messages
    BY <1>3, RefillTurn DEF Refill
  <2>2. CASE outbuf' = <<loc[t].id>> /\ outpos' = 0 /\ kept' = kept \cup {loc[t].id} /\ UNCHANGED screen
    <3>1. outbuf' \in Seq(Messages) /\ kept' \in SUBSET Messages
      BY <1>0, <2>1, <2>2 DEF OutputTypes
    <3>2. OutputTypes'
      BY <1>0, <2>1, <2>2, <3>1 DEF OutputTypes
    <3>. QED  BY <1>3, <1>t, <2>1, <3>2, RefillTurn
  <2>3. CASE screen' = Append(screen, loc[t].id) /\ kept' = kept \cup {loc[t].id} /\ UNCHANGED <<outbuf, outpos>>
    <3>1. screen' \in Seq(Messages) /\ kept' \in SUBSET Messages
      BY <1>0, <2>1, <2>3, AppendProperties DEF OutputTypes
    <3>2. OutputTypes'
      BY <1>0, <2>1, <2>3, <3>1 DEF OutputTypes
    <3>. QED  BY <1>3, <1>t, <2>1, <3>2, RefillTurn
  <2>4. CASE UNCHANGED <<outbuf, outpos, kept, screen>>
    <3>1. OutputTypes'
      BY <1>0, <2>1, <2>4 DEF OutputTypes
    <3>. QED  BY <1>3, <1>t, <2>1, <3>1, RefillTurn
  <2>. QED  BY <1>3, <2>2, <2>3, <2>4 DEF Refill
<1>4. ASSUME NEW k \in 1 .. Len(Waiting), Sends(t, k) PROVE TInv'
  <2>1. screen' = screen \o SubSeq(Waiting, 1, k) /\ UNCHANGED <<n, kept, outbuf, outpos, stalled, holder, input, child, fate>>
    BY <1>4 DEF Sends
  <2>2. SubSeq(Waiting, 1, k) \in Seq(Messages)
    <3>1. Waiting \in Seq(Messages) /\ k \in 0 .. Len(Waiting)
      BY <1>0, WaitingIs
    <3>. QED  BY <3>1, Cut
  <2>3. screen' \in Seq(Messages)
    BY <1>0, <2>1, <2>2, ConcatProperties DEF OutputTypes
  <2>4. OutputTypes'
    BY <1>0, <2>1, <2>3 DEF OutputTypes
  <2>. QED  BY <1>4, <1>t, <2>1, <2>4, SendsTurn
<1>5. CASE Advance(t)
  <2>1. outpos' = loc[t].from + loc[t].sent /\ UNCHANGED <<n, kept, outbuf, screen, stalled, holder, input, child, fate>>
    BY <1>5 DEF Advance
  <2>2. OutputTypes'
    BY <1>0, <2>1, LocFields DEF OutputTypes, TInv
  <2>. QED  BY <1>5, <1>t, <2>1, <2>2, AdvanceTurn
<1>6. CASE Reset(t)
  <2>1. outbuf' = <<>> /\ outpos' = 0 /\ UNCHANGED <<n, kept, screen, stalled, holder, input, child, fate>>
    BY <1>6 DEF Reset
  <2>2. OutputTypes'
    BY <1>0, <2>1 DEF OutputTypes
  <2>. QED  BY <1>6, <1>t, <2>1, <2>2, ResetTurn
<1>7. CASE Exit(t) \/ RunHook(t)
  <2>1. UNCHANGED <<fate, objects, holder, output, input, child>>
    BY <1>7 DEF Exit, RunHook
  <2>2. \E w : Turn(t, w, loc[t]) /\ Carries(w, loc[t])
    BY <1>7, ExitTurns
  <2>. QED  BY <1>t, <1>u, <2>1, <2>2
<1>8. CASE CloseStdin(t)
  <2>1. UNCHANGED <<fate, holder, output, input, child>>
    BY <1>0, <1>8 DEF CloseStdin, Stray
  <2>2. \E w, l : Turn(t, w, l) /\ Carries(w, l)
    BY <1>0, <1>8, CloseStdinTurn DEF Reported
  <2>. QED  BY <1>t, <1>u, <2>1, <2>2
<1>9. CASE CloseStdout(t)
  <2>1. UNCHANGED <<fate, holder, output, input, child>>
    BY <1>0, <1>9 DEF CloseStdout, Stray
  <2>. QED  BY <1>0, <1>9, <1>t, <1>u, <2>1, CloseStdoutTurn
<1>10. CASE StdoutClosed(t)
  <2>1. OutputTypes'
    BY <1>0, <1>10, StdoutClosedTurn DEF OutputTypes
  <2>. QED  BY <1>0, <1>10, <1>t, <2>1, StdoutClosedTurn
<1>. QED  BY <1>1, <1>2, <1>3, <1>4, <1>5, <1>6, <1>7, <1>8, <1>9, <1>10 DEF Deeds

\* The types hold at the start.
LEMMA TypesInit == Init => TInv
<1> SUFFICES ASSUME Init PROVE TInv
  OBVIOUS
<1>1. /\ fate = "boot" /\ n = 0 /\ kept = {} /\ outpos = 0 /\ stalled = FALSE /\ nextin = 1 /\ has = FALSE /\ ungot = 0
      /\ child = None
  BY DEF Init
<1>2. outbuf \in Seq(Messages) /\ screen \in Seq(Messages) /\ got \in Seq(Bytes)
  BY DEF Init
<1>3. holder \in [Mutexes -> Threads \cup {None}]
  BY DEF Init, Mutexes
<1>4. ThreadTypes
  <2>1. pc \in [Threads -> Pcs] /\ loc \in [Threads -> Locs] /\ \A t \in Threads : pc[t] = "idle" /\ loc[t] = Nothing
    BY NothingIs DEF Init, Pcs
  <2>2. Carries("idle", Nothing)
    BY NothingIs DEF Carries, Is
  <2>. QED  BY <2>1, <2>2 DEF ThreadTypes
<1>5. 0 \in 0 .. MaxPrints /\ 1 \in 1 .. MaxIn + 1 /\ 0 \in 0 .. MaxIn
  BY BoundsAssumption
<1>6. kept \in SUBSET Messages /\ fate \in Fates /\ stalled \in BOOLEAN /\ has \in BOOLEAN
  BY <1>1 DEF Fates
<1>. QED  BY <1>1, <1>2, <1>3, <1>4, <1>5, <1>6 DEF TInv, OutputTypes, InputTypes

\* What the child sends are messages.
LEMMA ChildSends ==
  ASSUME TInv, ChildExits
  PROVE  \E d \in Seq(Messages) : screen' = screen \o d /\ \A i \in DOMAIN d : d[i] \in Inherited
<1>1. PICK k \in 0 .. Len(child.pending) : screen' = screen \o SubSeq(child.pending, 1, k)
  BY DEF ChildExits
<1>2. child \in [pending : Seq(Messages), done : BOOLEAN] /\ child # None /\ child.pending \in Seq(Messages)
  BY DEF ChildExits, TInv
<1>3. PICK d : d = SubSeq(child.pending, 1, k)
  OBVIOUS
<1>4. d \in Seq(Messages) /\ Len(d) = k /\ \A i \in 1 .. k : d[i] = child.pending[i]
  BY <1>2, <1>3, Cut, CutElements
<1>5. DOMAIN d = 1 .. k /\ DOMAIN child.pending = 1 .. Len(child.pending) /\ Len(child.pending) \in Nat
  BY <1>2, <1>4, LenProperties
<1>6. \A i \in DOMAIN d : d[i] \in Inherited
  BY <1>2, <1>4, <1>5 DEF Inherited
<1>. QED  BY <1>1, <1>3, <1>4, <1>6

\* Every step keeps them.
LEMMA TypesNext == TInv /\ [Next]_vars => TInv'
<1> SUFFICES ASSUME TInv, Steps PROVE TInv'
  BY StepsAre
<1>1. CASE Rests
  BY <1>1 DEF Rests, TInv, ThreadTypes, OutputTypes, InputTypes, output, input, Carries
<1>2. ASSUME NEW t \in Threads, NEW w, NEW l, Quietly(t, w, l) PROVE TInv'
  <2>1. holder' \in [Mutexes -> Threads \cup {None}]
    BY <1>2 DEF Quietly, Stays, Takes, LeavesIt, TInv
  <2>2. OutputTypes' /\ child' = child /\ fate' \in Fates
    BY <1>2 DEF Quietly, OutputTypes, output, TInv, Fates
  <2>. QED  BY <1>2, <2>1, <2>2, TurnKeepsTypes DEF Quietly
<1>3. ASSUME NEW t \in Threads, Deeds(t) PROVE TInv'
  BY <1>3, DeedTypes
<1>4. ASSUME NEW t \in Threads, Clone(t) PROVE TInv'
  <2>1. child' \in [pending : Seq(Messages), done : BOOLEAN]
    BY <1>4, WaitingIs DEF Clone, TInv
  <2>. QED  BY <1>4, <2>1 DEF Clone, TInv, ThreadTypes, OutputTypes, InputTypes, output, input, Carries
<1>5. CASE ChildExits
  <2>1. child \in [pending : Seq(Messages), done : BOOLEAN]
    BY <1>5 DEF ChildExits, TInv
  <2>2. child' \in [pending : Seq(Messages), done : BOOLEAN]
    BY <1>5, <2>1 DEF ChildExits
  <2>3. PICK d \in Seq(Messages) : screen' = screen \o d
    BY <1>5, ChildSends
  <2>4. screen' \in Seq(Messages)
    BY <2>3, ConcatProperties DEF TInv, OutputTypes
  <2>5. UNCHANGED <<fate, pc, loc, holder, n, kept, outbuf, outpos, stalled, input>>
    BY <1>5 DEF ChildExits
  <2>6. OutputTypes'
    BY <2>4, <2>5 DEF TInv, OutputTypes
  <2>7. ThreadTypes' /\ InputTypes'
    BY <2>5 DEF TInv, ThreadTypes, InputTypes, input, Carries
  <2>. QED  BY <2>2, <2>5, <2>6, <2>7 DEF TInv
<1>. QED  BY <1>1, <1>2, <1>3, <1>4, <1>5 DEF Steps

(***************************************************************************)
(* Every variable keeps its type, and the table of hooks its size.         *)
(***************************************************************************)
THEOREM StdioTypeCorrect == Spec => []TypeOK
<1>1. TInv /\ BInv /\ HInv => TypeOK
  BY DEF TInv, BInv, HInv, TypeOK, OutputTypes, InputTypes, Fates, Mutexes, Kinds, Streams4, Bytes, Surprises
<1>. QED  BY HooksInit, HooksNext, ObjectsInit, ObjectsNext, TypesInit, TypesNext, <1>1, PTL DEF Spec

-----------------------------------------------------------------------------
(***************************************************************************)
(* Who is where: nobody before main; in a mutex its owner; in exit one     *)
(* thread, and once it has got past its beginning a hook has been called.  *)
(* Whoever closes stdout has freed its lock, and while there is that lock  *)
(* there is what it protects.                                              *)
(***************************************************************************)
Quiet == fate \in {"boot", "files"} => kept = {} /\ \A t \in Threads : pc[t] = "idle"

Locked == \A x \in Mutexes, t \in Threads : InLock(pc[t], loc[t], x) <=> holder[x] = t

Ends(t) == EndsAt(pc[t], loc[t])
Cleans(t) == CleansAt(pc[t], loc[t])

OneEnds ==
    /\ \A t, u \in Threads : Ends(t) /\ Ends(u) => t = u
    /\ \A t \in Threads : Ends(t) /\ pc[t] # "exit" => ran # <<>>

Closers == \A t \in Threads : loc[t].op = "close" => ~Has("lock", "out")

Outs == fate = "runs" /\ Has("lock", "out") => Has("lf", "out") /\ Has("bf", "out")

CInv == Quiet /\ Locked /\ OneEnds /\ Closers /\ Outs

\* A turn that takes or leaves at most one mutex keeps owners where they are.
LEMMA LocksTurn ==
  ASSUME TInv, Locked, NEW t \in Threads, NEW w, NEW l, Turn(t, w, l),
         Stays(t, w, l) \/ Takes(t, w, l) \/ LeavesIt(t, w, l)
  PROVE  Locked'
<1>1. ASSUME NEW x \in Mutexes, NEW u \in Threads PROVE InLock(pc'[u], loc'[u], x) <=> holder'[x] = u
  <2>0. holder \in [Mutexes -> Threads \cup {None}] /\ None \notin Threads
    BY StdioAssumption DEF TInv
  <2>1. /\ InLock(pc[u], loc[u], x) <=> holder[x] = u
        /\ InLock(pc[t], loc[t], x) <=> holder[x] = t
    BY DEF Locked
  <2>2. /\ pc'[t] = w /\ loc'[t] = l
        /\ u # t => pc'[u] = pc[u] /\ loc'[u] = loc[u]
    BY DEF Turn
  <2>3. CASE Stays(t, w, l)
    BY <2>0, <2>1, <2>2, <2>3 DEF Stays
  <2>4. CASE Takes(t, w, l)
    BY <2>0, <2>1, <2>2, <2>4 DEF Takes
  <2>5. CASE LeavesIt(t, w, l)
    BY <2>0, <2>1, <2>2, <2>5 DEF LeavesIt
  <2>. QED  BY <2>3, <2>4, <2>5
<1>2. Locked' <=> \A x \in Mutexes, u \in Threads : InLock(pc'[u], loc'[u], x) <=> holder'[x] = u
  BY DEF Locked, InLock, Within, Mutexes, InOut
<1>. QED  BY <1>1, <1>2

\* A turn puts no second thread into exit.
LEMMA EndsTurn ==
  ASSUME OneEnds, NEW t \in Threads, NEW w, NEW l, Turn(t, w, l), ran # <<>> => ran' # <<>>,
         EndsAt(w, l) => EndsAt(pc[t], loc[t]), EndsAt(w, l) /\ w # "exit" => ran' # <<>>
  PROVE  OneEnds'
<1>0. OneEnds' <=> /\ \A x, u \in Threads : EndsAt(pc'[x], loc'[x]) /\ EndsAt(pc'[u], loc'[u]) => x = u
                   /\ \A u \in Threads : EndsAt(pc'[u], loc'[u]) /\ pc'[u] # "exit" => ran' # <<>>
  BY DEF OneEnds, Ends, EndsAt
<1>1. ASSUME NEW u \in Threads, EndsAt(pc'[u], loc'[u])
      PROVE  Ends(u) /\ (pc'[u] # "exit" => ran' # <<>>)
  <2>1. CASE u = t
    BY <1>1, <2>1 DEF Turn, Ends
  <2>2. CASE u # t
    BY <1>1, <2>2 DEF Turn, OneEnds, Ends
  <2>. QED  BY <2>1, <2>2
<1>. QED  BY <1>0, <1>1 DEF OneEnds

\* A hook that has been called has been called, and the process starts once.
LEMMA Onwards ==
  ASSUME HInv, [Next]_vars
  PROVE  (ran # <<>> => ran' # <<>>) /\ (fate' = "boot" => fate = "boot")
<1>1. HookSteps
  BY HookStepsAre
<1>2. ASSUME Len(ran) < Len(hooks), ran' = Append(ran, NextHook) PROVE ran' # <<>>
  <2>1. NextHook \in Nat
    BY <1>2, LenProperties DEF HInv, NextHook
  <2>2. Len(ran') = Len(ran) + 1 /\ ran' \in Seq(Nat) /\ Len(ran) \in Nat
    BY <1>2, <2>1, AppendProperties, LenProperties DEF HInv
  <2>. QED  BY <2>2, EmptySeq
<1>. QED  BY <1>1, <1>2 DEF HookSteps, Registers, exiting

\* What the steps do to stdout's objects: once it is freed its lock does not come back.
LEMMA LockStays ==
  ASSUME BInv, CInv, [Next]_vars
  PROVE  /\ Outs'
         /\ fate \notin {"boot", "files"} => (Has("lock", "out")' => Has("lock", "out"))
<1>0. ObjectSteps /\ {"lock", "lf", "bf"} \subseteq Kinds /\ "out" \in Streams4 /\ "in" \in Streams4
  BY ObjectStepsAre DEF Kinds, Streams4
<1>1. CASE IoInit \/ MakeFile \/ CloseFile
  <2>1. fate \in {"boot", "files"} /\ fate' # "runs"
    BY <1>1 DEF IoInit, BootFails, MakeFile, Wrap, CloseFile, Stray
  <2>. QED  BY <2>1 DEF Outs
<1>2. CASE Main
  <2>1. fate = "boot" /\ UNCHANGED objects
    BY <1>2 DEF Main
  <2>2. \A k, x : Has(k, x)' <=> Has(k, x)
    BY <2>1 DEF objects, Has
  <2>. QED  BY <2>1, <2>2 DEF BInv, Booted, Outs
<1>3. CASE UNCHANGED objects /\ (fate' = fate \/ fate' \in {"strays", "dies", "exited", "overruns"})
  <2>1. \A k, x : Has(k, x)' <=> Has(k, x)
    BY <1>3 DEF objects, Has
  <2>. QED  BY <1>3, <2>1 DEF CInv, Outs
<1>4. CASE ClosesIn /\ fate = "runs" /\ UNCHANGED <<fate, boot, top, surprise>>
  <2>1. Elsewhere("in")
    BY <1>4, CleanupFacts
  <2>2. \A k \in Kinds : Has(k, "out")' <=> Has(k, "out")
    BY <1>0, <2>1 DEF Elsewhere
  <2>. QED  BY <1>0, <1>4, <2>2 DEF CInv, Outs
<1>5. CASE FreesLock
  BY <1>0, <1>5, CleanupFacts DEF Outs
<1>6. ASSUME ClosesOut, NEW t \in Threads, StdoutClosed(t)
      PROVE  Outs' /\ (Has("lock", "out")' => Has("lock", "out"))
  <2>1. ~Has("lock", "out")
    BY <1>6 DEF CInv, Closers, StdoutClosed
  <2>. QED  BY <1>0, <1>6, <2>1, CleanupFacts DEF Outs
<1>. QED  BY <1>0, <1>1, <1>2, <1>3, <1>4, <1>5, <1>6 DEF ObjectSteps

\* A turn keeps the control when it puts no second thread into exit, and closes stdout only without its lock.
LEMMA ControlTurn ==
  ASSUME TInv, BInv, CInv, [Next]_vars, fate = "runs", fate' \notin {"boot", "files"},
         NEW t \in Threads, NEW w, NEW l, Turn(t, w, l), Stays(t, w, l) \/ Takes(t, w, l) \/ LeavesIt(t, w, l),
         OneEnds', l.op = "close" => loc[t].op = "close" \/ ~Has("lock", "out")'
  PROVE  CInv'
<1>1. Locked'
  BY LocksTurn DEF CInv
<1>2. Quiet'
  BY DEF Quiet
<1>3. Outs' /\ (Has("lock", "out")' => Has("lock", "out"))
  BY LockStays
<1>4. ASSUME NEW u \in Threads, loc'[u].op = "close" PROVE ~Has("lock", "out")'
  BY <1>3, <1>4 DEF Turn, CInv, Closers
<1>5. Closers' <=> \A u \in Threads : loc'[u].op = "close" => ~Has("lock", "out")'
  BY DEF Closers, Has
<1>. QED  BY <1>1, <1>2, <1>3, <1>4, <1>5 DEF CInv

\* The steps that do more keep the control.
LEMMA DeedControl ==
  ASSUME TInv, HInv, BInv, CInv, [Next]_vars, NEW t \in Threads, Deeds(t)
  PROVE  CInv'
<1>0. fate' # "strays" /\ (ran # <<>> => ran' # <<>>)
  BY Onwards DEF Deeds
<1>q. fate = "runs" /\ fate' = fate /\ holder' = holder
  BY <1>0 DEF Deeds, PutOut, Store, Refill, Sends, Advance, Reset, OnStdout, Exit, RunHook, CloseStdin, CloseStdout,
              StdoutClosed, Idle, At, Stray
<1>s. ASSUME NEW w, NEW l, Turn(t, w, l), Stays(t, w, l), OneEnds', l.op = "close" => loc[t].op = "close" \/ ~Has("lock", "out")'
      PROVE  CInv'
  BY <1>q, <1>s, ControlTurn
<1>t. ASSUME NEW w, NEW l, Turn(t, w, l), Stays(t, w, l), l.op = "close" => loc[t].op = "close" \/ ~Has("lock", "out")',
             EndsAt(w, l) => EndsAt(pc[t], loc[t]), EndsAt(w, l) /\ w # "exit" => ran' # <<>>
      PROVE  CInv'
  <2>1. OneEnds'
    BY <1>0, <1>t, EndsTurn DEF CInv
  <2>. QED  BY <1>s, <1>t, <2>1
<1>o. ASSUME NEW w, NEW l, pc[t] \notin InOut \cup {"reporting", "reading"}, w \notin InOut \cup {"reporting", "reading"}
      PROVE  Stays(t, w, l)
  BY <1>q, <1>o, Free3 DEF Stays
<1>c. ASSUME NEW w, NEW l, pc[t] \notin InOut \cup {"reporting", "reading"} \/ loc[t].op = "close",
             w \notin InOut \cup {"reporting", "reading"} \/ l.op = "close"
      PROVE  Stays(t, w, l)
  <2>1. \A x \in Mutexes : ~InLock(pc[t], loc[t], x)
    BY <1>c, Free3 DEF InLock
  <2>2. \A x \in Mutexes : ~InLock(w, l, x)
    BY <1>c, Free3 DEF InLock
  <2>. QED  BY <1>q, <2>1, <2>2 DEF Stays
<1>i. ASSUME NEW w \in InOut, NEW l, Turn(t, w, l), pc[t] \in InOut, l.op = loc[t].op \/ (loc[t].op = "full" /\ l.op = "none"),
             l.back = loc[t].back
      PROVE  CInv'
  <2>1. l.op = "close" <=> loc[t].op = "close"
    BY <1>i
  <2>2. Stays(t, w, l)
    BY <1>q, <1>i, <2>1, Withins DEF Stays, InLock
  <2>3. pc[t] \notin {"exit", "closein", "closeout"} /\ w \notin {"exit", "closein", "closeout"}
    BY <1>i DEF InOut
  <2>4. EndsAt(w, l) => EndsAt(pc[t], loc[t]) /\ ran' # <<>>
    BY <1>0, <1>i, <2>3 DEF EndsAt, CInv, OneEnds, Ends
  <2>. QED  BY <1>i, <1>t, <2>1, <2>2, <2>4
<1>1. CASE PutOut(t)
  <2>1. pc[t] \in {"idle", "exit"} /\ (pc[t] = "exit" => ran # <<>>)
    BY <1>1 DEF PutOut, Idle, At
  <2>2. PICK l : Turn(t, "print", l) /\ Is(l, "none", pc[t], n + 1, 0, 0, {}, FALSE)
    BY <1>1, PutOutTurn
  <2>3. Stays(t, "print", l)
    BY <1>o, <2>1 DEF InOut
  <2>4. EndsAt("print", l) => EndsAt(pc[t], loc[t]) /\ ran' # <<>>
    BY <1>0, <2>1, <2>2 DEF EndsAt, Is
  <2>. QED  BY <1>t, <2>2, <2>3, <2>4 DEF Is
<1>2. CASE Store(t)
  <2>1. PICK w \in {"flushing", "done"} : Turn(t, w, loc[t]) /\ pc[t] = "printing"
    BY <1>2, StoreTurn
  <2>. QED  BY <1>i, <2>1 DEF InOut
<1>3. CASE Refill(t)
  <2>1. PICK l : /\ Turn(t, "done", l) /\ pc[t] = "done" /\ loc[t].op = "full"
                 /\ Is(l, "none", loc[t].back, loc[t].id, loc[t].from, loc[t].sent, loc[t].mark, loc[t].sure)
    BY <1>3, RefillTurn
  <2>. QED  BY <1>i, <2>1 DEF InOut, Is
<1>4. ASSUME NEW k \in 1 .. Len(Waiting), Sends(t, k) PROVE CInv'
  <2>1. PICK l : /\ Turn(t, "advance", l) /\ pc[t] = "flushing"
                 /\ Is(l, loc[t].op, loc[t].back, loc[t].id, outpos, k, loc[t].mark, loc[t].sure)
    BY <1>4, SendsTurn
  <2>. QED  BY <1>i, <2>1 DEF InOut, Is
<1>5. CASE Advance(t)
  <2>1. PICK l : /\ Turn(t, "flushing", l) /\ pc[t] = "advance"
                 /\ Is(l, loc[t].op, loc[t].back, loc[t].id, 0, 0, loc[t].mark, loc[t].sure)
    BY <1>5, AdvanceTurn
  <2>. QED  BY <1>i, <2>1 DEF InOut, Is
<1>6. CASE Reset(t)
  BY <1>6, <1>i, ResetTurn DEF InOut
<1>7. CASE Exit(t)
  <2>1. pc[t] = "idle" /\ ~Exiting
    BY <1>7 DEF Exit, Idle
  <2>2. Turn(t, "exit", loc[t]) /\ Stays(t, "exit", loc[t])
    BY <1>7, <1>o, <2>1, ExitTurns DEF InOut
  <2>3. \A u \in Threads : ~Ends(u)
    BY <2>1 DEF CInv, OneEnds, Exiting
  <2>4. \A u \in Threads : EndsAt(pc'[u], loc'[u]) => u = t /\ pc'[u] = "exit"
    BY <2>2, <2>3 DEF Turn, Ends
  <2>5. OneEnds' <=> /\ \A x, u \in Threads : EndsAt(pc'[x], loc'[x]) /\ EndsAt(pc'[u], loc'[u]) => x = u
                     /\ \A u \in Threads : EndsAt(pc'[u], loc'[u]) /\ pc'[u] # "exit" => ran' # <<>>
    BY DEF OneEnds, Ends, EndsAt
  <2>6. OneEnds'
    BY <2>4, <2>5
  <2>. QED  BY <1>s, <2>2, <2>6
<1>8. CASE RunHook(t)
  <2>1. pc[t] = "exit" /\ ran' = Append(ran, NextHook) /\ Len(ran) < Len(hooks)
    BY <1>8 DEF RunHook, At
  <2>2. PICK w \in {"closein", "exit"} : Turn(t, w, loc[t])
    BY <1>8, ExitTurns
  <2>3. ran' # <<>>
    <3>1. NextHook \in Nat
      BY <2>1, LenProperties DEF HInv, NextHook
    <3>2. Len(ran') = Len(ran) + 1 /\ ran' \in Seq(Nat) /\ Len(ran) \in Nat
      BY <2>1, <3>1, AppendProperties, LenProperties DEF HInv
    <3>. QED  BY <3>2, EmptySeq
  <2>4. Stays(t, w, loc[t])
    BY <1>o, <2>1 DEF InOut
  <2>5. EndsAt(pc[t], loc[t])
    BY <2>1 DEF EndsAt
  <2>. QED  BY <1>t, <2>2, <2>3, <2>4, <2>5
<1>9. CASE CloseStdin(t)
  <2>1. PICK w, l : Reported(t, w, l) /\ pc[t] = "closein"
    BY <1>0, <1>9, CloseStdinTurn
  <2>2. Turn(t, w, l) /\ w \in {"closeout", "flush"} /\ (l.op = "close" => loc[t].op = "close")
    BY <2>1 DEF Reported, Is
  <2>3. Stays(t, w, l)
    BY <1>o, <2>1, <2>2 DEF InOut
  <2>4. EndsAt(pc[t], loc[t]) /\ ran' # <<>>
    BY <1>0, <2>1 DEF EndsAt, CInv, OneEnds, Ends
  <2>. QED  BY <1>t, <2>2, <2>3, <2>4
<1>10. CASE CloseStdout(t)
  <2>1. PICK l : pc[t] = "closeout" /\ Turn(t, "flushing", l) /\ Is(l, "close", "closeout", 0, 0, 0, {}, FALSE)
    BY <1>0, <1>10, CloseStdoutTurn
  <2>2. Stays(t, "flushing", l)
    BY <1>c, <2>1 DEF Is, InOut
  <2>3. FreesLock /\ "lock" \in Kinds
    BY <1>0, <1>10 DEF CloseStdout, Stray, FreesLock, Kinds
  <2>4. ~Has("lock", "out")'
    BY <2>3, CleanupFacts
  <2>5. EndsAt(pc[t], loc[t]) /\ ran' # <<>>
    BY <1>0, <2>1 DEF EndsAt, CInv, OneEnds, Ends
  <2>. QED  BY <1>t, <2>1, <2>2, <2>4, <2>5
<1>11. CASE StdoutClosed(t)
  <2>1. pc[t] \in {"done", "stopped"} /\ loc[t].op = "close" /\ loc[t].back = "closeout" /\ Turn(t, "exit", Nothing)
    BY <1>0, <1>11, StdoutClosedTurn
  <2>2. Stays(t, "exit", Nothing)
    BY <1>c, <2>1 DEF InOut
  <2>3. EndsAt(pc[t], loc[t])
    BY <2>1 DEF EndsAt
  <2>. QED  BY <1>t, <2>1, <2>2, <2>3
<1>. QED  BY <1>1, <1>2, <1>3, <1>4, <1>5, <1>6, <1>7, <1>8, <1>9, <1>10, <1>11 DEF Deeds

\* It holds at the start.
LEMMA ControlInit == Init => CInv
<1> SUFFICES ASSUME Init PROVE CInv
  OBVIOUS
<1>1. /\ \A t \in Threads : pc[t] = "idle" /\ loc[t] = Nothing
      /\ \A x \in Mutexes : holder[x] = None
      /\ fate = "boot" /\ kept = {}
  BY DEF Init, Mutexes
<1>2. \A t \in Threads : ~Ends(t) /\ loc[t].op # "close"
  BY <1>1, NothingIs DEF Ends, EndsAt, Is
<1>3. \A t \in Threads, x \in Mutexes : ~InLock(pc[t], loc[t], x)
  <2>1. "idle" \notin InOut \cup {"reporting", "reading"}
    BY DEF InOut
  <2>. QED  BY <1>1, <2>1, Free3
<1>4. Locked
  BY <1>1, <1>3, StdioAssumption DEF Locked
<1>. QED  BY <1>1, <1>2, <1>4 DEF CInv, Quiet, OneEnds, Closers, Outs

\* Every step keeps it.
LEMMA ControlNext == TInv /\ HInv /\ BInv /\ CInv /\ [Next]_vars => CInv'
<1> SUFFICES ASSUME TInv, HInv, BInv, CInv, [Next]_vars PROVE CInv'
  OBVIOUS
<1>0. Steps /\ (ran # <<>> => ran' # <<>>) /\ (fate' = "boot" => fate = "boot") /\ Outs'
      /\ (fate \notin {"boot", "files"} => (Has("lock", "out")' => Has("lock", "out")))
  BY StepsAre, Onwards, LockStays
<1>f. fate' = "files" => fate \in {"boot", "files"}
  <2>1. ObjectSteps
    BY ObjectStepsAre
  <2>. QED  BY <2>1 DEF ObjectSteps, IoInit, Main, MakeFile, Wrap, CloseFile, Stray
<1>s. ASSUME UNCHANGED <<pc, loc, holder, kept>> PROVE CInv'
  <2>1. Quiet' /\ Locked'
    BY <1>0, <1>f, <1>s DEF CInv, Quiet, Locked, InLock, Within, Mutexes, InOut
  <2>2. OneEnds'
    BY <1>0, <1>s DEF CInv, OneEnds, Ends, EndsAt
  <2>3. Closers'
    <3>1. CASE fate \in {"boot", "files"}
      <4>1. \A t \in Threads : loc[t].op # "close"
        BY <3>1 DEF CInv, Quiet, TInv, ThreadTypes, Carries, InOut
      <4>. QED  BY <1>s, <4>1 DEF Closers
    <3>2. CASE fate \notin {"boot", "files"}
      BY <1>0, <1>s, <3>2 DEF CInv, Closers
    <3>. QED  BY <3>1, <3>2
  <2>. QED  BY <1>0, <2>1, <2>2, <2>3 DEF CInv
<1>1. CASE Rests \/ ChildExits \/ \E t \in Threads : Clone(t)
  BY <1>1, <1>s DEF Rests, ChildExits, Clone, output
<1>2. ASSUME NEW t \in Threads, NEW w, NEW l, Quietly(t, w, l) PROVE CInv'
  <2>1. /\ fate = "runs" /\ fate' \notin {"boot", "files"} /\ Turn(t, w, l)
        /\ (Stays(t, w, l) \/ Takes(t, w, l) \/ LeavesIt(t, w, l))
        /\ EndsAt(w, l) => EndsAt(pc[t], loc[t]) /\ pc[t] # "exit"
        /\ l.op = "close" => loc[t].op = "close"
    BY <1>2 DEF Quietly, Respects
  <2>2. EndsAt(w, l) => ran' # <<>>
    BY <1>0, <2>1 DEF CInv, OneEnds, Ends
  <2>3. OneEnds'
    BY <1>0, <2>1, <2>2, EndsTurn DEF CInv
  <2>. QED  BY <2>1, <2>3, ControlTurn
<1>3. ASSUME NEW t \in Threads, Deeds(t) PROVE CInv'
  BY <1>3, DeedControl
<1>. QED  BY <1>0, <1>1, <1>2, <1>3 DEF Steps

\* Once exit has freed stdout's lock under its owner, it has.
LEMMA RacedStays ==
  ASSUME TInv, BInv, CInv, [Next]_vars, Raced
  PROVE  Raced' /\ fate \notin {"boot", "files"}
<1>1. holder["out"] \in Threads /\ "out" \in Mutexes /\ ~Has("lock", "out")
  BY DEF Raced, Has, TInv, Mutexes
<1>2. InLock(pc[holder["out"]], loc[holder["out"]], "out")
  BY <1>1 DEF CInv, Locked
<1>3. fate \notin {"boot", "files"}
  <2>1. pc[holder["out"]] # "idle"
    BY <1>2, Withins DEF InLock, InOut
  <2>. QED  BY <1>1, <2>1 DEF CInv, Quiet
<1>4. ~Has("lock", "out")'
  BY <1>1, <1>3, LockStays
<1>5. holder'["out"] = holder["out"]
  <2>0. Steps /\ holder \in [Mutexes -> Threads \cup {None}]
    BY StepsAre DEF TInv
  <2>1. CASE Rests \/ ChildExits \/ (\E t \in Threads : Clone(t))
    BY <2>1 DEF Rests, ChildExits, Clone
  <2>2. ASSUME NEW t \in Threads, NEW w, NEW l, Quietly(t, w, l) PROVE holder'["out"] = holder["out"]
    BY <1>1, <2>0, <2>2 DEF Quietly, Stays, Takes, LeavesIt, Has
  <2>3. ASSUME NEW t \in Threads, Deeds(t) PROVE holder' = holder
    BY <2>3 DEF Deeds, PutOut, Store, Refill, Sends, Advance, Reset, Exit, RunHook, CloseStdin, CloseStdout,
              StdoutClosed, Stray
  <2>. QED  BY <2>0, <2>1, <2>2, <2>3 DEF Steps
<1>. QED  BY <1>1, <1>3, <1>4, <1>5 DEF Raced, Has

\* Until then at most one thread is inside stdout.
LEMMA AloneInOut ==
  ASSUME TInv, CInv, ~Raced, NEW t \in Threads, pc[t] \in InOut, NEW u \in Threads, pc[u] \in InOut
  PROVE  t = u
<1>0. /\ "out" \in Mutexes /\ None \notin Threads
      /\ \A x \in Threads : pc[x] \in InOut /\ loc[x].op # "close" => holder["out"] = x
  BY Withins, StdioAssumption DEF CInv, Locked, InLock
<1>1. ASSUME NEW x \in Threads, pc[x] \in InOut, loc[x].op = "close"
      PROVE  holder["out"] = None /\ Ends(x)
  <2>1. ~Has("lock", "out")
    BY <1>1 DEF CInv, Closers
  <2>2. loc[x].back = "closeout"
    BY <1>1 DEF TInv, ThreadTypes, Carries
  <2>. QED  BY <2>1, <2>2 DEF Raced, Has, Ends, EndsAt
<1>2. CASE loc[t].op # "close" /\ loc[u].op # "close"
  BY <1>0, <1>2
<1>3. CASE loc[t].op = "close" /\ loc[u].op = "close"
  BY <1>1, <1>3 DEF CInv, OneEnds
<1>4. CASE (loc[t].op = "close" /\ loc[u].op # "close") \/ (loc[t].op # "close" /\ loc[u].op = "close")
  BY <1>0, <1>1, <1>4
<1>. QED  BY <1>2, <1>3, <1>4

\* What excuses a process that strays.
Excused == \/ fate = "boot" \/ surprise \in {"bf", "lock"}
           \/ <<"lock", "out">> \notin live \/ <<"lock", "in">> \notin live

\* Before any of it every access finds its object.
LEMMA StraysExcused ==
  ASSUME TInv, BInv, CInv, [Next]_vars, fate # "strays", fate' = "strays"
  PROVE  Excused
<1> SUFFICES ASSUME ~Excused PROVE FALSE
  OBVIOUS
<1>0. fate # "boot" /\ surprise \notin {"bf", "lock"} /\ Has("lock", "out") /\ Has("lock", "in")
  BY DEF Excused, Has
<1>1. ASSUME fate = "runs" PROVE Inside("in") /\ Inside("out") /\ Inside("err") /\ <<"bf", "out">> \in live
  BY <1>0, <1>1 DEF BInv, Streams, CInv, Outs, Inside, Has
<1>2. CASE IoInit \/ Main \/ MakeFile
  BY <1>0, <1>2 DEF IoInit, Main, MakeFile, Wrap
<1>3. CASE CloseFile
  <2>1. fate = "files" /\ top # "none" /\ ~(Owned(top, "file") \subseteq live)
    BY <1>3 DEF CloseFile
  <2>2. Owns /\ surprise \in Surprises /\ top \in {"none", "raw", "bf", "lf"}
    BY <2>1 DEF BInv
  <2>3. surprise = "none"
    BY <1>0, <2>1, <2>2 DEF Owns, Surprises
  <2>4. KindsOf(top) \subseteq Kinds
    BY <2>2 DEF KindsOf, Kinds
  <2>5. \A k \in KindsOf(top) : <<k, "file">> \in live
    BY <2>2, <2>3, <2>4 DEF Owns, Left, Has
  <2>. QED  BY <2>1, <2>5, OwnedIs
<1>4. ASSUME NEW t \in Threads, Step(t) PROVE FALSE
  <2>1. CASE Printing(t) \/ Flushing(t)
    <3>1. ~Raced
      BY <1>0 DEF Raced, Has
    <3>. QED  BY <1>1, <2>1, <3>1
              DEF Printing, Store, NoRoom, Refill, Flushing, SendSome, Reload, Advance, AllSent, Reset,
                  OnStdout, OffStdout, At
  <2>2. CASE LeaveOut(t)
    BY <1>1, <2>2 DEF LeaveOut
  <2>3. CASE Reporting(t) \/ Reading(t)
    BY <1>1, <2>3 DEF Reporting, Reading, At
  <2>4. CASE UsePushBack(t)
    BY <1>1, <2>4 DEF UsePushBack, Inside
  <2>5. CASE \/ Enter(t, "out", "print", "printing") \/ Enter(t, "out", "flush", "flushing")
             \/ Enter(t, "err", "err", "reporting") \/ Enter(t, "in", "in", "reading")
    BY <1>1, <2>5 DEF Enter, At, Inside
  <2>6. CASE CloseStdin(t) \/ CloseStdout(t)
    BY <1>1, <2>6 DEF CloseStdin, CloseStdout, At
  <2>7. CASE StdoutClosed(t)
    BY <1>0, <2>7 DEF StdoutClosed, CInv, Closers
  <2>8. CASE PutOut(t) \/ Report(t) \/ Read(t, "read") \/ Read(t, "peek") \/ Exit(t) \/ RunHook(t)
             \/ ExitGroup(t) \/ ThreadEnds(t) \/ Clone(t)
    BY <2>8 DEF PutOut, Report, Read, Exit, RunHook, ExitGroup, ThreadEnds, Clone
  <2>9. CASE Atexit(t) \/ HookRegisters(t)
    BY <2>9 DEF Atexit, HookRegisters, Register, Overrun
  <2>. QED  BY <1>4, <2>1, <2>2, <2>3, <2>4, <2>5, <2>6, <2>7, <2>8, <2>9 DEF Step
<1>5. CASE ChildExits \/ UNCHANGED vars
  BY <1>5 DEF ChildExits, vars
<1>. QED  BY <1>2, <1>3, <1>4, <1>5 DEF Next

(***************************************************************************)
(* Only a failing start, a file that a constructor freed and a standard    *)
(* stream whose lock is gone lead a process to an object that is not       *)
(* there, whatever its threads do while it exits (lf_*, bf_*,              *)
(* ministd_io_cleanup).                                                    *)
(***************************************************************************)
THEOREM StdioStrays == Spec => StraysOnlyIf
<1>1. TInv /\ BInv /\ CInv /\ [Next]_vars
        => [fate # "strays" /\ fate' = "strays" =>
              \/ fate = "boot" \/ surprise \in {"bf", "lock"}
              \/ <<"lock", "out">> \notin live \/ <<"lock", "in">> \notin live]_vars
  BY StraysExcused DEF Excused
<1>. QED  BY HooksInit, HooksNext, ObjectsInit, ObjectsNext, TypesInit, TypesNext, ControlInit, ControlNext, <1>1, PTL
          DEF Spec, StraysOnlyIf

-----------------------------------------------------------------------------
(***************************************************************************)
(* Sequences of messages that grow at their end.                           *)
(***************************************************************************)
\* c is a and then d.
Joins(c, a, d) ==
    /\ Len(a) \in Nat /\ Len(d) \in Nat
    /\ DOMAIN c = 1 .. Len(a) + Len(d) /\ DOMAIN a = 1 .. Len(a) /\ DOMAIN d = 1 .. Len(d)
    /\ \A i \in DOMAIN c : \/ i \in DOMAIN a /\ c[i] = a[i]
                           \/ i \notin DOMAIN a /\ i - Len(a) \in DOMAIN d /\ c[i] = d[i - Len(a)]
    /\ \A i \in DOMAIN a : i \in DOMAIN c /\ c[i] = a[i]
    /\ \A i \in DOMAIN d : Len(a) + i \in DOMAIN c /\ c[Len(a) + i] = d[i]
    /\ Vals(c) = Vals(a) \cup Vals(d)

\* c is a and then x.
Appends(c, a, x) ==
    /\ Len(a) \in Nat /\ Len(c) = Len(a) + 1
    /\ DOMAIN c = 1 .. Len(a) + 1 /\ DOMAIN a = 1 .. Len(a)
    /\ \A i \in DOMAIN c : (i \in DOMAIN a /\ c[i] = a[i]) \/ (i = Len(a) + 1 /\ c[i] = x)
    /\ \A i \in DOMAIN a : i \in DOMAIN c /\ c[i] = a[i]
    /\ Len(a) + 1 \in DOMAIN c /\ c[Len(a) + 1] = x /\ Len(a) + 1 \notin DOMAIN a
    /\ Vals(c) = Vals(a) \cup {x}

\* Concatenating two.
LEMMA ConcatIs ==
  ASSUME NEW S, NEW a \in Seq(S), NEW d \in Seq(S)
  PROVE  a \o d \in Seq(S) /\ Joins(a \o d, a, d)
<1>0. PICK c : c = a \o d
  OBVIOUS
<1> DEFINE N == Len(a)
           D == Len(d)
<1>1. /\ N \in Nat /\ D \in Nat /\ DOMAIN c = 1 .. N + D /\ DOMAIN a = 1 .. N /\ DOMAIN d = 1 .. D
      /\ c \in Seq(S)
      /\ \A i \in 1 .. N + D : c[i] = IF i <= N THEN a[i] ELSE d[i - N]
  BY <1>0, ConcatProperties, LenProperties
<1> HIDE DEF N, D
<1>2. ASSUME NEW i \in 1 .. N + D
      PROVE  (i \in 1 .. N /\ c[i] = a[i]) \/ (i \notin 1 .. N /\ i - N \in 1 .. D /\ c[i] = d[i - N])
  <2>1. CASE i <= N
    BY <1>1, <2>1
  <2>2. CASE i > N
    <3>1. ~(i <= N) /\ i - N \in 1 .. D
      BY <1>1, <2>2
    <3>. QED  BY <1>1, <3>1
  <2>. QED  BY <1>1, <2>1, <2>2
<1>3. ASSUME NEW i \in 1 .. N PROVE i \in 1 .. N + D /\ c[i] = a[i]
  <2>1. i \in 1 .. N + D /\ i <= N
    BY <1>1
  <2>. QED  BY <1>1, <2>1
<1>4. ASSUME NEW i \in 1 .. D PROVE N + i \in 1 .. N + D /\ c[N + i] = d[i]
  <2>1. N + i \in 1 .. N + D /\ ~(N + i <= N) /\ (N + i) - N = i
    BY <1>1
  <2>2. c[N + i] = d[(N + i) - N]
    BY <1>1, <2>1
  <2>. QED  BY <2>1, <2>2
<1>5. Vals(c) = Vals(a) \cup Vals(d)
  <2>1. Vals(c) \subseteq Vals(a) \cup Vals(d)
    BY <1>1, <1>2 DEF Vals
  <2>2. Vals(a) \subseteq Vals(c)
    BY <1>1, <1>3 DEF Vals
  <2>3. Vals(d) \subseteq Vals(c)
    <3>1. ASSUME NEW i \in DOMAIN d PROVE d[i] \in Vals(c)
      <4>1. N + i \in DOMAIN c /\ c[N + i] = d[i]
        BY <1>1, <1>4
      <4>. QED  BY <4>1 DEF Vals
    <3>. QED  BY <3>1 DEF Vals
  <2>. QED  BY <2>1, <2>2, <2>3
<1>6. /\ DOMAIN c = 1 .. Len(a) + Len(d) /\ DOMAIN a = 1 .. Len(a) /\ DOMAIN d = 1 .. Len(d)
      /\ Len(a) \in Nat /\ Len(d) \in Nat /\ N = Len(a) /\ D = Len(d)
  BY <1>1 DEF N, D
<1>7. c \in Seq(S) /\ Joins(c, a, d)
  BY <1>1, <1>2, <1>3, <1>4, <1>5, <1>6 DEF Joins
<1>. QED  BY <1>0, <1>7

\* Appending one.
LEMMA AppendIs ==
  ASSUME NEW S, NEW a \in Seq(S), NEW x \in S
  PROVE  Append(a, x) \in Seq(S) /\ Appends(Append(a, x), a, x)
<1>0. PICK c : c = Append(a, x)
  OBVIOUS
<1>1. /\ c \in Seq(S) /\ DOMAIN c = 1 .. Len(a) + 1 /\ DOMAIN a = 1 .. Len(a) /\ Len(a) \in Nat /\ Len(c) = Len(a) + 1
      /\ c[Len(a) + 1] = x /\ \A i \in 1 .. Len(a) : c[i] = a[i]
  BY <1>0, AppendProperties, LenProperties
<1>2. ASSUME NEW i \in DOMAIN c PROVE (i \in DOMAIN a /\ c[i] = a[i]) \/ (i = Len(a) + 1 /\ c[i] = x)
  <2>1. i = Len(a) + 1 \/ i \in 1 .. Len(a)
    BY <1>1
  <2>. QED  BY <1>1, <2>1
<1>3. (\A i \in DOMAIN a : i \in DOMAIN c /\ c[i] = a[i]) /\ Len(a) + 1 \in DOMAIN c /\ Len(a) + 1 \notin DOMAIN a
  BY <1>1
<1>4. Vals(c) = Vals(a) \cup {x}
  <2>1. Vals(c) \subseteq Vals(a) \cup {x}
    BY <1>2 DEF Vals
  <2>2. Vals(a) \subseteq Vals(c)
    BY <1>3 DEF Vals
  <2>3. x \in Vals(c)
    BY <1>1, <1>3 DEF Vals
  <2>. QED  BY <2>1, <2>2, <2>3
<1>5. c \in Seq(S) /\ Appends(c, a, x)
  BY <1>1, <1>2, <1>3, <1>4 DEF Appends
<1>. QED  BY <1>0, <1>5

(***************************************************************************)
(* The messages.  When s of the buffer out have been sent, what descriptor *)
(* 1 has received, scr, and the rest of the buffer are what stdout has     *)
(* taken, k, each of them once but for what a child inherited, I.          *)
(***************************************************************************)
Conserves(out, scr, s, k, I) ==
    /\ \A i, j \in DOMAIN scr : scr[i] = scr[j] => i = j \/ scr[i] \in I
    /\ \A i \in DOMAIN scr, p \in DOMAIN out : scr[i] = out[p] /\ p > s => scr[i] \in I
    /\ \A p, q \in DOMAIN out : out[p] = out[q] => p = q
    /\ \A m \in k : m \in Vals(scr) \/ \E p \in DOMAIN out : p > s /\ out[p] = m

\* A new message at the end of the buffer.
LEMMA ConservesStore ==
  ASSUME NEW S, NEW out \in Seq(S), NEW scr \in Seq(S), NEW x \in S, NEW s \in Nat, s <= Len(out), NEW k, NEW I,
         Vals(out) \subseteq k, Vals(scr) \subseteq k, x \notin k, Conserves(out, scr, s, k, I)
  PROVE  Conserves(Append(out, x), scr, s, k \cup {x}, I)
<1>1. PICK c : c = Append(out, x)
  OBVIOUS
<1>2. /\ Len(out) \in Nat /\ DOMAIN c = 1 .. Len(out) + 1 /\ DOMAIN out = 1 .. Len(out)
      /\ \A i \in DOMAIN c : (i \in DOMAIN out /\ c[i] = out[i]) \/ (i = Len(out) + 1 /\ c[i] = x)
      /\ \A i \in DOMAIN out : i \in DOMAIN c /\ c[i] = out[i]
      /\ Len(out) + 1 \in DOMAIN c /\ c[Len(out) + 1] = x /\ Len(out) + 1 > s
  <2>1. Appends(c, out, x)
    BY <1>1, AppendIs
  <2>. QED  BY <2>1 DEF Appends
<1>3. /\ \A i \in DOMAIN scr : scr[i] # x
      /\ \A i \in DOMAIN out : out[i] # x
  BY DEF Vals
<1>4. ASSUME NEW i \in DOMAIN scr, NEW p \in DOMAIN c, scr[i] = c[p], p > s PROVE scr[i] \in I
  BY <1>2, <1>3, <1>4 DEF Conserves
<1>5. ASSUME NEW p \in DOMAIN c, NEW q \in DOMAIN c, c[p] = c[q] PROVE p = q
  BY <1>2, <1>3, <1>5 DEF Conserves
<1>6. ASSUME NEW m \in k \cup {x} PROVE m \in Vals(scr) \/ \E p \in DOMAIN c : p > s /\ c[p] = m
  <2>1. CASE m = x
    BY <1>2, <2>1
  <2>2. CASE m \in k
    BY <1>2, <2>2 DEF Conserves
  <2>. QED  BY <2>1, <2>2
<1>7. Conserves(c, scr, s, k \cup {x}, I)
  BY <1>4, <1>5, <1>6 DEF Conserves
<1>. QED  BY <1>1, <1>7

\* A raw write of d, which follows what has been sent.
LEMMA ConservesSend ==
  ASSUME NEW S, NEW out \in Seq(S), NEW scr \in Seq(S), NEW s \in Nat, NEW d \in Seq(S), NEW k, NEW I,
         \A i \in DOMAIN d : s + i \in DOMAIN out /\ d[i] = out[s + i], Conserves(out, scr, s, k, I)
  PROVE  Conserves(out, scr \o d, s + Len(d), k, I)
<1>1. PICK c : c = scr \o d
  OBVIOUS
<1>2. /\ Len(d) \in Nat /\ DOMAIN d = 1 .. Len(d) /\ Vals(c) = Vals(scr) \cup Vals(d)
      /\ \A i \in DOMAIN c : \/ i \in DOMAIN scr /\ c[i] = scr[i]
                             \/ i \notin DOMAIN scr /\ i - Len(scr) \in DOMAIN d /\ c[i] = d[i - Len(scr)]
      /\ Len(scr) \in Nat /\ DOMAIN c = 1 .. Len(scr) + Len(d) /\ DOMAIN scr = 1 .. Len(scr)
      /\ Len(out) \in Nat /\ DOMAIN out = 1 .. Len(out)
  <2>1. Len(out) \in Nat /\ DOMAIN out = 1 .. Len(out)
    BY LenProperties
  <2>2. /\ Len(d) \in Nat /\ DOMAIN d = 1 .. Len(d) /\ Vals(c) = Vals(scr) \cup Vals(d)
        /\ \A i \in DOMAIN c : \/ i \in DOMAIN scr /\ c[i] = scr[i]
                               \/ i \notin DOMAIN scr /\ i - Len(scr) \in DOMAIN d /\ c[i] = d[i - Len(scr)]
        /\ Len(scr) \in Nat /\ DOMAIN c = 1 .. Len(scr) + Len(d) /\ DOMAIN scr = 1 .. Len(scr)
    <3>1. Joins(c, scr, d)
      BY <1>1, ConcatIs
    <3>. QED  BY <3>1 DEF Joins
  <2>. QED  BY <2>1, <2>2, Zenon
<1>3. ASSUME NEW i \in DOMAIN d PROVE s + i > s /\ ~(s + i > s + Len(d))
  BY <1>2
<1>4. ASSUME NEW i \in DOMAIN c, NEW j \in DOMAIN c, c[i] = c[j] PROVE i = j \/ c[i] \in I
  <2>1. CASE i \in DOMAIN scr /\ c[i] = scr[i] /\ j \in DOMAIN scr /\ c[j] = scr[j]
    BY <1>4, <2>1 DEF Conserves
  <2>2. ASSUME NEW a \in DOMAIN scr, NEW b \in DOMAIN d, scr[a] = d[b] PROVE scr[a] \in I
    BY <1>3, <2>2 DEF Conserves
  <2>3. CASE i \in DOMAIN scr /\ c[i] = scr[i] /\ j - Len(scr) \in DOMAIN d /\ c[j] = d[j - Len(scr)]
    BY <1>4, <2>2, <2>3
  <2>4. CASE j \in DOMAIN scr /\ c[j] = scr[j] /\ i - Len(scr) \in DOMAIN d /\ c[i] = d[i - Len(scr)]
    BY <1>4, <2>2, <2>4
  <2>5. CASE /\ i - Len(scr) \in DOMAIN d /\ c[i] = d[i - Len(scr)]
             /\ j - Len(scr) \in DOMAIN d /\ c[j] = d[j - Len(scr)]
    <3>1. PICK a \in DOMAIN d, b \in DOMAIN d : a = i - Len(scr) /\ b = j - Len(scr) /\ d[a] = d[b]
      BY <1>4, <2>5
    <3>2. s + a = s + b
      BY <3>1 DEF Conserves
    <3>3. a \in Int /\ b \in Int
      BY <1>2
    <3>. QED  BY <1>2, <3>1, <3>2, <3>3
  <2>. QED  BY <1>2, <2>1, <2>3, <2>4, <2>5
<1>5. ASSUME NEW i \in DOMAIN c, NEW p \in DOMAIN out, c[i] = out[p], p > s + Len(d) PROVE c[i] \in I
  <2>0. p > s
    BY <1>2, <1>5
  <2>1. CASE i \in DOMAIN scr /\ c[i] = scr[i]
    BY <1>5, <2>0, <2>1 DEF Conserves
  <2>2. CASE i - Len(scr) \in DOMAIN d /\ c[i] = d[i - Len(scr)]
    <3>1. PICK a \in DOMAIN d : a = i - Len(scr) /\ d[a] = out[p]
      BY <1>5, <2>2
    <3>2. p = s + a
      BY <3>1 DEF Conserves
    <3>. QED  BY <1>3, <1>5, <3>2
  <2>. QED  BY <1>2, <2>1, <2>2
<1>6. ASSUME NEW m \in k PROVE m \in Vals(c) \/ \E p \in DOMAIN out : p > s + Len(d) /\ out[p] = m
  <2>1. CASE m \in Vals(scr)
    BY <1>2, <2>1
  <2>2. ASSUME NEW p \in DOMAIN out, p > s, out[p] = m PROVE m \in Vals(c) \/ p > s + Len(d)
    <3>1. CASE p > s + Len(d)
      BY <3>1
    <3>2. CASE ~(p > s + Len(d))
      <4>1. p - s \in DOMAIN d /\ s + (p - s) = p
        BY <1>2, <2>2, <3>2
      <4>2. d[p - s] = m
        BY <2>2, <4>1
      <4>. QED  BY <1>2, <4>1, <4>2 DEF Vals
    <3>. QED  BY <3>1, <3>2
  <2>. QED  BY <2>1, <2>2 DEF Conserves
<1>7. Conserves(out, c, s + Len(d), k, I)
  BY <1>4, <1>5, <1>6 DEF Conserves
<1>. QED  BY <1>1, <1>7

\* What the child sends was inherited.
LEMMA ConservesChild ==
  ASSUME NEW S, NEW out, NEW scr \in Seq(S), NEW s, NEW d \in Seq(S), NEW k, NEW I,
         Vals(d) \subseteq I, Conserves(out, scr, s, k, I)
  PROVE  Conserves(out, scr \o d, s, k, I)
<1>1. PICK c : c = scr \o d
  OBVIOUS
<1>2. /\ Vals(c) = Vals(scr) \cup Vals(d)
      /\ \A i \in DOMAIN c : (i \in DOMAIN scr /\ c[i] = scr[i]) \/ c[i] \in I
  <2>1. /\ Vals(c) = Vals(scr) \cup Vals(d)
        /\ \A i \in DOMAIN c : \/ i \in DOMAIN scr /\ c[i] = scr[i]
                               \/ i \notin DOMAIN scr /\ i - Len(scr) \in DOMAIN d /\ c[i] = d[i - Len(scr)]
    <3>1. Joins(c, scr, d)
      BY <1>1, ConcatIs
    <3>. QED  BY <3>1 DEF Joins
  <2>. QED  BY <2>1 DEF Vals
<1>3. Conserves(out, c, s, k, I)
  BY <1>2 DEF Conserves
<1>. QED  BY <1>1, <1>3

\* A raw write around an empty buffer.
LEMMA ConservesDirect ==
  ASSUME NEW S, NEW out, DOMAIN out = {}, NEW scr \in Seq(S), NEW x \in S, NEW s, NEW k, NEW I,
         Vals(scr) \subseteq k, x \notin k, Conserves(out, scr, s, k, I)
  PROVE  Conserves(out, Append(scr, x), s, k \cup {x}, I)
<1>1. PICK c : c = Append(scr, x)
  OBVIOUS
<1>2. /\ \A i \in DOMAIN c : (i \in DOMAIN scr /\ c[i] = scr[i]) \/ (i = Len(scr) + 1 /\ c[i] = x)
      /\ Vals(c) = Vals(scr) \cup {x}
  <2>1. Appends(c, scr, x)
    BY <1>1, AppendIs
  <2>. QED  BY <2>1 DEF Appends
<1>3. \A i \in DOMAIN scr : scr[i] # x
  BY DEF Vals
<1>4. ASSUME NEW i \in DOMAIN c, NEW j \in DOMAIN c, c[i] = c[j] PROVE i = j \/ c[i] \in I
  BY <1>2, <1>3, <1>4 DEF Conserves
<1>5. ASSUME NEW m \in k \cup {x} PROVE m \in Vals(c)
  BY <1>2 DEF Conserves
<1>6. Conserves(out, c, s, k \cup {x}, I)
  BY <1>4, <1>5 DEF Conserves
<1>. QED  BY <1>1, <1>6

\* The reset of a buffer that has been sent.
LEMMA ConservesReset ==
  ASSUME NEW S, NEW out \in Seq(S), NEW scr, NEW s \in Nat, s >= Len(out), NEW k, NEW I,
         Conserves(out, scr, s, k, I), NEW o, DOMAIN o = {}, NEW z
  PROVE  Conserves(o, scr, z, k, I)
<1>1. \A p \in DOMAIN out : ~(p > s)
  BY LenProperties
<1>. QED  BY <1>1 DEF Conserves

(***************************************************************************)
(* A message about to be printed is new, and one's own; what a call marked *)
(* when it began has been taken; and what has been taken has been printed. *)
(* As long as exit's flush has not met a thread inside, nobody changes the *)
(* buffer or its position under a thread, and the messages are conserved.  *)
(***************************************************************************)
\* What holds of a thread at w with l, for what has been printed and taken and is in the buffer.
Minds(w, l, m, k, p) ==
    /\ Printer(w, l) => l.id \in 1 .. m /\ l.id \notin k
    /\ l.mark \subseteq k
    /\ w \in Tied /\ l.sure => l.mark \cap p = {}

AllMind == \A t \in Threads : Minds(pc[t], loc[t], n, kept, Vals(outbuf))

Apart == \A t, u \in Threads : Printer(pc[t], loc[t]) /\ Printer(pc[u], loc[u]) /\ loc[t].id = loc[u].id => t = u

Known == kept \subseteq 1 .. n /\ Vals(outbuf) \subseteq kept /\ Vals(screen) \subseteq kept /\ Inherited \subseteq kept

\* What holds in the loops, for the buffer and its position.
FlowAt(w, l, out, pos) ==
    /\ w = "advance" => l.from = pos /\ l.sent >= 1 /\ pos + l.sent <= Len(out)
    /\ w = "reset" => pos >= Len(out)
    /\ w = "done" /\ l.op # "none" => out = <<>>

Flow == outpos <= Len(outbuf) /\ \A t \in Threads : FlowAt(pc[t], loc[t], outbuf, outpos)

Conserved ==
    /\ \A t \in Threads : pc[t] = "advance" => Conserves(outbuf, screen, outpos + loc[t].sent, kept, Inherited)
    /\ (\A t \in Threads : pc[t] # "advance") => Conserves(outbuf, screen, outpos, kept, Inherited)

Talks == AllMind /\ Apart /\ Known
Flows == Raced \/ (Flow /\ Conserved)

MInv == Talks /\ Flows

\* What the invariant says of the messages.
LEMMA MessagesMean == TInv /\ MInv => TiedFirst /\ SentOnce
<1> SUFFICES ASSUME TInv, MInv PROVE TiedFirst /\ SentOnce
  OBVIOUS
<1>0. Pending \subseteq Vals(outbuf) /\ outpos \in Nat
  BY PendingIs DEF TInv, OutputTypes
<1>1. TiedFirst
  BY <1>0 DEF MInv, Talks, AllMind, Minds, Tied, TiedFirst
<1>2. ASSUME ~Raced PROVE \A i, j \in DOMAIN screen : screen[i] = screen[j] => i = j \/ screen[i] \in Inherited
  BY <1>2 DEF MInv, Flows, Conserved, Conserves
<1>3. ASSUME ~Raced, \A t \in Threads : pc[t] # "advance", NEW i \in DOMAIN screen, screen[i] \in Pending
      PROVE  screen[i] \in Inherited
  <2>1. PICK p \in DOMAIN Waiting : screen[i] = Waiting[p]
    BY <1>3 DEF Pending
  <2>2. outpos + p \in DOMAIN outbuf /\ outbuf[outpos + p] = screen[i] /\ outpos + p > outpos
    <3>1. OutputTypes /\ p \in Nat /\ p > 0
      <4>1. OutputTypes
        BY DEF TInv
      <4>2. p \in 1 .. Len(Waiting) /\ Waiting \in Seq(Messages)
        BY <2>1, <4>1, WaitingIs
      <4>3. Len(Waiting) \in Nat
        BY <4>2, LenProperties
      <4>. QED  BY <4>1, <4>2, <4>3
    <3>2. outpos + p \in DOMAIN outbuf /\ Waiting[p] = outbuf[outpos + p]
      BY <2>1, <3>1, WaitingIs
    <3>. QED  BY <1>0, <2>1, <3>1, <3>2
  <2>3. Conserves(outbuf, screen, outpos, kept, Inherited)
    BY <1>3 DEF MInv, Flows, Conserved
  <2>. QED  BY <2>2, <2>3 DEF Conserves
<1>4. SentOnce
  BY <1>2, <1>3 DEF SentOnce
<1>. QED  BY <1>1, <1>4

\* A turn is judged by the thread that takes it and by what the others mind.
LEMMA MindsTurn ==
  ASSUME NEW t \in Threads, NEW w, NEW l, Turn(t, w, l), Minds(w, l, n', kept', Vals(outbuf')), Apart,
         \A u \in Threads \ {t} : Minds(pc[u], loc[u], n', kept', Vals(outbuf')),
         Printer(w, l) => \/ Printer(pc[t], loc[t]) /\ l.id = loc[t].id
                          \/ \A u \in Threads \ {t} : Printer(pc[u], loc[u]) => loc[u].id # l.id
  PROVE  AllMind' /\ Apart'
<1>1. ASSUME NEW u \in Threads PROVE Minds(pc'[u], loc'[u], n', kept', Vals(outbuf'))
  BY DEF Turn
<1>2. AllMind' <=> \A u \in Threads : Minds(pc'[u], loc'[u], n', kept', Vals(outbuf'))
  BY DEF AllMind, Minds, Printer, Tied, Vals
<1>3. Apart' <=> \A x, u \in Threads : Printer(pc'[x], loc'[x]) /\ Printer(pc'[u], loc'[u]) /\ loc'[x].id = loc'[u].id => x = u
  BY DEF Apart, Printer
<1>4. ASSUME NEW x \in Threads, NEW u \in Threads,
             Printer(pc'[x], loc'[x]), Printer(pc'[u], loc'[u]), loc'[x].id = loc'[u].id
      PROVE  x = u
  <2>1. CASE x = t /\ u # t
    BY <1>4, <2>1 DEF Turn, Apart
  <2>2. CASE x # t /\ u = t
    BY <1>4, <2>2 DEF Turn, Apart
  <2>3. CASE x # t /\ u # t
    BY <1>4, <2>3 DEF Turn, Apart
  <2>. QED  BY <2>1, <2>2, <2>3
<1>. QED  BY <1>1, <1>2, <1>3, <1>4

\* What another thread's printing may do to what one thread minds.
LEMMA MindsGrows ==
  ASSUME NEW w, NEW l, NEW m \in Nat, NEW k, NEW p, Minds(w, l, m, k, p),
         NEW m2 \in Nat, m <= m2, NEW k2, NEW p2, NEW new,
         k2 \subseteq k \cup new, k \subseteq k2, p2 \subseteq p \cup new, new \cap k = {},
         Printer(w, l) => l.id \notin new
  PROVE  Minds(w, l, m2, k2, p2)
<1>1. Printer(w, l) => l.id \in 1 .. m2 /\ l.id \notin k2
  BY DEF Minds
<1>2. l.mark \subseteq k2 /\ (w \in Tied /\ l.sure => l.mark \cap p2 = {})
  BY DEF Minds
<1>. QED  BY <1>1, <1>2 DEF Minds

\* What it says after a step.
ConservedThen ==
    Conserved' <=>
      /\ \A u \in Threads : pc'[u] = "advance" => Conserves(outbuf', screen', outpos' + loc'[u].sent, kept', Inherited')
      /\ (\A u \in Threads : pc'[u] # "advance") => Conserves(outbuf', screen', outpos', kept', Inherited')

\* The definition, with its arguments primed.
LEMMA ConservedIs == ConservedThen
BY DEF ConservedThen, Conserved, Conserves, Vals

\* A thread that is alone inside stdout decides what holds in the loops.
LEMMA InnerTurn ==
  ASSUME TInv, CInv, ~Raced, NEW t \in Threads, pc[t] \in InOut, NEW w, NEW l, Turn(t, w, l),
         outpos' <= Len(outbuf'), FlowAt(w, l, outbuf', outpos'),
         w = "advance" => Conserves(outbuf', screen', outpos' + l.sent, kept', Inherited'),
         w # "advance" => Conserves(outbuf', screen', outpos', kept', Inherited')
  PROVE  Flow' /\ Conserved'
<1>1. \A u \in Threads \ {t} : pc'[u] = pc[u] /\ loc'[u] = loc[u] /\ pc[u] \notin InOut
  BY AloneInOut DEF Turn
<1>2. \A u \in Threads \ {t} : FlowAt(pc'[u], loc'[u], outbuf', outpos') /\ pc'[u] # "advance"
  BY <1>1 DEF FlowAt, InOut
<1>3. pc'[t] = w /\ loc'[t] = l
  BY DEF Turn
<1>4. Flow' <=> outpos' <= Len(outbuf') /\ \A u \in Threads : FlowAt(pc'[u], loc'[u], outbuf', outpos')
  BY DEF Flow, FlowAt
<1>5. ConservedThen
  BY ConservedIs
<1>. QED  BY <1>2, <1>3, <1>4, <1>5 DEF ConservedThen

\* A turn that leaves the output alone and neither begins nor ends a move of the position changes nothing of that.
LEMMA OuterTurn ==
  ASSUME Flow, Conserved, NEW t \in Threads, pc[t] # "advance", NEW w, w # "advance", NEW l, Turn(t, w, l),
         UNCHANGED <<outbuf, outpos, screen, kept, child>>, FlowAt(w, l, outbuf, outpos)
  PROVE  Flow' /\ Conserved'
<1>1. \A u \in Threads \ {t} : pc'[u] = pc[u] /\ loc'[u] = loc[u]
  BY DEF Turn
<1>2. pc'[t] = w /\ loc'[t] = l
  BY DEF Turn
<1>3. Flow' <=> outpos <= Len(outbuf) /\ \A u \in Threads : FlowAt(pc'[u], loc'[u], outbuf, outpos)
  BY DEF Flow, FlowAt
<1>4. Inherited' = Inherited
  BY DEF Inherited
<1>5. ConservedThen
  BY ConservedIs
<1>6. Flow'
  BY <1>1, <1>2, <1>3 DEF Flow
<1>7. Conserved'
  BY <1>1, <1>2, <1>4, <1>5 DEF Conserved, ConservedThen
<1>. QED  BY <1>6, <1>7

(***************************************************************************)
(* Steps that print nothing.                                               *)
(***************************************************************************)
LEMMA SilentTalks ==
  ASSUME MInv, UNCHANGED <<n, kept, outbuf, screen, child>>, NEW t \in Threads, NEW w, NEW l, Turn(t, w, l),
         Printer(w, l) => Printer(pc[t], loc[t]) /\ l.id = loc[t].id,
         l.mark \subseteq kept,
         w \in Tied /\ l.sure => l.mark \cap Vals(outbuf) = {}
  PROVE  Talks'
<1>1. n' = n /\ kept' = kept /\ outbuf' = outbuf /\ screen' = screen /\ Inherited' = Inherited
      /\ Vals(outbuf)' = Vals(outbuf') /\ Vals(screen)' = Vals(screen')
  BY DEF Inherited, Vals
<1>2. Known'
  BY <1>1 DEF MInv, Talks, Known
<1>3. \A u \in Threads : Minds(pc[u], loc[u], n', kept', Vals(outbuf'))
  BY <1>1 DEF MInv, Talks, AllMind
<1>4. Minds(w, l, n', kept', Vals(outbuf'))
  BY <1>1, <1>3 DEF Minds
<1>5. AllMind' /\ Apart'
  BY <1>3, <1>4, MindsTurn DEF MInv, Talks
<1>. QED  BY <1>2, <1>5 DEF Talks

\* They leave the loops as they are.
LEMMA SilentMessages ==
  ASSUME TInv, BInv, CInv, MInv, [Next]_vars, UNCHANGED <<n, kept, outbuf, outpos, screen, child>>,
         NEW t \in Threads, NEW w, NEW l, Turn(t, w, l),
         Printer(w, l) => Printer(pc[t], loc[t]) /\ l.id = loc[t].id,
         l.mark \subseteq kept,
         w \in Tied /\ l.sure => l.mark \cap Vals(outbuf) = {},
         Raced \/ (pc[t] # "advance" /\ w # "advance" /\ FlowAt(w, l, outbuf, outpos))
  PROVE  MInv'
<1>1. Talks'
  BY SilentTalks
<1>2. CASE Raced
  BY <1>1, <1>2, RacedStays DEF MInv, Flows
<1>3. CASE ~Raced
  BY <1>1, <1>3, OuterTurn DEF MInv, Flows
<1>. QED  BY <1>2, <1>3

\* The quiet ones among them.
LEMMA QuietMessages ==
  ASSUME TInv, BInv, CInv, MInv, [Next]_vars, NEW t \in Threads, NEW w, NEW l, Quietly(t, w, l)
  PROVE  MInv'
<1>1. Turn(t, w, l) /\ Respects(t, w, l) /\ UNCHANGED <<n, kept, outbuf, outpos, screen, child>>
  BY DEF Quietly, output
<1>2. Pending \subseteq Vals(outbuf) /\ Vals(outbuf) \subseteq kept
  BY PendingIs DEF TInv, MInv, Talks, Known
<1>3. Minds(pc[t], loc[t], n, kept, Vals(outbuf))
  BY DEF MInv, Talks, AllMind
<1>4. l.mark \subseteq kept
  BY <1>1, <1>2, <1>3 DEF Respects, Minds
<1>5. Printer(w, l) => Printer(pc[t], loc[t]) /\ l.id = loc[t].id
  BY <1>1 DEF Respects
<1>6. ASSUME w \in Tied, l.sure PROVE l.mark \cap Vals(outbuf) = {}
  <2>1. CASE pc[t] \in Tied /\ loc[t].sure /\ l.mark = loc[t].mark
    BY <1>3, <2>1 DEF Minds
  <2>2. CASE pc[t] = "done" /\ loc[t].op \in {"err", "read", "peek"} /\ <<"lock", "out">> \in live
    <3>1. ~Raced
      BY <2>2 DEF Raced
    <3>2. outbuf = <<>>
      BY <2>2, <3>1 DEF MInv, Flows, Flow, FlowAt
    <3>3. Vals(outbuf) = {}
      BY <3>2 DEF Vals
    <3>. QED  BY <3>3
  <2>. QED  BY <1>1, <1>6, <2>1, <2>2 DEF Respects
<1>7. Raced \/ (pc[t] # "advance" /\ w # "advance" /\ FlowAt(w, l, outbuf, outpos))
  <2>1. SUFFICES ASSUME ~Raced PROVE pc[t] # "advance" /\ w # "advance" /\ FlowAt(w, l, outbuf, outpos)
    OBVIOUS
  <2>2. pc[t] = "advance" => loc[t].from = outpos
    BY <2>1 DEF MInv, Flows, Flow, FlowAt
  <2>3. pc[t] # "advance" /\ w # "advance"
    BY <1>1, <2>2 DEF Respects
  <2>4. (w = "reset" => outpos >= Len(outbuf)) /\ w # "done"
    BY <1>1 DEF Respects
  <2>. QED  BY <2>3, <2>4 DEF FlowAt
<1>. QED  BY <1>1, <1>4, <1>5, <1>6, <1>7, SilentMessages

\* So are steps in which no thread moves.
LEMMA RestsMessages ==
  ASSUME TInv, BInv, CInv, MInv, [Next]_vars, UNCHANGED <<pc, loc, output, child>>
  PROVE  MInv'
<1>1. /\ n' = n /\ kept' = kept /\ outbuf' = outbuf /\ outpos' = outpos /\ screen' = screen /\ pc' = pc /\ loc' = loc
      /\ child' = child
  BY DEF output
<1>2. Talks'
  BY <1>1 DEF MInv, Talks, AllMind, Apart, Known, Minds, Printer, Tied, Vals, Inherited
<1>3. Flow => Flow'
  BY <1>1 DEF Flow, FlowAt
<1>4. Conserved => Conserved'
  BY <1>1 DEF Conserved, Conserves, Vals, Inherited
<1>. QED  BY <1>2, <1>3, <1>4, RacedStays DEF MInv, Flows

\* A clone makes what is pending the inheritance.
LEMMA CloneMessages ==
  ASSUME TInv, BInv, CInv, MInv, [Next]_vars, NEW t \in Threads, Clone(t)
  PROVE  MInv'
<1>1. /\ n' = n /\ kept' = kept /\ outbuf' = outbuf /\ outpos' = outpos /\ screen' = screen /\ pc' = pc /\ loc' = loc
      /\ child = None /\ child' = [pending |-> Waiting, done |-> FALSE]
  BY DEF Clone, output
<1>2. Inherited = {}
  BY <1>1 DEF Inherited
<1>3. Inherited' \subseteq kept
  <2>1. Inherited' \subseteq Pending
    BY <1>1 DEF Inherited, Pending
  <2>2. Pending \subseteq Vals(outbuf)
    BY PendingIs DEF TInv
  <2>. QED  BY <2>1, <2>2 DEF MInv, Talks, Known
<1>4. Known'
  BY <1>1, <1>3 DEF MInv, Talks, Known, Vals
<1>5. AllMind' /\ Apart'
  BY <1>1 DEF MInv, Talks, AllMind, Apart, Minds, Printer, Tied, Vals
<1>6. Flow => Flow'
  BY <1>1 DEF Flow, FlowAt
<1>7. ASSUME NEW s, NEW I, Conserves(outbuf, screen, s, kept, {}) PROVE Conserves(outbuf, screen, s, kept, I)
  BY <1>7 DEF Conserves
<1>8. Conserved' <=>
         /\ \A u \in Threads : pc[u] = "advance" => Conserves(outbuf, screen, outpos + loc[u].sent, kept, Inherited')
         /\ (\A u \in Threads : pc[u] # "advance") => Conserves(outbuf, screen, outpos, kept, Inherited')
  BY <1>1, ConservedIs, Zenon DEF ConservedThen
<1>9. Conserved => Conserved'
  BY <1>2, <1>7, <1>8 DEF Conserved
<1>. QED  BY <1>4, <1>5, <1>6, <1>9, RacedStays DEF MInv, Talks, Flows

\* The child sends of its copy: what it inherited, and nothing else.
LEMMA ChildMessages ==
  ASSUME TInv, BInv, CInv, MInv, [Next]_vars, ChildExits
  PROVE  MInv'
<1>1. /\ n' = n /\ kept' = kept /\ outbuf' = outbuf /\ outpos' = outpos /\ pc' = pc /\ loc' = loc /\ child # None
  BY DEF ChildExits
<1>2. child' # None /\ child'.pending = child.pending
  <2>1. child \in [pending : Seq(Messages), done : BOOLEAN]
    BY <1>1 DEF TInv
  <2>2. child' = [child EXCEPT !.done = TRUE]
    BY DEF ChildExits
  <2>3. child'.pending = child.pending /\ child' \in [pending : Seq(Messages), done : BOOLEAN]
    BY <2>1, <2>2
  <2>. QED  BY <2>3, NoneAssumption DEF Messages
<1>3. Inherited' = Inherited
  BY <1>1, <1>2 DEF Inherited
<1>4. PICK d \in Seq(Messages) : screen' = screen \o d /\ \A i \in DOMAIN d : d[i] \in Inherited
  BY ChildSends
<1>5. Vals(d) \subseteq Inherited /\ screen \in Seq(Messages)
  BY <1>4 DEF Vals, TInv, OutputTypes
<1>6. Vals(screen') = Vals(screen) \cup Vals(d)
  <2>1. Joins(screen', screen, d)
    BY <1>4, <1>5, ConcatIs
  <2>. QED  BY <2>1 DEF Joins
<1>7. Known'
  <2>1. Vals(screen') \subseteq kept /\ Inherited \subseteq kept /\ kept \subseteq 1 .. n /\ Vals(outbuf) \subseteq kept
    BY <1>5, <1>6 DEF MInv, Talks, Known
  <2>2. Known' <=> kept' \subseteq 1 .. n' /\ Vals(outbuf') \subseteq kept' /\ Vals(screen') \subseteq kept' /\ Inherited' \subseteq kept'
    BY DEF Known, Vals
  <2>. QED  BY <1>1, <1>3, <2>1, <2>2
<1>8. AllMind' /\ Apart'
  BY <1>1 DEF MInv, Talks, AllMind, Apart, Minds, Printer, Tied, Vals
<1>9. Flow => Flow'
  BY <1>1 DEF Flow, FlowAt
<1>10. ASSUME NEW s, Conserves(outbuf, screen, s, kept, Inherited) PROVE Conserves(outbuf, screen', s, kept, Inherited)
  BY <1>4, <1>5, <1>10, ConservesChild
<1>11. Conserved' <=>
         /\ \A u \in Threads : pc[u] = "advance" => Conserves(outbuf, screen', outpos + loc[u].sent, kept, Inherited)
         /\ (\A u \in Threads : pc[u] # "advance") => Conserves(outbuf, screen', outpos, kept, Inherited)
  BY <1>1, <1>3, ConservedIs, Zenon DEF ConservedThen
<1>12. Conserved => Conserved'
  BY <1>10, <1>11 DEF Conserved
<1>. QED  BY <1>7, <1>8, <1>9, <1>12, RacedStays DEF MInv, Talks, Flows


(***************************************************************************)
(* The steps that move messages.                                           *)
(***************************************************************************)
\* What a thread may do with its message and the buffer.
LEMMA TalksTurn ==
  ASSUME TInv, MInv, UNCHANGED <<n, child>>, NEW t \in Threads, NEW w, w \notin Tied, NEW l, Turn(t, w, l),
         l.mark = loc[t].mark, Printer(w, l) => Printer(pc[t], loc[t]) /\ l.id = loc[t].id,
         NEW new, new = {} \/ (new = {loc[t].id} /\ Printer(pc[t], loc[t]) /\ ~Printer(w, l)),
         kept' = kept \cup new, Vals(outbuf') \subseteq Vals(outbuf) \cup new, Vals(screen') \subseteq kept'
  PROVE  Talks'
<1>1. n' = n /\ n \in Nat /\ Inherited' = Inherited /\ Vals(outbuf)' = Vals(outbuf') /\ Vals(screen)' = Vals(screen')
  BY DEF Inherited, Vals, TInv, OutputTypes
<1>2. \A u \in Threads : Minds(pc[u], loc[u], n, kept, Vals(outbuf))
  BY DEF MInv, Talks, AllMind
<1>3. new \cap kept = {} /\ new \subseteq 1 .. n
  BY <1>2 DEF Minds
<1>4. Known'
  <2>1. kept' \subseteq 1 .. n /\ Vals(outbuf') \subseteq kept' /\ Vals(screen') \subseteq kept' /\ Inherited \subseteq kept'
    BY <1>3 DEF MInv, Talks, Known
  <2>2. Known' <=> kept' \subseteq 1 .. n' /\ Vals(outbuf') \subseteq kept' /\ Vals(screen') \subseteq kept' /\ Inherited' \subseteq kept'
    BY <1>1 DEF Known
  <2>. QED  BY <1>1, <2>1, <2>2
<1>5. ASSUME NEW u \in Threads \ {t} PROVE Minds(pc[u], loc[u], n', kept', Vals(outbuf'))
  <2>1. Printer(pc[u], loc[u]) => loc[u].id \notin new
    BY DEF MInv, Talks, Apart
  <2>2. Minds(pc[u], loc[u], n, kept, Vals(outbuf)) /\ n' \in Nat /\ n <= n'
    BY <1>1, <1>2
  <2>3. /\ kept' \subseteq kept \cup new /\ kept \subseteq kept' /\ Vals(outbuf') \subseteq Vals(outbuf) \cup new
        /\ new \cap kept = {}
    BY <1>3
  <2>. QED  BY <1>1, <2>1, <2>2, <2>3, MindsGrows, Zenon
<1>6. Minds(w, l, n', kept', Vals(outbuf'))
  <2>1. Minds(pc[t], loc[t], n, kept, Vals(outbuf))
    BY <1>2
  <2>. QED  BY <1>1, <2>1 DEF Minds
<1>7. AllMind' /\ Apart'
  BY <1>5, <1>6, MindsTurn DEF MInv, Talks
<1>. QED  BY <1>4, <1>7 DEF Talks

\* A new message is nobody else's.
LEMMA PutOutMessages ==
  ASSUME TInv, BInv, CInv, MInv, [Next]_vars, NEW t \in Threads, PutOut(t)
  PROVE  MInv'
<1>1. PICK l : Turn(t, "print", l) /\ Is(l, "none", pc[t], n + 1, 0, 0, {}, FALSE)
  BY PutOutTurn
<1>2. n' = n + 1 /\ UNCHANGED <<kept, outbuf, outpos, screen, child>> /\ n \in Nat /\ pc[t] \in {"idle", "exit"}
  BY DEF PutOut, Idle, At, TInv, OutputTypes
<1>3. Inherited' = Inherited /\ Vals(outbuf)' = Vals(outbuf) /\ Vals(screen)' = Vals(screen) /\ Vals(outbuf') = Vals(outbuf)
  BY <1>2 DEF Inherited, Vals
<1>4. kept \subseteq 1 .. n /\ n + 1 \in 1 .. n' /\ n + 1 \notin 1 .. n /\ 1 .. n \subseteq 1 .. n' /\ n' \in Nat /\ n <= n'
  BY <1>2 DEF MInv, Talks, Known
<1>5. Known'
  BY <1>2, <1>3, <1>4 DEF MInv, Talks, Known
<1>6. \A u \in Threads : Minds(pc[u], loc[u], n, kept, Vals(outbuf))
  BY DEF MInv, Talks, AllMind
<1>7. ASSUME NEW u \in Threads PROVE Minds(pc[u], loc[u], n', kept', Vals(outbuf'))
  <2>1. Minds(pc[u], loc[u], n', kept, Vals(outbuf))
    BY <1>4, <1>6 DEF Minds
  <2>. QED  BY <1>2, <1>3, <2>1
<1>8. Minds("print", l, n', kept', Vals(outbuf'))
  BY <1>1, <1>2, <1>4 DEF Minds, Is, Tied
<1>9. \A u \in Threads : Printer(pc[u], loc[u]) => loc[u].id # l.id
  BY <1>1, <1>4, <1>6 DEF Is, Minds
<1>10. AllMind' /\ Apart'
  BY <1>1, <1>7, <1>8, <1>9, MindsTurn DEF MInv, Talks
<1>11. FlowAt("print", l, outbuf, outpos)
  BY DEF FlowAt
<1>12. Flow /\ Conserved => Flow' /\ Conserved'
  BY <1>1, <1>2, <1>11, OuterTurn
<1>13. Flows'
  BY <1>12, RacedStays DEF MInv, Flows
<1>. QED  BY <1>5, <1>10, <1>13 DEF MInv, Talks

\* Storing it.
LEMMA StoreMessages ==
  ASSUME TInv, BInv, CInv, MInv, [Next]_vars, NEW t \in Threads, Store(t)
  PROVE  MInv'
<1>1. PICK w \in {"flushing", "done"} : Turn(t, w, loc[t])
  BY StoreTurn
<1>2. pc[t] = "printing" /\ loc[t].op = "none" /\ loc[t].id \in Messages
  BY StoreTurn
<1>3. /\ outbuf' = Append(outbuf, loc[t].id) /\ kept' = kept \cup {loc[t].id}
      /\ UNCHANGED <<n, outpos, screen, child>>
  BY DEF Store
<1>4. outbuf \in Seq(Messages) /\ screen \in Seq(Messages) /\ outpos \in Nat
  BY DEF TInv, OutputTypes
<1>5. Appends(outbuf', outbuf, loc[t].id)
  BY <1>2, <1>3, <1>4, AppendIs
<1>6. Vals(outbuf') = Vals(outbuf) \cup {loc[t].id} /\ Len(outbuf) \in Nat /\ Len(outbuf') = Len(outbuf) + 1
  BY <1>5 DEF Appends
<1>7. /\ Vals(outbuf) \subseteq kept /\ Vals(screen) \subseteq kept /\ Inherited' = Inherited
      /\ Vals(screen') = Vals(screen) /\ loc[t].id \notin kept
  BY <1>2, <1>3 DEF MInv, Talks, Known, Inherited, Vals, AllMind, Minds, Printer
<1>8. Talks'
  <2>1. Printer(pc[t], loc[t]) /\ ~Printer(w, loc[t]) /\ w \notin Tied
    BY <1>1, <1>2 DEF Printer, Tied
  <2>2. Vals(screen') \subseteq kept'
    BY <1>3, <1>7
  <2>. QED  BY <1>1, <1>3, <1>6, <2>1, <2>2, TalksTurn
<1>9. ASSUME ~Raced PROVE Flow' /\ Conserved'
  <2>1. outpos <= Len(outbuf)
    BY <1>9 DEF MInv, Flows, Flow
  <2>2. pc[t] \in InOut /\ \A u \in Threads : pc[u] \in InOut => u = t
    BY <1>2, <1>9, AloneInOut DEF InOut
  <2>3. \A u \in Threads : pc[u] # "advance"
    BY <1>2, <2>2 DEF InOut
  <2>4. Conserves(outbuf, screen, outpos, kept, Inherited)
    BY <1>9, <2>3 DEF MInv, Flows, Conserved
  <2>5. Conserves(Append(outbuf, loc[t].id), screen, outpos, kept \cup {loc[t].id}, Inherited)
    BY <1>2, <1>4, <1>7, <2>1, <2>4, ConservesStore
  <2>6. Conserves(outbuf', screen', outpos', kept', Inherited')
    BY <1>3, <1>7, <2>5
  <2>7. outpos' <= Len(outbuf')
    BY <1>3, <1>4, <1>6, <2>1
  <2>8. FlowAt(w, loc[t], outbuf', outpos') /\ w # "advance"
    BY <1>1, <1>2 DEF FlowAt
  <2>. QED  BY <1>1, <1>9, <2>2, <2>6, <2>7, <2>8, InnerTurn
<1>. QED  BY <1>8, <1>9, RacedStays DEF MInv, Flows

\* After a flush, into the buffer or around it.
LEMMA RefillMessages ==
  ASSUME TInv, BInv, CInv, MInv, [Next]_vars, NEW t \in Threads, Refill(t)
  PROVE  MInv'
<1>1. PICK l : Turn(t, "done", l) /\ Is(l, "none", loc[t].back, loc[t].id, loc[t].from, loc[t].sent, loc[t].mark, loc[t].sure)
  BY RefillTurn
<1>2. pc[t] = "done" /\ loc[t].op = "full"
  BY RefillTurn
<1>3. PICK x \in Messages : x = loc[t].id
  BY RefillTurn
<1>4. UNCHANGED <<n, child>>
  BY DEF Refill
<1>5. outbuf \in Seq(Messages) /\ screen \in Seq(Messages) /\ outpos \in Nat
  BY DEF TInv, OutputTypes
<1>6. /\ Vals(outbuf) \subseteq kept /\ Vals(screen) \subseteq kept /\ Inherited' = Inherited /\ x \notin kept
      /\ Printer(pc[t], loc[t]) /\ ~Printer("done", l) /\ "done" \notin Tied /\ l.mark = loc[t].mark
  BY <1>1, <1>2, <1>3, <1>4 DEF MInv, Talks, Known, Inherited, AllMind, Minds, Printer, Is, Tied
<1> DEFINE Puts == outbuf' = <<x>> /\ outpos' = 0 /\ kept' = kept \cup {x} /\ screen' = screen
           Goes == screen' = Append(screen, x) /\ kept' = kept \cup {x} /\ outbuf' = outbuf /\ outpos' = outpos
           Drops == outbuf' = outbuf /\ outpos' = outpos /\ kept' = kept /\ screen' = screen
<1>7. Puts \/ Goes \/ Drops
  BY <1>3 DEF Refill
<1>8. Append(<<>>, x) = <<x>> /\ Vals(<<>>) = {} /\ Vals(<<x>>) = {x}
  BY DEF Vals
<1>9. Appends(Append(screen, x), screen, x)
  BY <1>3, <1>5, AppendIs
<1>10. Vals(Append(screen, x)) = Vals(screen) \cup {x}
  BY <1>9 DEF Appends
<1>11. Talks'
  <2>1. CASE Puts
    BY <1>1, <1>3, <1>4, <1>6, <1>8, <2>1, TalksTurn
  <2>2. CASE Goes
    <3>1. Vals(screen') \subseteq kept' /\ Vals(outbuf') \subseteq Vals(outbuf) \cup {x}
      BY <1>6, <1>10, <2>2
    <3>. QED  BY <1>1, <1>3, <1>4, <1>6, <2>2, <3>1, TalksTurn
  <2>3. CASE Drops
    <3>1. kept' = kept \cup {} /\ Vals(screen') \subseteq kept' /\ Vals(outbuf') \subseteq Vals(outbuf) \cup {}
      BY <1>6, <2>3
    <3>. QED  BY <1>1, <1>4, <1>6, <3>1, TalksTurn
  <2>. QED  BY <1>7, <2>1, <2>2, <2>3
<1>12. ASSUME ~Raced PROVE Flow' /\ Conserved'
  <2>1. outpos <= Len(outbuf) /\ outbuf = <<>>
    BY <1>2, <1>12 DEF MInv, Flows, Flow, FlowAt
  <2>2. outpos = 0 /\ DOMAIN outbuf = {}
    BY <1>5, <2>1
  <2>3. pc[t] \in InOut /\ \A u \in Threads : pc[u] \in InOut => u = t
    BY <1>2, <1>12, AloneInOut DEF InOut
  <2>4. \A u \in Threads : pc[u] # "advance"
    BY <1>2, <2>3 DEF InOut
  <2>5. Conserves(outbuf, screen, outpos, kept, Inherited)
    BY <1>12, <2>4 DEF MInv, Flows, Conserved
  <2>6. Conserves(outbuf', screen', outpos', kept', Inherited') /\ outpos' <= Len(outbuf')
    <3>1. CASE Puts
      <4>1. 0 <= Len(<<>>) /\ <<>> \in Seq(Messages) /\ Vals(<<>>) \subseteq kept
        BY <1>8
      <4>2. Conserves(<<>>, screen, 0, kept, Inherited)
        BY <2>1, <2>2, <2>5
      <4>3. Conserves(Append(<<>>, x), screen, 0, kept \cup {x}, Inherited)
        BY <1>5, <1>6, <4>1, <4>2, ConservesStore
      <4>4. Conserves(<<x>>, screen, 0, kept \cup {x}, Inherited)
        BY <1>8, <4>3, Zenon
      <4>5. Conserves(outbuf', screen', outpos', kept', Inherited')
        BY <1>6, <3>1, <4>4, Zenon
      <4>6. Len(outbuf') = 1 /\ outpos' = 0
        BY <3>1
      <4>. QED  BY <4>5, <4>6
    <3>2. CASE Goes
      <4>1. Conserves(outbuf, Append(screen, x), outpos, kept \cup {x}, Inherited)
        BY <1>5, <1>6, <2>2, <2>5, ConservesDirect
      <4>2. Conserves(outbuf', screen', outpos', kept', Inherited')
        BY <1>6, <3>2, <4>1, Zenon
      <4>. QED  BY <2>1, <3>2, <4>2
    <3>3. CASE Drops
      <4>1. Conserves(outbuf', screen', outpos', kept', Inherited')
        BY <1>6, <2>5, <3>3, Zenon
      <4>. QED  BY <2>1, <3>3, <4>1
    <3>. QED  BY <1>7, <3>1, <3>2, <3>3
  <2>7. FlowAt("done", l, outbuf', outpos')
    BY <1>1 DEF FlowAt, Is
  <2>. QED  BY <1>1, <1>12, <2>3, <2>6, <2>7, InnerTurn
<1>. QED  BY <1>11, <1>12, RacedStays DEF MInv, Flows

\* A raw write of what comes next in the buffer.
LEMMA SendsMessages ==
  ASSUME TInv, BInv, CInv, MInv, [Next]_vars, NEW t \in Threads, NEW k \in 1 .. Len(Waiting), Sends(t, k)
  PROVE  MInv'
<1>1. PICK l : Turn(t, "advance", l) /\ Is(l, loc[t].op, loc[t].back, loc[t].id, outpos, k, loc[t].mark, loc[t].sure)
  BY SendsTurn
<1>2. pc[t] = "flushing" /\ k \in Nat
  BY SendsTurn
<1>3. UNCHANGED <<n, kept, outbuf, outpos, child>>
  BY DEF Sends
<1> DEFINE part == SubSeq(Waiting, 1, k)
<1>4. PICK d : d = part
  <2> HIDE DEF part
  <2>. QED  OBVIOUS
<1>5. screen' = screen \o d /\ outpos < Len(outbuf)
  BY <1>4, Zenon DEF Sends
<1>6. OutputTypes /\ outbuf \in Seq(Messages) /\ screen \in Seq(Messages) /\ outpos \in Nat
  BY DEF TInv, OutputTypes
<1>7. /\ Waiting \in Seq(Messages) /\ Len(outbuf) \in Nat /\ DOMAIN outbuf = 1 .. Len(outbuf)
      /\ Len(Waiting) = Len(outbuf) - outpos /\ DOMAIN Waiting = 1 .. Len(Waiting)
      /\ \A i \in DOMAIN Waiting : outpos + i \in DOMAIN outbuf /\ Waiting[i] = outbuf[outpos + i]
  <2>1. Len(outbuf) \in Nat
    BY <1>6, WaitingIs, Zenon
  <2>2. outpos <= Len(outbuf)
    BY <1>5, <1>6, <2>1
  <2>. QED  BY <1>6, <2>2, WaitingIs, Zenon
<1>8. d \in Seq(Messages) /\ Len(d) = k /\ DOMAIN d = 1 .. k /\ \A i \in 1 .. k : i \in DOMAIN Waiting /\ d[i] = Waiting[i]
  <2>1. k \in 0 .. Len(Waiting) /\ Len(Waiting) \in Nat /\ 1 .. k \subseteq DOMAIN Waiting
    BY <1>2, <1>7
  <2>2. d \in Seq(Messages) /\ Len(d) = k /\ \A i \in 1 .. k : d[i] = Waiting[i]
    BY <1>4, <1>7, <2>1, Cut, CutElements
  <2>. QED  BY <2>1, <2>2, LenProperties
<1>9. \A i \in DOMAIN d : outpos + i \in DOMAIN outbuf /\ d[i] = outbuf[outpos + i]
  BY <1>7, <1>8
<1>10. Vals(screen') = Vals(screen) \cup Vals(d)
  <2>1. Joins(screen', screen, d)
    BY <1>5, <1>6, <1>8, ConcatIs
  <2>. QED  BY <2>1 DEF Joins
<1>11. Vals(d) \subseteq Vals(outbuf)
  BY <1>9 DEF Vals
<1>12. Talks'
  <2>1. Vals(screen') \subseteq kept /\ Inherited' = Inherited
    BY <1>3, <1>10, <1>11 DEF MInv, Talks, Known, Inherited
  <2>2. kept' = kept \cup {} /\ Vals(outbuf') \subseteq Vals(outbuf) \cup {} /\ Vals(screen') \subseteq kept'
    BY <1>3, <2>1
  <2>3. l.mark = loc[t].mark /\ "advance" \notin Tied /\ (Printer("advance", l) => Printer(pc[t], loc[t]) /\ l.id = loc[t].id)
    BY <1>1 DEF Tied, Is, Printer
  <2>. QED  BY <1>1, <1>3, <2>2, <2>3, TalksTurn
<1>13. ASSUME ~Raced PROVE Flow' /\ Conserved'
  <2>1. pc[t] \in InOut /\ \A u \in Threads : pc[u] # "advance"
    BY <1>2, <1>13, AloneInOut DEF InOut
  <2>2. Conserves(outbuf, screen, outpos, kept, Inherited)
    BY <1>13, <2>1 DEF MInv, Flows, Conserved
  <2>3. Conserves(outbuf, screen \o d, outpos + Len(d), kept, Inherited)
    BY <1>6, <1>8, <1>9, <2>2, ConservesSend
  <2>4. Inherited' = Inherited /\ l.sent = k /\ l.from = outpos
    BY <1>1, <1>3 DEF Inherited, Is
  <2>5. Conserves(outbuf', screen', outpos' + l.sent, kept', Inherited')
    BY <1>3, <1>5, <1>8, <2>3, <2>4, Zenon
  <2>6. outpos' <= Len(outbuf') /\ FlowAt("advance", l, outbuf', outpos')
    BY <1>2, <1>3, <1>5, <1>6, <1>7, <2>4 DEF FlowAt
  <2>. QED  BY <1>1, <1>13, <2>1, <2>5, <2>6, InnerTurn
<1>. QED  BY <1>12, <1>13, RacedStays DEF MInv, Flows

\* Moving the position over it.
LEMMA AdvanceMessages ==
  ASSUME TInv, BInv, CInv, MInv, [Next]_vars, NEW t \in Threads, Advance(t)
  PROVE  MInv'
<1>1. PICK l : Turn(t, "flushing", l) /\ Is(l, loc[t].op, loc[t].back, loc[t].id, 0, 0, loc[t].mark, loc[t].sure)
  BY AdvanceTurn
<1>2. pc[t] = "advance" /\ outpos' = loc[t].from + loc[t].sent /\ UNCHANGED <<n, kept, outbuf, screen, child>>
  BY DEF Advance, OnStdout, At
<1>3. Inherited' = Inherited /\ Vals(screen) \subseteq kept
  BY <1>2 DEF Inherited, MInv, Talks, Known
<1>4. Talks'
  <2>1. kept' = kept \cup {} /\ Vals(outbuf') \subseteq Vals(outbuf) \cup {} /\ Vals(screen') \subseteq kept'
    BY <1>2, <1>3
  <2>2. l.mark = loc[t].mark /\ "flushing" \notin Tied /\ (Printer("flushing", l) => Printer(pc[t], loc[t]) /\ l.id = loc[t].id)
    BY <1>1 DEF Tied, Is, Printer
  <2>. QED  BY <1>1, <1>2, <2>1, <2>2, TalksTurn
<1>5. ASSUME ~Raced PROVE Flow' /\ Conserved'
  <2>1. loc[t].from = outpos /\ outpos + loc[t].sent <= Len(outbuf)
    BY <1>2, <1>5 DEF MInv, Flows, Flow, FlowAt
  <2>2. Conserves(outbuf, screen, outpos + loc[t].sent, kept, Inherited)
    BY <1>2, <1>5 DEF MInv, Flows, Conserved
  <2>3. Conserves(outbuf', screen', outpos', kept', Inherited') /\ outpos' <= Len(outbuf')
    BY <1>2, <1>3, <2>1, <2>2, Zenon
  <2>4. FlowAt("flushing", l, outbuf', outpos') /\ pc[t] \in InOut
    BY <1>2 DEF FlowAt, InOut
  <2>. QED  BY <1>1, <1>5, <2>3, <2>4, InnerTurn
<1>. QED  BY <1>4, <1>5, RacedStays DEF MInv, Flows

\* Emptying the buffer when all of it has been sent.
LEMMA ResetMessages ==
  ASSUME TInv, BInv, CInv, MInv, [Next]_vars, NEW t \in Threads, Reset(t)
  PROVE  MInv'
<1>1. pc[t] = "reset" /\ Turn(t, "done", loc[t])
  BY ResetTurn
<1>2. outbuf' = <<>> /\ outpos' = 0 /\ UNCHANGED <<n, kept, screen, child>>
  BY DEF Reset
<1>3. Inherited' = Inherited /\ Vals(screen) \subseteq kept /\ Vals(outbuf') = {}
  BY <1>2 DEF Inherited, MInv, Talks, Known, Vals
<1>4. Talks'
  <2>1. kept' = kept \cup {} /\ Vals(outbuf') \subseteq Vals(outbuf) \cup {} /\ Vals(screen') \subseteq kept'
    BY <1>2, <1>3
  <2>2. "done" \notin Tied /\ (Printer("done", loc[t]) => Printer(pc[t], loc[t]))
    BY <1>1 DEF Tied, Printer
  <2>. QED  BY <1>1, <1>2, <2>1, <2>2, TalksTurn
<1>5. ASSUME ~Raced PROVE Flow' /\ Conserved'
  <2>1. pc[t] \in InOut /\ \A u \in Threads : pc[u] # "advance"
    BY <1>1, <1>5, AloneInOut DEF InOut
  <2>2. Conserves(outbuf, screen, outpos, kept, Inherited)
    BY <1>5, <2>1 DEF MInv, Flows, Conserved
  <2>3. outpos >= Len(outbuf) /\ outbuf \in Seq(Messages) /\ outpos \in Nat
    BY <1>1, <1>5 DEF MInv, Flows, Flow, FlowAt, TInv, OutputTypes
  <2>4. DOMAIN outbuf' = {}
    BY <1>2
  <2>5. Conserves(outbuf', screen, outpos', kept, Inherited)
    BY <2>2, <2>3, <2>4, ConservesReset
  <2>6. Conserves(outbuf', screen', outpos', kept', Inherited')
    BY <1>2, <1>3, <2>5, Zenon
  <2>7. FlowAt("done", loc[t], outbuf', outpos') /\ outpos' <= Len(outbuf')
    BY <1>2 DEF FlowAt
  <2>. QED  BY <1>1, <1>5, <2>1, <2>6, <2>7, InnerTurn
<1>. QED  BY <1>4, <1>5, RacedStays DEF MInv, Flows

\* exit and its hooks move none.
LEMMA ExitMessages ==
  ASSUME TInv, BInv, CInv, MInv, [Next]_vars, fate' # "strays", NEW t \in Threads,
         Exit(t) \/ RunHook(t) \/ CloseStdin(t) \/ CloseStdout(t) \/ StdoutClosed(t)
  PROVE  MInv'
<1>1. UNCHANGED <<n, kept, outbuf, outpos, screen, child>>
  <2>1. CASE Exit(t) \/ RunHook(t)
    BY <2>1 DEF Exit, RunHook, output
  <2>2. CASE CloseStdin(t)
    BY <2>2 DEF CloseStdin, Stray, output
  <2>3. CASE CloseStdout(t)
    BY <2>3 DEF CloseStdout, Stray, output
  <2>4. CASE StdoutClosed(t)
    BY <2>4, StdoutClosedTurn
  <2>. QED  BY <2>1, <2>2, <2>3, <2>4
<1>2. \A w, l : FlowAt(w, l, outbuf, outpos) \/ w \in {"advance", "reset", "done"}
  BY DEF FlowAt
<1>3. Minds(pc[t], loc[t], n, kept, Vals(outbuf)) /\ Pending \subseteq kept
  BY PendingIs DEF MInv, Talks, AllMind, Known, TInv
<1>4. CASE Exit(t)
  <2>1. pc[t] = "idle" /\ Turn(t, "exit", loc[t])
    BY <1>4, ExitTurns
  <2>. QED  BY <1>1, <1>2, <1>3, <2>1, SilentMessages DEF Printer, Tied, Minds
<1>5. CASE RunHook(t)
  <2>1. pc[t] = "exit" /\ \E w \in {"closein", "exit"} : Turn(t, w, loc[t])
    BY <1>5, ExitTurns
  <2>2. PICK w \in {"closein", "exit"} : Turn(t, w, loc[t])
    BY <2>1
  <2>. QED  BY <1>1, <1>2, <1>3, <2>1, <2>2, SilentMessages DEF Printer, Tied, Minds
<1>6. CASE CloseStdin(t)
  <2>1. pc[t] = "closein" /\ \E w, l : Reported(t, w, l)
    BY <1>6, CloseStdinTurn
  <2>2. PICK w, l : Reported(t, w, l)
    BY <2>1
  <2>3. Turn(t, w, l) /\ w \in {"closeout", "flush"} /\ w \notin Tied
    BY <2>2 DEF Reported, Tied
  <2>4. l.mark \subseteq kept /\ (Printer(w, l) => Printer(pc[t], loc[t]) /\ l.id = loc[t].id)
    BY <1>3, <2>2 DEF Reported, Is, Minds, Printer
  <2>. QED  BY <1>1, <1>2, <2>1, <2>3, <2>4, SilentMessages
<1>7. CASE CloseStdout(t)
  <2>1. pc[t] = "closeout" /\ \E l : Turn(t, "flushing", l) /\ Is(l, "close", "closeout", 0, 0, 0, {}, FALSE)
    BY <1>7, CloseStdoutTurn
  <2>2. PICK l : Turn(t, "flushing", l) /\ Is(l, "close", "closeout", 0, 0, 0, {}, FALSE)
    BY <2>1
  <2>3. l.mark \subseteq kept /\ ~Printer("flushing", l) /\ "flushing" \notin Tied
    BY <2>2 DEF Is, Printer, Tied
  <2>. QED  BY <1>1, <1>2, <2>1, <2>2, <2>3, SilentMessages
<1>8. CASE StdoutClosed(t)
  <2>1. pc[t] \in {"done", "stopped"} /\ Turn(t, "exit", Nothing)
    BY <1>8, StdoutClosedTurn
  <2>2. Nothing.mark \subseteq kept /\ ~Printer("exit", Nothing) /\ "exit" \notin Tied
    BY NothingIs DEF Is, Printer, Tied
  <2>. QED  BY <1>1, <1>2, <2>1, <2>2, SilentMessages
<1>. QED  BY <1>4, <1>5, <1>6, <1>7, <1>8

\* At the start there are none.
LEMMA MessagesInit == Init => MInv
<1> SUFFICES ASSUME Init PROVE MInv
  OBVIOUS
<1>1. /\ n = 0 /\ kept = {} /\ outbuf = <<>> /\ outpos = 0 /\ screen = <<>> /\ child = None
      /\ \A t \in Threads : pc[t] = "idle" /\ loc[t] = Nothing
  BY DEF Init
<1>2. Vals(outbuf) = {} /\ Vals(screen) = {} /\ Inherited = {} /\ DOMAIN outbuf = {} /\ DOMAIN screen = {}
  BY <1>1 DEF Vals, Inherited
<1>3. \A t \in Threads : pc[t] = "idle" /\ ~Printer(pc[t], loc[t]) /\ loc[t].mark = {}
  BY <1>1, NothingIs DEF Is, Printer
<1>4. Talks
  BY <1>1, <1>2, <1>3 DEF Talks, AllMind, Minds, Apart, Known, Tied
<1>5. Flow
  BY <1>1, <1>3 DEF Flow, FlowAt
<1>6. Conserved
  BY <1>1, <1>2, <1>3 DEF Conserved, Conserves
<1>. QED  BY <1>4, <1>5, <1>6 DEF MInv, Flows

\* Every step keeps it.
LEMMA MessagesNext == TInv /\ BInv /\ CInv /\ MInv /\ [Next]_vars => MInv'
<1> SUFFICES ASSUME TInv, BInv, CInv, MInv, [Next]_vars PROVE MInv'
  OBVIOUS
<1>1. CASE Rests
  BY <1>1, RestsMessages DEF Rests
<1>2. ASSUME NEW t \in Threads, NEW w, NEW l, Quietly(t, w, l) PROVE MInv'
  BY <1>2, QuietMessages
<1>3. ASSUME NEW t \in Threads, Deeds(t) PROVE MInv'
  <2>1. CASE PutOut(t)
    BY <2>1, PutOutMessages
  <2>2. CASE Store(t)
    BY <2>2, StoreMessages
  <2>3. CASE Refill(t)
    BY <2>3, RefillMessages
  <2>4. CASE \E k \in 1 .. Len(Waiting) : Sends(t, k)
    BY <2>4, SendsMessages
  <2>5. CASE Advance(t)
    BY <2>5, AdvanceMessages
  <2>6. CASE Reset(t)
    BY <2>6, ResetMessages
  <2>7. CASE Exit(t) \/ RunHook(t) \/ CloseStdin(t) \/ CloseStdout(t) \/ StdoutClosed(t)
    BY <1>3, <2>7, ExitMessages DEF Deeds
  <2>. QED  BY <1>3, <2>1, <2>2, <2>3, <2>4, <2>5, <2>6, <2>7 DEF Deeds
<1>4. ASSUME NEW t \in Threads, Clone(t) PROVE MInv'
  BY <1>4, CloneMessages
<1>5. CASE ChildExits
  BY <1>5, ChildMessages
<1>. QED  BY <1>1, <1>2, <1>3, <1>4, <1>5, StepsAre DEF Steps

(***************************************************************************)
(* stderr's messages, and reads of stdin, come after what stdout had       *)
(* pending when the call began (stderr_write and stdin_read, which flush   *)
(* stdout first), for any number of threads and messages, until exit's     *)
(* flush meets a thread that is inside stdout.                             *)
(***************************************************************************)
THEOREM StdioTied == Spec => []TiedFirst
<1>1. TInv /\ HInv /\ BInv /\ CInv /\ MInv /\ [Next]_vars => TInv' /\ HInv' /\ BInv' /\ CInv' /\ MInv'
  BY TypesNext, HooksNext, ObjectsNext, ControlNext, MessagesNext
<1>. QED  BY <1>1, TypesInit, HooksInit, ObjectsInit, ControlInit, MessagesInit, MessagesMean, PTL DEF Spec

(***************************************************************************)
(* Descriptor 1 receives every message of stdout once, whatever the raw    *)
(* writes take, until exit's flush, which takes no lock, meets a thread    *)
(* that is inside (bf_flush, bf_write, ministd_io_cleanup).                *)
(***************************************************************************)
THEOREM StdioSentOnce == Spec => []SentOnce
<1>1. TInv /\ HInv /\ BInv /\ CInv /\ MInv /\ [Next]_vars => TInv' /\ HInv' /\ BInv' /\ CInv' /\ MInv'
  BY TypesNext, HooksNext, ObjectsNext, ControlNext, MessagesNext
<1>. QED  BY <1>1, TypesInit, HooksInit, ObjectsInit, ControlInit, MessagesInit, MessagesMean, PTL DEF Spec

(***************************************************************************)
(* The end of exit.  Once the library's hook has been called it is at      *)
(* work, or stdout's buffer is gone; and when that is gone, all that       *)
(* stdout took has been sent, and nobody puts anything into it any more.   *)
(***************************************************************************)
Sent == stalled \/ Raced \/ kept \subseteq Vals(screen)

Closed == fate \in {"runs", "exited"} /\ ~Has("bf", "out") => Sent

Cleaned == fate = "runs" /\ (\E i \in DOMAIN ran : ran[i] = 1) => (\E t \in Threads : Cleans(t)) \/ ~Has("bf", "out")

Over == fate = "exited" => ~Has("bf", "out")

EInv == Closed /\ Cleaned /\ Over

\* What it says of the end.
LEMMA EndMeans == EInv => ExitSendsAll
BY DEF EInv, Closed, Over, Sent, Vals, ExitSendsAll

\* What may happen to stdout's buffer.
LEMMA BufferGoes ==
  ASSUME BInv, [Next]_vars, fate \notin {"boot", "files"}
  PROVE  /\ Has("bf", "out")' => Has("bf", "out")
         /\ Has("bf", "out")' \/ ~Has("bf", "out") \/ (ClosesOut /\ fate' = "runs" /\ \E t \in Threads : StdoutClosed(t))
<1>0. ObjectSteps /\ "bf" \in Kinds /\ "bf" # "lock" /\ "out" \in Streams4 /\ "in" \in Streams4 /\ "out" # "in"
  BY ObjectStepsAre DEF Kinds, Streams4
<1>1. ~(IoInit \/ Main \/ MakeFile \/ CloseFile)
  BY DEF IoInit, Main, MakeFile, Wrap, CloseFile
<1>2. CASE UNCHANGED objects
  BY <1>2 DEF objects, Has
<1>3. CASE ClosesIn
  BY <1>0, <1>3, CleanupFacts DEF Elsewhere
<1>4. CASE FreesLock
  BY <1>0, <1>4, CleanupFacts
<1>5. CASE ClosesOut /\ fate = "runs" /\ UNCHANGED <<fate, boot, top, surprise>> /\ \E t \in Threads : StdoutClosed(t)
  BY <1>0, <1>5, CleanupFacts
<1>. QED  BY <1>0, <1>1, <1>2, <1>3, <1>4, <1>5 DEF ObjectSteps

\* Without a buffer stdout takes nothing.
LEMMA TakesNothing ==
  ASSUME TInv, [Next]_vars, ~Has("bf", "out")
  PROVE  UNCHANGED kept /\ (stalled => stalled') /\ Vals(screen) \subseteq Vals(screen')
<1>1. CASE UNCHANGED <<kept, stalled, screen>>
  BY <1>1 DEF Vals
<1>2. ASSUME NEW t \in Threads, Deeds(t) PROVE UNCHANGED <<kept, screen>> /\ (stalled => stalled')
  <2>1. ~(Store(t) \/ Refill(t) \/ (\E k \in 1 .. Len(Waiting) : Sends(t, k)) \/ Advance(t) \/ Reset(t))
    BY DEF Has, Store, Refill, Sends, Advance, Reset, OnStdout
  <2>2. CASE PutOut(t)
    BY <2>2 DEF PutOut
  <2>3. CASE Exit(t) \/ RunHook(t) \/ CloseStdin(t) \/ CloseStdout(t)
    BY <1>2, <2>3 DEF Exit, RunHook, CloseStdin, CloseStdout, output, Stray
  <2>4. CASE StdoutClosed(t)
    BY <1>2, <2>4, StdoutClosedTurn DEF Deeds
  <2>. QED  BY <1>2, <2>1, <2>2, <2>3, <2>4, Zenon DEF Deeds
<1>3. CASE ChildExits
  <2>1. PICK d \in Seq(Messages) : screen' = screen \o d
    BY <1>3, ChildSends
  <2>2. Joins(screen', screen, d)
    BY <2>1, ConcatIs DEF TInv, OutputTypes
  <2>. QED  BY <1>3, <2>2 DEF Joins, ChildExits
<1>4. Vals(screen) = Vals(screen)
  OBVIOUS
<1>. QED  BY <1>1, <1>2, <1>3, StepsAre DEF Steps, Rests, Quietly, Clone, output, Vals

\* When the library's hook has closed stdout, all has been sent.
LEMMA ClosedSent ==
  ASSUME TInv, BInv, CInv, MInv, [Next]_vars, fate' # "strays", NEW t \in Threads, StdoutClosed(t)
  PROVE  Sent'
<1>1. /\ pc[t] \in {"done", "stopped"} /\ loc[t].op = "close" /\ stalled' = (stalled \/ pc[t] = "stopped")
      /\ UNCHANGED <<kept, screen>>
  BY StdoutClosedTurn
<1>2. Sent' <=> stalled' \/ Raced' \/ kept' \subseteq Vals(screen')
  BY DEF Sent, Vals
<1>3. CASE pc[t] = "stopped"
  BY <1>1, <1>2, <1>3
<1>4. CASE Raced
  BY <1>2, <1>4, RacedStays
<1>5. CASE pc[t] = "done" /\ ~Raced
  <2>1. outbuf = <<>>
    BY <1>1, <1>5 DEF MInv, Flows, Flow, FlowAt
  <2>2. \A u \in Threads : pc[u] # "advance"
    BY <1>5, AloneInOut DEF InOut
  <2>3. Conserves(outbuf, screen, outpos, kept, Inherited)
    BY <1>5, <2>2 DEF MInv, Flows, Conserved
  <2>4. DOMAIN outbuf = {}
    BY <2>1
  <2>5. kept \subseteq Vals(screen)
    BY <2>3, <2>4 DEF Conserves
  <2>. QED  BY <1>1, <1>2, <2>5 DEF Vals
<1>. QED  BY <1>1, <1>3, <1>4, <1>5

\* Nothing has been taken, and no hook called, before main runs.
LEMMA RunsFrom ==
  ASSUME TInv, HInv, CInv, [Next]_vars, fate' \in {"runs", "exited"}
  PROVE  \/ fate = "boot" /\ fate' = "runs" /\ kept' = {} /\ ran' = <<>>
         \/ fate = "runs"
         \/ fate = "exited" /\ fate' = "exited"
<1>1. HookSteps
  BY HookStepsAre
<1>2. fate = "boot" => fate' = "runs" /\ ran' = <<>>
  BY <1>1 DEF HookSteps, HInv, exiting
<1>3. fate \in {"boot", "runs", "exited"} /\ (fate = "exited" => fate' = "exited")
  BY <1>1 DEF HookSteps, exiting
<1>4. ASSUME fate = "boot" PROVE kept' = kept
  <2>1. ~ \E t \in Threads : Deeds(t) \/ Clone(t) \/ \E w, l : Quietly(t, w, l)
    BY <1>4 DEF Deeds, Clone, Quietly, PutOut, Store, Refill, Sends, Advance, Reset, Exit, RunHook, CloseStdin, CloseStdout,
                StdoutClosed, OnStdout, Idle, At
  <2>2. Rests \/ ChildExits
    BY <2>1, StepsAre DEF Steps
  <2>. QED  BY <2>2 DEF Rests, ChildExits, output
<1>5. fate = "boot" => kept = {}
  BY DEF CInv, Quiet
<1>. QED  BY <1>2, <1>3, <1>4, <1>5

\* The first half.
LEMMA ClosedNext ==
  ASSUME TInv, HInv, BInv, CInv, MInv, EInv, [Next]_vars
  PROVE  Closed'
<1>1. /\ Closed' <=> (fate' \in {"runs", "exited"} /\ ~Has("bf", "out")' => Sent')
      /\ Sent' <=> stalled' \/ Raced' \/ kept' \subseteq Vals(screen')
  BY DEF Closed, Has, Sent, Vals
<1> SUFFICES ASSUME fate' \in {"runs", "exited"}, ~Has("bf", "out")' PROVE Sent'
  BY <1>1
<1>2. CASE fate = "boot"
  BY <1>1, <1>2, RunsFrom
<1>3. CASE fate \in {"runs", "exited"} /\ Has("bf", "out")
  <2>1. \E t \in Threads : StdoutClosed(t)
    BY <1>3, BufferGoes
  <2>2. fate' # "strays"
    OBVIOUS
  <2>. QED  BY <2>1, <2>2, ClosedSent
<1>4. CASE fate \in {"runs", "exited"} /\ ~Has("bf", "out")
  <2>1. Sent
    BY <1>4 DEF EInv, Closed
  <2>2. UNCHANGED kept /\ (stalled => stalled') /\ Vals(screen) \subseteq Vals(screen')
    BY <1>4, TakesNothing
  <2>3. Raced => Raced'
    BY RacedStays
  <2>. QED  BY <1>1, <2>1, <2>2, <2>3 DEF Sent
<1>. QED  BY <1>2, <1>3, <1>4, RunsFrom

\* The thread in the library's hook stays in it until the buffer is gone.
LEMMA CleansOn ==
  ASSUME TInv, BInv, [Next]_vars, fate' = "runs", NEW u \in Threads, Cleans(u), \A t \in Threads : ~RunHook(t)
  PROVE  (\E t \in Threads : Cleans(t)') \/ ~Has("bf", "out")'
<1>0. /\ pc[u] \in {"closein", "closeout"} \/ loc[u].back = "closeout"
      /\ pc[u] \notin {"idle", "exit", "dead"}
  BY DEF Cleans, CleansAt, TInv, ThreadTypes, Carries
<1>c. ASSUME NEW t \in Threads PROVE Cleans(t)' <=> CleansAt(pc'[t], loc'[t])
  BY DEF Cleans, CleansAt
<1>s. ASSUME pc' = pc, loc' = loc PROVE Cleans(u)'
  BY <1>c, <1>s DEF Cleans
<1>t. ASSUME NEW t \in Threads, NEW w, NEW l, Turn(t, w, l), t = u => CleansAt(w, l) PROVE Cleans(u)'
  BY <1>c, <1>t DEF Turn, Cleans
<1>b. ASSUME NEW t \in Threads, NEW w, NEW l, Turn(t, w, l), l.back = loc[t].back,
             pc[t] \notin {"closein", "closeout"}
      PROVE  Cleans(u)'
  <2>1. t = u => CleansAt(w, l)
    BY <1>0, <1>b DEF CleansAt
  <2>. QED  BY <1>b, <1>t, <2>1
<1>1. CASE Rests \/ ChildExits \/ \E t \in Threads : Clone(t)
  BY <1>1, <1>s DEF Rests, ChildExits, Clone
<1>2. ASSUME NEW t \in Threads, NEW w, NEW l, Quietly(t, w, l) PROVE Cleans(u)'
  BY <1>2, <1>t DEF Quietly, Respects, Cleans
<1>3. ASSUME NEW t \in Threads, Deeds(t) PROVE (\E x \in Threads : Cleans(x)') \/ ~Has("bf", "out")'
  <2>1. CASE PutOut(t)
    <3>1. PICK l : Turn(t, "print", l)
      BY <2>1, PutOutTurn
    <3>2. t # u
      BY <1>0, <2>1 DEF PutOut, Idle, At
    <3>. QED  BY <1>t, <3>1, <3>2
  <2>2. CASE Store(t)
    BY <1>b, <2>2, StoreTurn
  <2>3. CASE Refill(t)
    BY <1>b, <2>3, RefillTurn DEF Is
  <2>4. ASSUME NEW k \in 1 .. Len(Waiting), Sends(t, k) PROVE Cleans(u)'
    BY <1>b, <2>4, SendsTurn DEF Is
  <2>5. CASE Advance(t)
    BY <1>b, <2>5, AdvanceTurn DEF Is
  <2>6. CASE Reset(t)
    BY <1>b, <2>6, ResetTurn
  <2>7. CASE Exit(t)
    <3>1. Turn(t, "exit", loc[t]) /\ pc[t] = "idle"
      BY <2>7, ExitTurns
    <3>. QED  BY <1>b, <3>1
  <2>8. CASE CloseStdin(t)
    <3>1. PICK w, l : Reported(t, w, l)
      BY <2>8, CloseStdinTurn
    <3>2. Turn(t, w, l) /\ CleansAt(w, l)
      BY <3>1 DEF Reported, CleansAt, Is
    <3>. QED  BY <1>t, <3>2
  <2>9. CASE CloseStdout(t)
    <3>1. PICK l : Turn(t, "flushing", l) /\ Is(l, "close", "closeout", 0, 0, 0, {}, FALSE)
      BY <2>9, CloseStdoutTurn
    <3>2. CleansAt("flushing", l)
      BY <3>1 DEF CleansAt, Is
    <3>. QED  BY <1>t, <3>1, <3>2
  <2>10. CASE StdoutClosed(t)
    BY <2>10, StdoutClosedTurn, CleanupFacts
  <2>. QED  BY <1>3, <2>1, <2>2, <2>3, <2>4, <2>5, <2>6, <2>7, <2>8, <2>9, <2>10 DEF Deeds
<1>. QED  BY <1>1, <1>2, <1>3, StepsAre DEF Steps

\* Nobody else is in the hook while the exiting thread is in exit's loop.
LEMMA ExitsAlone ==
  ASSUME TInv, CInv, NEW t \in Threads, pc[t] = "exit", NEW u \in Threads
  PROVE  ~Cleans(u)
<1>1. SUFFICES ASSUME Cleans(u) PROVE FALSE
  OBVIOUS
<1>2. Ends(u) /\ Ends(t)
  BY <1>1 DEF Ends, EndsAt, Cleans, CleansAt
<1>3. u = t
  BY <1>2 DEF CInv, OneEnds
<1>4. loc[t].back = "idle"
  BY DEF TInv, ThreadTypes, Carries
<1>. QED  BY <1>1, <1>3, <1>4 DEF Cleans, CleansAt

\* A call of the library's hook is the first one, and enters it.
LEMMA RunsCleanup ==
  ASSUME TInv, HInv, CInv, Cleaned, NEW t \in Threads, RunHook(t), NEW i \in DOMAIN ran', ran'[i] = 1
  PROVE  Cleans(t)' \/ ~Has("bf", "out")'
<1>1. /\ fate = "runs" /\ pc[t] = "exit" /\ ran' = Append(ran, NextHook) /\ UNCHANGED objects
      /\ Len(ran) < Len(hooks) /\ hooks # <<>> /\ hooks[1] = "cleanup"
  BY DEF RunHook, At, HInv
<1>2. ran \in Seq(Nat) /\ NextHook \in Nat
  BY <1>1, LenProperties DEF HInv, NextHook
<1>3. Appends(ran', ran, NextHook)
  BY <1>1, <1>2, AppendIs
<1>4. CASE NextHook = 1
  <2>1. PICK w \in {"closein", "exit"} : Turn(t, w, loc[t]) /\ (w = "closein" <=> hooks[NextHook] = "cleanup")
    BY ExitTurns
  <2>2. pc'[t] = "closein"
    BY <1>1, <1>4, <2>1 DEF Turn
  <2>. QED  BY <2>2 DEF Cleans, CleansAt
<1>5. CASE NextHook # 1
  <2>1. i \in DOMAIN ran /\ ran[i] = 1
    BY <1>3, <1>5 DEF Appends
  <2>2. ~Has("bf", "out")
    BY <1>1, <2>1, ExitsAlone DEF Cleaned
  <2>. QED  BY <1>1, <2>2 DEF Has, objects
<1>. QED  BY <1>4, <1>5

\* The second half.
LEMMA CleanedNext ==
  ASSUME TInv, HInv, BInv, CInv, EInv, [Next]_vars
  PROVE  Cleaned'
<1>0. Cleaned' <=> (fate' = "runs" /\ (\E i \in DOMAIN ran' : ran'[i] = 1) => (\E t \in Threads : Cleans(t)') \/ ~Has("bf", "out")')
  BY DEF Cleaned, Cleans, CleansAt, Has
<1> SUFFICES ASSUME fate' = "runs", NEW i \in DOMAIN ran', ran'[i] = 1
             PROVE  (\E t \in Threads : Cleans(t)') \/ ~Has("bf", "out")'
  BY <1>0
<1>1. CASE fate = "boot"
  <2>1. ran' = <<>>
    BY <1>1, RunsFrom
  <2>. QED  BY <2>1
<1>2. CASE \E t \in Threads : RunHook(t)
  BY <1>2, RunsCleanup DEF EInv
<1>3. CASE fate = "runs" /\ ~ \E t \in Threads : RunHook(t)
  <2>1. ran' = ran
    BY <1>3, HookStepsAre DEF HookSteps, Registers, exiting
  <2>2. (\E t \in Threads : Cleans(t)) \/ ~Has("bf", "out")
    BY <1>3, <2>1 DEF EInv, Cleaned
  <2>3. ~Has("bf", "out") => ~Has("bf", "out")'
    BY <1>3, BufferGoes
  <2>. QED  BY <1>3, <2>2, <2>3, CleansOn
<1>. QED  BY <1>1, <1>2, <1>3, RunsFrom

\* exit_group comes after the library's hook.
LEMMA OverNext ==
  ASSUME TInv, HInv, BInv, CInv, EInv, [Next]_vars
  PROVE  Over'
<1>0. Over' <=> (fate' = "exited" => ~Has("bf", "out")')
  BY DEF Over, Has
<1> SUFFICES ASSUME fate' = "exited" PROVE ~Has("bf", "out")'
  BY <1>0
<1>1. fate \in {"runs", "exited"}
  BY RunsFrom
<1>2. ~Has("bf", "out") => ~Has("bf", "out")'
  BY <1>1, BufferGoes
<1>3. CASE fate = "exited"
  BY <1>2, <1>3 DEF EInv, Over
<1>4. CASE fate = "runs"
  <2>1. Len(ran) >= Len(hooks) /\ UNCHANGED exiting /\ \E t \in Threads : pc[t] = "exit"
    BY <1>4, HookStepsAre DEF HookSteps, Registers
  <2>2. /\ hooks \in Seq(HookNames) /\ ran \in Seq(Nat) /\ Len(ran) <= Len(hooks) /\ hooks # <<>>
        /\ ran # <<>> => ran[Len(ran)] \in 1 .. NextHook + 1
    BY <1>4 DEF HInv
  <2>3. Len(ran) \in Nat /\ Len(hooks) \in Nat /\ Len(ran) = Len(hooks) /\ Len(hooks) # 0 /\ NextHook = 0
    BY <2>1, <2>2, LenProperties, EmptySeq DEF NextHook
  <2>4. ran # <<>> /\ Len(ran) \in DOMAIN ran
    BY <2>2, <2>3, LenProperties, EmptySeq
  <2>5. ran[Len(ran)] = 1
    BY <2>2, <2>3, <2>4
  <2>6. ~Has("bf", "out")
    BY <1>4, <2>1, <2>4, <2>5, ExitsAlone DEF EInv, Cleaned
  <2>. QED  BY <1>2, <2>6
<1>. QED  BY <1>1, <1>3, <1>4

\* Every step keeps them.
LEMMA EndNext == TInv /\ HInv /\ BInv /\ CInv /\ MInv /\ EInv /\ [Next]_vars => EInv'
BY ClosedNext, CleanedNext, OverNext DEF EInv

\* The process starts in "boot".
LEMMA EndInit == Init => EInv
BY DEF Init, EInv, Closed, Cleaned, Over

(***************************************************************************)
(* A process that reaches the end of exit has sent all that stdout had     *)
(* taken (exit, ministd_io_cleanup), whatever the other threads do         *)
(* meanwhile and whatever hooks are registered late, unless the flush of   *)
(* exit stalled or met a thread that was inside stdout.                    *)
(***************************************************************************)
THEOREM StdioSendsAll == Spec => []ExitSendsAll
<1>1. TInv /\ HInv /\ BInv /\ CInv /\ MInv /\ EInv /\ [Next]_vars => TInv' /\ HInv' /\ BInv' /\ CInv' /\ MInv' /\ EInv'
  BY TypesNext, HooksNext, ObjectsNext, ControlNext, MessagesNext, EndNext
<1>. QED  BY <1>1, TypesInit, HooksInit, ObjectsInit, ControlInit, MessagesInit, EndInit, EndMeans, PTL DEF Spec
=============================================================================
