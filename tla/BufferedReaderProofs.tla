------------------------ MODULE BufferedReaderProofs ------------------------
(***************************************************************************)
(* The read half of a BufferedFile with its byte of push-back gives its    *)
(* input out in order and once, for every input, buffer size and set of    *)
(* request sizes; and it implements InStream.  Every step either leaves    *)
(* both what was consumed and what is ahead alone, or moves a sequence     *)
(* from the front of what is ahead to the end of what was consumed, or     *)
(* puts one byte back.  That needs to know what the caller's buffer holds  *)
(* in the middle of a call: at most the byte that was pushed back (InCall).*)
(***************************************************************************)
EXTENDS BufferedReader, SequenceTheorems, TLAPS

(***************************************************************************)
(* A push-back that is not empty holds one byte.                           *)
(***************************************************************************)
LEMMA AtMostOne == \A n \in Nat : n <= 1 /\ n # 0 => n = 1
OBVIOUS

(***************************************************************************)
(* A short write or read cuts a sequence into a head of k elements and the *)
(* rest; together they are the sequence again.                             *)
(***************************************************************************)
LEMMA Cut ==
  ASSUME NEW S, NEW s \in Seq(S), NEW k \in 0 .. Len(s)
  PROVE  /\ SubSeq(s, 1, k) \in Seq(S)
         /\ Len(SubSeq(s, 1, k)) = k
         /\ SubSeq(s, k + 1, Len(s)) \in Seq(S)
         /\ Len(SubSeq(s, k + 1, Len(s))) = Len(s) - k
         /\ SubSeq(s, 1, k) \o SubSeq(s, k + 1, Len(s)) = s
<1>0. Len(s) \in Nat /\ k \in Int /\ \A i \in 1 .. Len(s) : s[i] \in S
  BY LenProperties, ElementOfSeq
<1>1. SubSeq(s, 1, k) \in Seq(S) /\ Len(SubSeq(s, 1, k)) = k
  <2>1. \A i \in 1 .. k : s[i] \in S
    BY <1>0
  <2>. QED  BY <1>0, <2>1, SubSeqProperties
<1>2. /\ SubSeq(s, k + 1, Len(s)) \in Seq(S)
      /\ Len(SubSeq(s, k + 1, Len(s))) = Len(s) - k
  <2>1. \A i \in k + 1 .. Len(s) : s[i] \in S
    BY <1>0
  <2>2. k + 1 \in Int /\ Len(s) \in Int
    BY <1>0
  <2>3. /\ SubSeq(s, k + 1, Len(s)) \in Seq(S)
        /\ Len(SubSeq(s, k + 1, Len(s)))
              = IF k + 1 <= Len(s) THEN Len(s) - (k + 1) + 1 ELSE 0
    BY <2>1, <2>2, SubSeqProperties
  <2>. QED  BY <1>0, <2>3
<1>3. SubSeq(s, 1, k) \o SubSeq(s, k + 1, Len(s)) = SubSeq(s, 1, Len(s))
  <2>1. 1 \in 1 .. Len(s) + 1 /\ k \in 1 - 1 .. Len(s) /\ Len(s) \in k .. Len(s)
    BY <1>0
  <2>. QED  BY <2>1, ConcatAdjacentSubSeq
<1>4. SubSeq(s, 1, Len(s)) = s
  BY SubSeqFull
<1>. QED  BY <1>1, <1>2, <1>3, <1>4

(***************************************************************************)
(* What was there first is still the beginning after appending.            *)
(***************************************************************************)
LEMMA AppendKeepsPrefix ==
  ASSUME NEW S, NEW s \in Seq(S), NEW d \in Seq(S)
  PROVE  /\ s \o d \in Seq(S)
         /\ Len(s \o d) = Len(s) + Len(d)
         /\ Len(s) <= Len(s \o d)
         /\ SubSeq(s \o d, 1, Len(s)) = s
<1>1. /\ s \o d \in Seq(S)
      /\ Len(s \o d) = Len(s) + Len(d)
      /\ Len(s) \in Nat /\ Len(d) \in Nat
  BY ConcatProperties, LenProperties
<1>2. CASE Len(s) = 0
  <2>1. s = <<>>
    BY <1>2, EmptySeq
  <2>2. SubSeq(s \o d, 1, Len(s)) = <<>>
    BY <1>2, SubSeqEmpty
  <2>. QED  BY <1>1, <2>1, <2>2
<1>3. CASE Len(s) # 0
  <2>1. SubSeq(s \o d, 1, Len(s)) = SubSeq(s, 1, Len(s))
    BY <1>1, <1>3, SubSeqOfConcat1
  <2>. QED  BY <1>1, <2>1, SubSeqFull
<1>. QED  BY <1>2, <1>3

(***************************************************************************)
(* Cutting a concatenation where it was joined gives the parts back.       *)
(***************************************************************************)
LEMMA CutAtJoint ==
  ASSUME NEW S, NEW s \in Seq(S), NEW t \in Seq(S)
  PROVE  /\ SubSeq(s \o t, 1, Len(s)) = s
         /\ SubSeq(s \o t, Len(s) + 1, Len(s \o t)) = t
         /\ Len(s) \in 0 .. Len(s \o t)
<1>1. /\ Len(s) \in Nat /\ Len(t) \in Nat
      /\ Len(s \o t) = Len(s) + Len(t)
      /\ SubSeq(s \o t, 1, Len(s)) = s
  BY AppendKeepsPrefix, LenProperties
<1>2. CASE Len(t) = 0
  <2>1. t = <<>>
    BY <1>2, EmptySeq
  <2>2. SubSeq(s \o t, Len(s) + 1, Len(s \o t)) = <<>>
    <3>1. Len(s) + 1 \in Int /\ Len(s \o t) \in Int /\ Len(s \o t) < Len(s) + 1
      BY <1>1, <1>2
    <3>. QED  BY <3>1, SubSeqEmpty
  <2>. QED  BY <1>1, <2>1, <2>2
<1>3. CASE Len(t) # 0
  <2>1. /\ Len(s) + 1 \in Len(s) + 1 .. Len(s) + Len(t)
        /\ Len(s) + Len(t) \in Len(s) + 1 .. Len(s) + Len(t)
    BY <1>1, <1>3
  <2>2. SubSeq(s \o t, Len(s) + 1, Len(s) + Len(t))
          = SubSeq(t, Len(s) + 1 - Len(s), Len(s) + Len(t) - Len(s))
    BY <2>1, SubSeqOfConcat2
  <2>3. Len(s) + 1 - Len(s) = 1 /\ Len(s) + Len(t) - Len(s) = Len(t)
    BY <1>1
  <2>. QED  BY <1>1, <2>2, <2>3, SubSeqFull
<1>. QED  BY <1>2, <1>3

(***************************************************************************)
(* A non-empty sequence is what precedes its last element, and that.       *)
(***************************************************************************)
LEMMA CutLast ==
  ASSUME NEW S, NEW s \in Seq(S), s # <<>>
  PROVE  /\ SubSeq(s, 1, Len(s) - 1) \in Seq(S)
         /\ <<s[Len(s)]>> \in Seq(S)
         /\ SubSeq(s, 1, Len(s) - 1) \o <<s[Len(s)]>> = s
<1>1. Len(s) \in Nat /\ Len(s) # 0 /\ \A i \in 1 .. Len(s) : s[i] \in S
  BY LenProperties, ElementOfSeq, EmptySeq
<1>2. Len(s) - 1 \in 0 .. Len(s) /\ (Len(s) - 1) + 1 = Len(s)
  BY <1>1
<1>3. /\ SubSeq(s, 1, Len(s) - 1) \in Seq(S)
      /\ SubSeq(s, 1, Len(s) - 1) \o SubSeq(s, Len(s), Len(s)) = s
  <2>1. SubSeq(s, 1, Len(s) - 1)
          \o SubSeq(s, (Len(s) - 1) + 1, Len(s)) = s
    BY <1>2, Cut
  <2>. QED  BY <1>2, <2>1, Cut
<1>4. SubSeq(s, Len(s), Len(s)) = <<s[Len(s)]>>
  <2>1. /\ SubSeq(s, Len(s), Len(s)) \in Seq(S)
        /\ Len(SubSeq(s, Len(s), Len(s))) = 1
        /\ \A i \in 1 .. 1 : SubSeq(s, Len(s), Len(s))[i] = s[Len(s) + i - 1]
    BY <1>1, SubSeqProperties
  <2>2. SubSeq(s, Len(s), Len(s))[1] = s[Len(s)]
    BY <1>1, <2>1
  <2> DEFINE u == SubSeq(s, Len(s), Len(s))
             v == <<s[Len(s)]>>
  <2>3. v \in Seq(S) /\ Len(v) = 1 /\ v[1] = s[Len(s)]
    BY <1>1
  <2>4. u \in Seq(S) /\ Len(u) = Len(v) /\ \A i \in 1 .. Len(u) : u[i] = v[i]
    BY <2>1, <2>2, <2>3
  <2> HIDE DEF u, v
  <2>5. u = v
    BY <2>3, <2>4, SeqEqual
  <2>. QED  BY <2>5 DEF u, v
<1>5. <<s[Len(s)]>> \in Seq(S)
  BY <1>1
<1>. QED  BY <1>3, <1>4, <1>5

-----------------------------------------------------------------------------

Still == UNCHANGED <<got, Ahead>>

Moves(h) ==
    /\ h \in Seq(Bytes)
    /\ got' = got \o h
    /\ Ahead = h \o Ahead'

MovesOrNot == Still \/ (\E h \in Seq(Bytes) : Moves(h)) \/ In!PutBack

(***************************************************************************)
(* What is ahead, with the parts that are empty left out.                  *)
(***************************************************************************)
LEMMA AheadParts ==
  ASSUME TypeOK
  PROVE  /\ Held \in Seq(Bytes) /\ Ahead \in Seq(Bytes)
         /\ rbuf \o src \in Seq(Bytes)
         /\ ungot \o (rbuf \o src) \in Seq(Bytes)
         /\ pc # "peek" => Ahead = ungot \o (rbuf \o src)
         /\ pc = "peek" => Ahead = out \o (ungot \o (rbuf \o src))
         /\ ungot = <<>> => ungot \o (rbuf \o src) = rbuf \o src
         /\ rbuf = <<>> => rbuf \o src = src
<1>1. /\ ungot \in Seq(Bytes) /\ rbuf \in Seq(Bytes)
      /\ src \in Seq(Bytes) /\ out \in Seq(Bytes)
  BY DEF TypeOK
<1>2. Held \in Seq(Bytes)
  BY <1>1, EmptySeq DEF Held
<1>3. rbuf \o src \in Seq(Bytes)
  BY <1>1, ConcatProperties
<1>4. ungot \o (rbuf \o src) \in Seq(Bytes)
  BY <1>1, <1>3, ConcatProperties
<1>5. Ahead \in Seq(Bytes)
  BY <1>2, <1>4, ConcatProperties DEF Ahead
<1>6. pc # "peek" => Ahead = ungot \o (rbuf \o src)
  BY <1>4, ConcatEmptySeq DEF Ahead, Held
<1>7. pc = "peek" => Ahead = out \o (ungot \o (rbuf \o src))
  BY DEF Ahead, Held
<1>8. ungot = <<>> => ungot \o (rbuf \o src) = rbuf \o src
  BY <1>3, ConcatEmptySeq
<1>9. rbuf = <<>> => rbuf \o src = src
  BY <1>1, ConcatEmptySeq
<1>. QED  BY <1>2, <1>3, <1>4, <1>5, <1>6, <1>7, <1>8, <1>9

(***************************************************************************)
(* Steps that keep the types and the facts about the middle of a call.     *)
(***************************************************************************)
LEMMA TypeStep == TypeOK /\ InCall /\ [Next]_vars => TypeOK' /\ InCall'
<1> SUFFICES ASSUME TypeOK, InCall, [Next]_vars PROVE TypeOK' /\ InCall'
  OBVIOUS
<1>0. /\ <<>> \in Seq(Bytes) /\ Len(<<>>) = 0
      /\ \A s \in Seq(Bytes) : Len(s) \in Nat /\ (Len(s) = 0 <=> s = <<>>)
      /\ \A s \in Seq(Bytes) : <<>> \o s = s
  BY EmptySeq, LenProperties, ConcatEmptySeq
\* Ending a call with a sequence of bytes, one at most for a peek.
<1>1. ASSUME NEW bs \in Seq(Bytes), NEW err \in Errs \cup {OK}, pc # "idle",
             ReturnWith(bs, err), pc = "peek" => Len(bs) <= 1,
             src' \in Seq(Bytes), rbuf' \in Seq(Bytes), want' = want,
             got' \in Seq(Bytes), dry' \in BOOLEAN
      PROVE  TypeOK' /\ InCall'
  <2>1. ret' \in [op : {"new", "read", "peek", "ungetc"}, bytes : Seq(Bytes),
                  err : Errs \cup {OK, ERR_PERM}]
    BY <1>1 DEF ReturnWith, TypeOK
  <2>2. pc' = "idle" /\ out' = <<>> /\ ungot' \in Seq(Bytes) /\ Len(ungot') <= 1
    BY <1>1 DEF ReturnWith, TypeOK
  <2>. QED  BY <1>0, <1>1, <2>1, <2>2 DEF TypeOK, InCall
<1>2. ASSUME NEW cap \in Caps, Read(cap)
      PROVE  TypeOK' /\ InCall'
  <2>1. cap \in Nat
    BY CapsAssumption
  <2>2. /\ pc' = "read" /\ want' = cap /\ out' = <<>> /\ dry' = FALSE
        /\ UNCHANGED <<ungot, rbuf, src, ret, got>>
    BY <1>2 DEF Read, Call
  <2>3. TypeOK'
    BY <1>0, <2>1, <2>2 DEF TypeOK
  <2>4. InCall'
    BY <1>0, <2>2 DEF InCall
  <2>. QED  BY <2>3, <2>4
<1>3. CASE Peekc
  <2>2. /\ pc' = "peek" /\ want' = 1 /\ out' = <<>> /\ dry' = FALSE
        /\ UNCHANGED <<ungot, rbuf, src, ret, got>>
    BY <1>3 DEF Peekc, Call
  <2>3. TypeOK'
    BY <1>0, <2>2 DEF TypeOK
  <2>4. InCall'
    <3>1. want' + Len(out') = 1
      BY <1>0, <2>2
    <3>. QED  BY <1>0, <2>2, <3>1 DEF InCall
  <2>. QED  BY <2>3, <2>4
<1>4. CASE Ungetc
  <2>0. ret' \in [op : {"new", "read", "peek", "ungetc"}, bytes : Seq(Bytes),
                  err : Errs \cup {OK, ERR_PERM}]
    <3>1. \/ ret' = [op |-> "ungetc", bytes |-> <<>>, err |-> OK]
          \/ ret' = [op |-> "ungetc", bytes |-> <<>>, err |-> ERR_PERM]
      BY <1>4 DEF Ungetc
    <3>2. CASE ret' = [op |-> "ungetc", bytes |-> <<>>, err |-> OK]
      BY <1>0, <3>2
    <3>3. CASE ret' = [op |-> "ungetc", bytes |-> <<>>, err |-> ERR_PERM]
      BY <1>0, <3>3
    <3>. QED  BY <3>1, <3>2, <3>3
  <2>1. CASE ungot = <<>>
    <3>1. got \in Seq(Bytes) /\ got # <<>>
      BY <1>4 DEF Ungetc, TypeOK
    <3>2. SubSeq(got, 1, Len(got) - 1) \in Seq(Bytes) /\ <<got[Len(got)]>> \in Seq(Bytes)
      BY <3>1, CutLast
    <3>3. ungot' = <<got[Len(got)]>> /\ Len(ungot') = 1
      BY <1>4, <2>1 DEF Ungetc
    <3>4. /\ ungot' \in Seq(Bytes) /\ Len(ungot') <= 1 /\ got' \in Seq(Bytes)
          /\ UNCHANGED <<rbuf, src, pc, want, out, dry>> /\ pc = "idle"
      BY <1>4, <2>1, <3>2, <3>3 DEF Ungetc, Front
    <3>. QED  BY <1>0, <2>0, <3>4 DEF TypeOK, InCall
  <2>2. CASE ungot # <<>>
    <3>1. UNCHANGED <<ungot, got, rbuf, src, pc, want, out, dry>>
      BY <1>4, <2>2 DEF Ungetc
    <3>. QED  BY <2>0, <3>1 DEF TypeOK, InCall
  <2>. QED  BY <2>1, <2>2
<1>5. CASE TakeUngot
  <2>1. /\ Len(ungot) = 1 /\ Len(out') = 1 /\ out' \in Seq(Bytes)
        /\ ungot' = <<>> /\ want' \in Nat /\ want' = want - 1
    <3>1. ungot \in Seq(Bytes) /\ Len(ungot) <= 1 /\ ungot # <<>> /\ want \in Nat
          /\ want > 0 /\ out' = ungot /\ ungot' = <<>> /\ want' = want - 1
      BY <1>5 DEF TakeUngot, TypeOK
    <3>2. Len(ungot) \in Nat /\ Len(ungot) # 0
      BY <1>0, <3>1
    <3>3. Len(ungot) = 1
      BY <3>1, <3>2, AtMostOne
    <3>4. want - 1 \in Nat
      BY <3>1
    <3>. QED  BY <3>1, <3>3, <3>4
  <2>2. got' \in Seq(Bytes)
    BY <1>5, ConcatProperties DEF TakeUngot, TypeOK
  <2>3. pc = "peek" => want' = 0
    BY <1>0, <1>5 DEF TakeUngot, TypeOK, InCall
  <2>. QED  BY <1>0, <1>5, <2>1, <2>2, <2>3 DEF TakeUngot, TypeOK, InCall
<1>6. CASE Satisfied
  BY <1>0, <1>1, <1>6 DEF Satisfied, TypeOK, InCall
<1>7. ASSUME InBfRead, NEW s \in Seq(Bytes), NEW k \in 0 .. Len(s), k <= want,
             Deliver(s, k), src' \in Seq(Bytes), rbuf' \in Seq(Bytes),
             want' = want, dry' = dry
      PROVE  TypeOK' /\ InCall'
  <2>1. Front(s, k) \in Seq(Bytes) /\ Len(Front(s, k)) = k
    BY Cut DEF Front
  <2>2. out \o Front(s, k) \in Seq(Bytes) /\ got \o Front(s, k) \in Seq(Bytes)
        /\ Len(out \o Front(s, k)) = Len(out) + k
    <3>1. out \in Seq(Bytes) /\ got \in Seq(Bytes) /\ Front(s, k) \in Seq(Bytes)
          /\ Len(Front(s, k)) = k
      BY <2>1 DEF TypeOK
    <3>. HIDE DEF Front
    <3>. QED  BY <3>1, AppendKeepsPrefix
  <2>3. pc = "peek" => Len(out \o Front(s, k)) <= 1
    BY <1>0, <1>7, <2>2 DEF InBfRead, InCall, TypeOK
  <2>. QED  BY <1>1, <1>7, <2>2, <2>3 DEF Deliver, InBfRead, TypeOK
<1>8. CASE FromBuffer
  <2> DEFINE k == Shorter(want, Len(rbuf))
  <2>1. rbuf \in Seq(Bytes) /\ k \in 0 .. Len(rbuf) /\ k <= want
    BY <1>0 DEF Shorter, TypeOK
  <2>2. Rest(rbuf, k) \in Seq(Bytes)
    BY <2>1, Cut DEF Rest
  <2>3. InBfRead /\ Deliver(rbuf, k) /\ rbuf' = Rest(rbuf, k) /\ UNCHANGED <<src, want, dry>>
    BY <1>8 DEF FromBuffer
  <2> HIDE DEF k
  <2>4. src' \in Seq(Bytes) /\ rbuf' \in Seq(Bytes) /\ want' = want /\ dry' = dry
    BY <2>2, <2>3 DEF TypeOK
  <2>. QED  BY <1>7, <2>1, <2>3, <2>4
<1>9. ASSUME NEW k \in 1 .. Len(src), Direct(k) \/ Fill(k)
      PROVE  TypeOK' /\ InCall'
  <2>1. src \in Seq(Bytes) /\ k \in 0 .. Len(src) /\ want \in Nat
    BY <1>0, <1>9 DEF TypeOK
  <2>2. Rest(src, k) \in Seq(Bytes) /\ Front(src, k) \in Seq(Bytes)
    BY <2>1, Cut DEF Rest, Front
  <2>3. CASE Direct(k)
    <3>1. InBfRead /\ Deliver(src, k) /\ src' = Rest(src, k)
          /\ UNCHANGED <<rbuf, want, dry>> /\ k <= want
      BY <1>0, <2>1, <2>3 DEF Direct, Shorter
    <3>2. src' \in Seq(Bytes) /\ rbuf' \in Seq(Bytes) /\ want' = want /\ dry' = dry
      BY <2>2, <3>1 DEF TypeOK
    <3>. QED  BY <1>7, <2>1, <3>1, <3>2
  <2>4. CASE Fill(k)
    BY <2>2, <2>4 DEF Fill, TypeOK, InCall
  <2>. QED  BY <1>9, <2>3, <2>4
<1>10. CASE Dry
  BY <1>0, <1>1, <1>10 DEF Dry, InBfRead, TypeOK, InCall
<1>11. ASSUME NEW e \in Errs, ReadFails(e)
       PROVE  TypeOK' /\ InCall'
  BY <1>0, <1>1, <1>11 DEF ReadFails, InBfRead, TypeOK, InCall
<1>12. CASE UNCHANGED vars
  BY <1>12 DEF vars, TypeOK, InCall
<1>. QED
  BY <1>2, <1>3, <1>4, <1>5, <1>6, <1>8, <1>9, <1>10, <1>11, <1>12
     DEF Next, Step

(***************************************************************************)
(* The steps that move nothing, and where the byte a peekc holds goes.     *)
(***************************************************************************)
LEMMA StillSteps ==
  ASSUME TypeOK, InCall, TypeOK',
         \/ \E cap \in Caps : Read(cap)
         \/ Peekc
         \/ Satisfied
         \/ Dry
         \/ \E e \in Errs : ReadFails(e)
         \/ \E k \in 1 .. Len(src) : Fill(k)
         \/ UNCHANGED vars
  PROVE  Still
<1>0. /\ <<>> \in Seq(Bytes) /\ Len(<<>>) = 0
      /\ \A s \in Seq(Bytes) : Len(s) \in Nat /\ (Len(s) = 0 <=> s = <<>>)
      /\ \A s \in Seq(Bytes) : s \o <<>> = s /\ <<>> \o s = s
  BY EmptySeq, LenProperties, ConcatEmptySeq
<1>1. ASSUME UNCHANGED <<got, rbuf, src, ungot>>, Held' = Held
      PROVE  Still
  BY <1>1 DEF Still, Ahead
<1>2. CASE (\E cap \in Caps : Read(cap)) \/ Peekc
  BY <1>1, <1>2 DEF Read, Peekc, Call, Held
<1>3. ASSUME NEW e, pc # "idle", ReturnWith(out, e), UNCHANGED <<got, rbuf, src>>,
             pc = "peek" => ungot = <<>>
      PROVE  Still
  <2>1. CASE pc = "read"
    <3>1. Held' = Held /\ ungot' = ungot
      BY <1>3, <2>1 DEF ReturnWith, Held
    <3>. QED  BY <1>1, <1>3, <3>1
  <2>2. CASE pc = "peek"
    <3>1. ungot' = out /\ pc' # "peek" /\ ungot = <<>> /\ rbuf' = rbuf
          /\ src' = src /\ got' = got
      BY <1>3, <2>2 DEF ReturnWith
    <3>2. Ahead = out \o (rbuf \o src)
      BY <2>2, <3>1, AheadParts
    <3>3. rbuf \o src \in Seq(Bytes)
      BY AheadParts
    <3>4. out \o (rbuf \o src) \in Seq(Bytes)
      BY <3>3, ConcatProperties DEF TypeOK
    <3>5. Ahead' = <<>> \o (ungot' \o (rbuf' \o src'))
      BY <3>1 DEF Ahead, Held
    <3>6. Ahead' = Ahead
      BY <1>0, <3>1, <3>2, <3>4, <3>5
    <3>. QED  BY <3>1, <3>6 DEF Still
  <2>. QED  BY <1>3, <2>1, <2>2 DEF TypeOK
<1>4. CASE Satisfied
  <2>1. pc = "peek" => ungot = <<>>
    <3>1. ASSUME pc = "peek" PROVE out # <<>>
      <4>1. want + Len(out) = 1 /\ want = 0
        BY <1>4, <3>1 DEF Satisfied, InCall
      <4>2. out = <<>> => want + Len(out) = 0
        BY <1>0, <4>1
      <4>. QED  BY <4>1, <4>2
    <3>. QED  BY <3>1 DEF InCall
  <2>. QED  BY <1>3, <1>4, <2>1 DEF Satisfied
<1>5. CASE Dry
  BY <1>3, <1>5 DEF Dry, InBfRead
<1>6. ASSUME NEW e \in Errs, ReadFails(e)
      PROVE  Still
  BY <1>3, <1>6 DEF ReadFails, InBfRead
<1>7. ASSUME NEW k \in 1 .. Len(src), Fill(k)
      PROVE  Still
  <2>1. /\ rbuf = <<>> /\ rbuf' = Front(src, k) /\ src' = Rest(src, k)
        /\ UNCHANGED <<ungot, pc, out, got>>
    BY <1>7 DEF Fill
  <2>2. Front(src, k) \o Rest(src, k) = src
    <3>1. src \in Seq(Bytes) /\ k \in 0 .. Len(src)
      BY <1>0 DEF TypeOK
    <3>. QED  BY <3>1, Cut DEF Front, Rest
  <2>3. rbuf \o src = src
    BY <2>1, AheadParts
  <2>. QED  BY <2>1, <2>2, <2>3 DEF Still, Ahead, Held
<1>8. CASE UNCHANGED vars
  BY <1>1, <1>8 DEF vars, Held
<1>. QED  BY <1>2, <1>4, <1>5, <1>6, <1>7, <1>8

(***************************************************************************)
(* A byte of push-back is handed over: to a read it is consumed, a peekc   *)
(* holds it.                                                               *)
(***************************************************************************)
LEMMA TakeUngotMoves ==
  ASSUME TypeOK, InCall, TakeUngot
  PROVE  MovesOrNot
<1>0. /\ <<>> \in Seq(Bytes) /\ Len(<<>>) = 0
      /\ \A s \in Seq(Bytes) : Len(s) \in Nat /\ (Len(s) = 0 <=> s = <<>>)
      /\ \A s \in Seq(Bytes) : s \o <<>> = s /\ <<>> \o s = s
  BY EmptySeq, LenProperties, ConcatEmptySeq
<1>1. /\ out' = ungot /\ ungot' = <<>> /\ UNCHANGED <<rbuf, src, pc>>
      /\ got' = IF pc = "read" THEN got \o ungot ELSE got
      /\ out = <<>>
  BY DEF TakeUngot, InCall
<1>2. rbuf \o src \in Seq(Bytes) /\ ungot \in Seq(Bytes)
      /\ ungot \o (rbuf \o src) \in Seq(Bytes)
  BY AheadParts DEF TypeOK
<1>3. CASE pc = "read"
  <2>1. Ahead = ungot \o (rbuf \o src)
    BY <1>3, AheadParts
  <2>2. Ahead' = rbuf \o src
    BY <1>0, <1>1, <1>2, <1>3 DEF Ahead, Held
  <2>. QED  BY <1>1, <1>2, <1>3, <2>1, <2>2 DEF MovesOrNot, Moves
<1>4. CASE pc = "peek"
  <2>1. Ahead = <<>> \o (ungot \o (rbuf \o src))
    BY <1>1, <1>4 DEF Ahead, Held
  <2>2. Ahead' = ungot \o (<<>> \o (rbuf \o src))
    BY <1>1, <1>4 DEF Ahead, Held
  <2>3. Ahead' = Ahead
    BY <1>0, <1>2, <2>1, <2>2
  <2>. QED  BY <1>1, <1>4, <2>3 DEF MovesOrNot, Still
<1>. QED  BY <1>3, <1>4 DEF TakeUngot, TypeOK

(***************************************************************************)
(* Bytes served from the buffer or from the raw file: to a read they are   *)
(* consumed; the one a peekc gets is pushed back at once.                  *)
(***************************************************************************)
LEMMA DeliverMoves ==
  ASSUME TypeOK, TypeOK', InCall, InBfRead,
         NEW s \in Seq(Bytes), NEW k \in 0 .. Len(s), Deliver(s, k),
         rbuf \o src = Front(s, k) \o (rbuf' \o src')
  PROVE  MovesOrNot
<1> DEFINE h == Front(s, k)
<1>0. /\ <<>> \in Seq(Bytes) /\ Len(<<>>) = 0
      /\ \A z \in Seq(Bytes) : Len(z) \in Nat /\ (Len(z) = 0 <=> z = <<>>)
      /\ \A z \in Seq(Bytes) : z \o <<>> = z /\ <<>> \o z = z
  BY EmptySeq, LenProperties, ConcatEmptySeq
<1>1. h \in Seq(Bytes)
  BY Cut DEF Front
<1>2. rbuf' \o src' \in Seq(Bytes) /\ rbuf \o src \in Seq(Bytes)
  BY ConcatProperties DEF TypeOK
<1>3. /\ pc' = "idle" /\ ungot = <<>>
      /\ ungot' = IF pc = "peek" THEN out \o h ELSE ungot
      /\ got' = IF pc = "read" THEN got \o h ELSE got
  BY DEF Deliver, ReturnWith, InBfRead
<1>4. rbuf \o src = h \o (rbuf' \o src')
  OBVIOUS
<1> HIDE DEF h
<1>5. CASE pc = "read"
  <2>1. Ahead = rbuf \o src
    BY <1>3, <1>5, AheadParts
  <2>2. Ahead' = rbuf' \o src'
    BY <1>0, <1>2, <1>3, <1>5 DEF Ahead, Held
  <2>. QED  BY <1>1, <1>3, <1>4, <1>5, <2>1, <2>2 DEF MovesOrNot, Moves
<1>6. CASE pc = "peek"
  <2>1. out = <<>>
    <3>1. out \in Seq(Bytes) /\ want \in Nat /\ want > 0 /\ want + Len(out) = 1
      BY <1>6 DEF InCall, InBfRead, TypeOK
    <3>2. Len(out) \in Nat /\ (Len(out) = 0 => out = <<>>)
      BY <1>0, <3>1
    <3>3. \A m, n \in Nat : m > 0 /\ m + n = 1 => n = 0
      OBVIOUS
    <3>. QED  BY <3>1, <3>2, <3>3
  <2>2. Ahead = rbuf \o src
    BY <1>0, <1>2, <1>3, <1>6, <2>1, AheadParts
  <2>3. Ahead' = <<>> \o (ungot' \o (rbuf' \o src'))
    BY <1>3 DEF Ahead, Held
  <2>4. ungot' = h
    BY <1>0, <1>1, <1>3, <1>6, <2>1
  <2>5. Ahead' = Ahead
    BY <1>0, <1>2, <1>4, <2>2, <2>3, <2>4
  <2>. QED  BY <1>3, <1>6, <2>5 DEF MovesOrNot, Still
<1>. QED  BY <1>5, <1>6 DEF InBfRead, TypeOK

(***************************************************************************)
(* Every step leaves both ends alone, moves bytes across, or puts one back.*)
(***************************************************************************)
LEMMA StepMoves ==
  TypeOK /\ InCall /\ TypeOK' /\ [Next]_vars => MovesOrNot
<1> SUFFICES ASSUME TypeOK, InCall, TypeOK', [Next]_vars PROVE MovesOrNot
  OBVIOUS
<1>1. CASE FromBuffer
  <2> DEFINE k == Shorter(want, Len(rbuf))
  <2>1. rbuf \in Seq(Bytes) /\ src \in Seq(Bytes) /\ Len(rbuf) \in Nat /\ want \in Nat
    BY LenProperties DEF TypeOK
  <2>2. k \in 0 .. Len(rbuf)
    BY <2>1 DEF Shorter
  <2>3. InBfRead /\ Deliver(rbuf, k) /\ rbuf' = Rest(rbuf, k) /\ src' = src
    BY <1>1 DEF FromBuffer
  <2> HIDE DEF k
  <2>4. Front(rbuf, k) \in Seq(Bytes) /\ Rest(rbuf, k) \in Seq(Bytes)
        /\ Front(rbuf, k) \o Rest(rbuf, k) = rbuf
    BY <2>1, <2>2, Cut DEF Front, Rest
  <2>5. (Front(rbuf, k) \o Rest(rbuf, k)) \o src
           = Front(rbuf, k) \o (Rest(rbuf, k) \o src)
    <3> DEFINE h == Front(rbuf, k)
               r == Rest(rbuf, k)
    <3>1. h \in Seq(Bytes) /\ r \in Seq(Bytes) /\ src \in Seq(Bytes)
      BY <2>1, <2>4
    <3> HIDE DEF h, r
    <3>2. (h \o r) \o src = h \o (r \o src)
      BY <3>1, ConcatAssociative
    <3>. QED  BY <3>2 DEF h, r
  <2>6. rbuf \o src = Front(rbuf, k) \o (rbuf' \o src')
    BY <2>3, <2>4, <2>5
  <2>. QED  BY <2>1, <2>2, <2>3, <2>6, DeliverMoves
<1>2. ASSUME NEW k \in 1 .. Len(src), Direct(k)
      PROVE  MovesOrNot
  <2>1. src \in Seq(Bytes) /\ k \in 0 .. Len(src)
    BY LenProperties DEF TypeOK
  <2>2. InBfRead /\ Deliver(src, k) /\ src' = Rest(src, k)
        /\ rbuf = <<>> /\ rbuf' = <<>>
    BY <1>2 DEF Direct
  <2>3. Rest(src, k) \in Seq(Bytes) /\ Front(src, k) \o Rest(src, k) = src
    BY <2>1, Cut DEF Front, Rest
  <2>4. rbuf \o src = Front(src, k) \o (rbuf' \o src')
    BY <2>1, <2>2, <2>3, ConcatEmptySeq
  <2>. QED  BY <2>1, <2>2, <2>4, DeliverMoves
<1>3. CASE Ungetc
  <2>1. CASE ungot = <<>>
    <3>1. /\ got \in Seq(Bytes) /\ got # <<>> /\ pc = "idle" /\ pc' = "idle"
          /\ ungot' = <<got[Len(got)]>> /\ UNCHANGED <<rbuf, src>>
          /\ got' = SubSeq(got, 1, Len(got) - 1)
      BY <1>3, <2>1 DEF Ungetc, Front, TypeOK
    <3>2. Ahead = rbuf \o src
      BY <2>1, <3>1, AheadParts
    <3>3. Ahead' = <<>> \o (ungot' \o (rbuf' \o src'))
      BY <3>1 DEF Ahead, Held
    <3>4. ungot' \o (rbuf' \o src') \in Seq(Bytes)
      <4>1. rbuf' \o src' \in Seq(Bytes)
        BY ConcatProperties DEF TypeOK
      <4>. QED  BY <4>1, ConcatProperties DEF TypeOK
    <3>5. Ahead' = <<got[Len(got)]>> \o Ahead
      BY <3>1, <3>2, <3>3, <3>4, ConcatEmptySeq
    <3>. QED  BY <3>1, <3>5 DEF MovesOrNot, In!PutBack
  <2>2. CASE ungot # <<>>
    BY <1>3, <2>2 DEF Ungetc, MovesOrNot, Still, Ahead, Held
  <2>. QED  BY <2>1, <2>2
<1>4. CASE TakeUngot
  BY <1>4, TakeUngotMoves
<1>5. ASSUME \/ \E cap \in Caps : Read(cap)
             \/ Peekc
             \/ Satisfied
             \/ Dry
             \/ \E e \in Errs : ReadFails(e)
             \/ \E k \in 1 .. Len(src) : Fill(k)
             \/ UNCHANGED vars
      PROVE  MovesOrNot
  BY <1>5, StillSteps DEF MovesOrNot
<1>. QED  BY <1>1, <1>2, <1>3, <1>4, <1>5 DEF Next, Step

-----------------------------------------------------------------------------
(***************************************************************************)
(* A new BufferedFile has consumed nothing and has all its input ahead.    *)
(***************************************************************************)
LEMMA InitIInv == Init => IInv /\ In!InInit
<1> SUFFICES ASSUME Init PROVE IInv /\ In!InInit
  OBVIOUS
<1>1. <<>> \in Seq(Bytes) /\ Len(<<>>) = 0 /\ Input \in Seq(Bytes)
      /\ <<>> \o Input = Input
  BY EmptySeq, InputAssumption, ConcatEmptySeq
<1>2. TypeOK
  <2>1. ret \in [op : {"new", "read", "peek", "ungetc"}, bytes : Seq(Bytes),
                 err : Errs \cup {OK, ERR_PERM}]
    BY <1>1 DEF Init
  <2>2. ungot \in Seq(Bytes) /\ Len(ungot) <= 1 /\ rbuf \in Seq(Bytes)
        /\ out \in Seq(Bytes) /\ got \in Seq(Bytes)
    BY <1>1 DEF Init
  <2>3. src \in Seq(Bytes)
    BY <1>1 DEF Init
  <2>4. pc \in {"idle", "read", "peek"} /\ want \in Nat /\ dry \in BOOLEAN
    BY DEF Init
  <2>. QED  BY <2>1, <2>2, <2>3, <2>4 DEF TypeOK
<1>3. InCall
  BY <1>1 DEF Init, InCall
<1>4. Ahead = Input /\ got = <<>>
  BY <1>1 DEF Init, Ahead, Held
<1>. QED  BY <1>1, <1>2, <1>3, <1>4 DEF IInv, NothingLost, In!InInit

(***************************************************************************)
(* Moving bytes across and putting one back keep the sum of both ends.     *)
(***************************************************************************)
LEMMA NextIInv == IInv /\ [Next]_vars => IInv'
<1> SUFFICES ASSUME IInv, [Next]_vars PROVE IInv'
  OBVIOUS
<1>1. TypeOK /\ InCall /\ NothingLost /\ TypeOK' /\ InCall'
  BY TypeStep DEF IInv
<1>2. MovesOrNot
  BY <1>1, StepMoves
<1>3. got \in Seq(Bytes) /\ got' \in Seq(Bytes)
      /\ Ahead \in Seq(Bytes) /\ Ahead' \in Seq(Bytes)
  <2>1. Ahead' \in Seq(Bytes)
    <3>1. rbuf' \o src' \in Seq(Bytes)
      BY <1>1, ConcatProperties DEF TypeOK
    <3>2. ungot' \o (rbuf' \o src') \in Seq(Bytes)
      BY <1>1, <3>1, ConcatProperties DEF TypeOK
    <3>3. Held' \in Seq(Bytes)
      BY <1>1, EmptySeq DEF Held, TypeOK
    <3>. QED  BY <3>2, <3>3, ConcatProperties DEF Ahead
  <2>. QED  BY <1>1, <2>1, AheadParts DEF TypeOK
<1>4. got' \o Ahead' = Input
  <2>1. CASE Still
    BY <1>1, <2>1 DEF Still, NothingLost
  <2>2. ASSUME NEW h \in Seq(Bytes), Moves(h)
        PROVE  got' \o Ahead' = Input
    <3>1. (got \o h) \o Ahead' = got \o (h \o Ahead')
      BY <1>3, ConcatAssociative, SMTT(30)
    <3>. QED  BY <1>1, <2>2, <3>1 DEF Moves, NothingLost
  <2>3. CASE In!PutBack
    <3> DEFINE f == SubSeq(got, 1, Len(got) - 1)
               l == <<got[Len(got)]>>
    <3>1. f \in Seq(Bytes) /\ l \in Seq(Bytes) /\ f \o l = got
      BY <1>3, <2>3, CutLast DEF In!PutBack
    <3>2. got' = f /\ Ahead' = l \o Ahead
      BY <2>3 DEF In!PutBack
    <3> HIDE DEF f, l
    <3>3. (f \o l) \o Ahead = f \o (l \o Ahead)
      <4>1. f \in Seq(Bytes) /\ l \in Seq(Bytes) /\ Ahead \in Seq(Bytes)
        BY <1>3, <3>1
      <4>. QED  BY <4>1, ConcatAssociative
    <3>. QED  BY <1>1, <3>1, <3>2, <3>3 DEF NothingLost
  <2>. QED  BY <1>2, <2>1, <2>2, <2>3 DEF MovesOrNot
<1>. QED  BY <1>1, <1>4 DEF IInv, NothingLost

(***************************************************************************)
(* The read half keeps its types.                                          *)
(***************************************************************************)
THEOREM TypeCorrect == Spec => []TypeOK
<1>1. IInv => TypeOK
  BY DEF IInv
<1>. QED  BY InitIInv, NextIInv, <1>1, PTL DEF Spec

(***************************************************************************)
(* What was consumed and what is ahead always make up the input.           *)
(***************************************************************************)
THEOREM Conservation == Spec => []NothingLost
<1>1. IInv => NothingLost
  BY DEF IInv
<1>. QED  BY InitIInv, NextIInv, <1>1, PTL DEF Spec

(***************************************************************************)
(* Every step is a step of InStream or changes nothing a client can see.   *)
(***************************************************************************)
LEMMA StepRefines == IInv /\ IInv' /\ [Next]_vars => [In!InNext]_<<got, Ahead>>
<1> SUFFICES ASSUME IInv, IInv', [Next]_vars PROVE [In!InNext]_<<got, Ahead>>
  OBVIOUS
<1>1. MovesOrNot
  BY StepMoves DEF IInv
<1>2. CASE Still
  BY <1>2 DEF Still
<1>3. ASSUME NEW h \in Seq(Bytes), Moves(h)
      PROVE  In!InNext
  <2>1. Ahead' \in Seq(Bytes)
    <3>1. rbuf' \o src' \in Seq(Bytes)
      BY ConcatProperties DEF IInv, TypeOK
    <3>2. ungot' \o (rbuf' \o src') \in Seq(Bytes)
      BY <3>1, ConcatProperties DEF IInv, TypeOK
    <3>3. Held' \in Seq(Bytes)
      BY EmptySeq DEF Held, IInv, TypeOK
    <3>. QED  BY <3>2, <3>3, ConcatProperties DEF Ahead
  <2>2. /\ SubSeq(Ahead, 1, Len(h)) = h
        /\ SubSeq(Ahead, Len(h) + 1, Len(Ahead)) = Ahead'
        /\ Len(h) \in 0 .. Len(Ahead)
    BY <1>3, <2>1, CutAtJoint DEF Moves
  <2>3. In!Consume(Len(h))
    BY <1>3, <2>2 DEF In!Consume, Moves
  <2>. QED  BY <2>2, <2>3 DEF In!InNext
<1>. QED  BY <1>1, <1>2, <1>3 DEF MovesOrNot, In!InNext

(***************************************************************************)
(* The read half of a BufferedFile implements the input stream.            *)
(***************************************************************************)
THEOREM ReaderImplementsInStream == Spec => ImplementsInStream
BY InitIInv, NextIInv, StepRefines, PTL DEF Spec, ImplementsInStream, In!InSpec
-----------------------------------------------------------------------------
(***************************************************************************)
(* What a call returns is not empty when it got a byte from the push-back  *)
(* or when bf_read had one to give.                                        *)
(***************************************************************************)
LEMMA DeliverNotEmpty ==
  ASSUME TypeOK, NEW s \in Seq(Bytes), NEW k \in 1 .. Len(s)
  PROVE  /\ out \o Front(s, k) # <<>>
         /\ out # <<>> => (out \o Front(s, k))[1] = out[1]
<1> DEFINE h == Front(s, k)
<1>1. out \in Seq(Bytes) /\ Len(out) \in Nat /\ k \in 0 .. Len(s) /\ k \in Nat /\ k > 0
  BY LenProperties DEF TypeOK
<1>2. h \in Seq(Bytes) /\ Len(h) = k
  BY <1>1, Cut DEF Front
<1> HIDE DEF h
<1>3. out \o h \in Seq(Bytes) /\ Len(out \o h) = Len(out) + k
  BY <1>1, <1>2, ConcatProperties
<1>4. out \o h # <<>>
  <2>1. Len(out \o h) # 0
    BY <1>1, <1>3
  <2>. QED  BY <1>3, <2>1, EmptySeq
<1>5. out # <<>> => (out \o h)[1] = out[1]
  <2>1. out # <<>> => 1 \in 1 .. Len(out)
    BY <1>1, EmptySeq
  <2>. QED  BY <1>1, <1>2, <2>1, ConcatProperties
<1>. QED  BY <1>4, <1>5 DEF h

(***************************************************************************)
(* How many bytes a read served from the buffer, or straight from the raw  *)
(* file, gives: at least one.                                              *)
(***************************************************************************)
LEMMA ServesSome ==
  ASSUME TypeOK, InBfRead, NEW s \in Seq(Bytes), s # <<>>
  PROVE  Shorter(want, Len(s)) \in 1 .. Len(s)
<1>1. want \in Nat /\ want > 0
  BY DEF TypeOK, InBfRead
<1>2. Len(s) \in Nat /\ Len(s) # 0
  BY LenProperties, EmptySeq
<1>. QED  BY <1>1, <1>2 DEF Shorter

(***************************************************************************)
(* Each way a call can end: how, and with which bytes.                     *)
(***************************************************************************)
LEMMA HowItEnds ==
  ASSUME TypeOK, [Next]_vars, pc # "idle", pc' = "idle"
  PROVE  /\ want' = want
         /\ \/ want = 0 /\ ReturnWith(out, OK)
            \/ InBfRead /\ \E s \in Seq(Bytes) : \E k \in 1 .. Len(s) : ReturnWith(out \o Front(s, k), OK)
            \/ InBfRead /\ dry' = TRUE /\ ReturnWith(out, OK)
            \/ InBfRead /\ \E e \in Errs : ReturnWith(out, e)
<1>1. CASE Satisfied
  BY <1>1 DEF Satisfied
<1>2. CASE FromBuffer
  <2>1. rbuf \in Seq(Bytes) /\ rbuf # <<>> /\ InBfRead /\ UNCHANGED want
        /\ Deliver(rbuf, Shorter(want, Len(rbuf)))
    BY <1>2 DEF FromBuffer, TypeOK
  <2>2. Shorter(want, Len(rbuf)) \in 1 .. Len(rbuf)
    BY <2>1, ServesSome
  <2>. QED  BY <2>1, <2>2 DEF Deliver
<1>3. ASSUME NEW k \in 1 .. Len(src), Direct(k)
      PROVE  /\ UNCHANGED want /\ InBfRead
             /\ \E s \in Seq(Bytes) : \E j \in 1 .. Len(s) : ReturnWith(out \o Front(s, j), OK)
  BY <1>3 DEF Direct, Deliver, TypeOK
<1>4. ASSUME NEW k \in 1 .. Len(src), Fill(k)
      PROVE  FALSE
  BY <1>4 DEF Fill
<1>5. CASE Dry
  BY <1>5 DEF Dry
<1>6. ASSUME NEW e \in Errs, ReadFails(e)
      PROVE  UNCHANGED want /\ InBfRead /\ ReturnWith(out, e)
  BY <1>6 DEF ReadFails
<1>7. ~TakeUngot /\ ~Ungetc /\ ~Peekc /\ ~(\E cap \in Caps : Read(cap)) /\ ~UNCHANGED vars
  BY DEF TakeUngot, Ungetc, Peekc, Read, Call, vars
<1>. QED  BY <1>1, <1>2, <1>3, <1>4, <1>5, <1>6, <1>7 DEF Next, Step

(***************************************************************************)
(* Between calls only an ungetc touches the result, and it is no read.     *)
(***************************************************************************)
LEMMA Between ==
  ASSUME [Next]_vars, pc = "idle"
  PROVE  \/ ret' = ret /\ ungot' = ungot /\ (pc' = "idle" => want' = want /\ dry' = dry)
               /\ (pc' # "idle" => out' = <<>>)
         \/ ret'.op = "ungetc" /\ pc' = "idle"
<1>1. CASE Peekc \/ \E cap \in Caps : Read(cap)
  BY <1>1 DEF Peekc, Read, Call
<1>2. CASE Ungetc
  BY <1>2 DEF Ungetc
<1>3. CASE UNCHANGED vars
  BY <1>3 DEF vars
<1>4. ~Step
  BY DEF Step, TakeUngot, Satisfied, FromBuffer, Direct, Fill, Dry, ReadFails, InBfRead
<1>. QED  BY <1>1, <1>2, <1>3, <1>4 DEF Next

(***************************************************************************)
(* Inside a call the result of the last one stands, and the byte of        *)
(* push-back is where it was or in the caller's buffer.                    *)
(***************************************************************************)
LEMMA Within ==
  ASSUME InCall, [Next]_vars, pc # "idle", pc' # "idle"
  PROVE  /\ ret' = ret
         /\ \/ UNCHANGED <<ungot, out>>
            \/ ungot # <<>> /\ out' = ungot
<1>1. CASE TakeUngot
  BY <1>1 DEF TakeUngot
<1>2. ASSUME NEW k \in 1 .. Len(src), Fill(k)
      PROVE  UNCHANGED <<ret, ungot, out>>
  BY <1>2 DEF Fill
<1>3. CASE UNCHANGED vars
  BY <1>3 DEF vars
<1>4. /\ ~Satisfied /\ ~FromBuffer /\ ~Dry /\ ~(\E e \in Errs : ReadFails(e))
      /\ ~(\E k \in 1 .. Len(src) : Direct(k)) /\ ~Ungetc /\ ~Peekc
      /\ ~(\E cap \in Caps : Read(cap))
  BY DEF Satisfied, FromBuffer, Dry, ReadFails, Direct, Deliver, ReturnWith, Ungetc, Peekc, Read, Call
<1>. QED  BY <1>1, <1>2, <1>3, <1>4 DEF Next, Step

(***************************************************************************)
(* Nothing has been read at first.                                         *)
(***************************************************************************)
LEMMA InitEmpty == Init => EmptyMeansDry
BY DEF Init, EmptyMeansDry

(***************************************************************************)
(* No step returns nothing without an error to a call that wants bytes,    *)
(* but Dry.                                                                *)
(***************************************************************************)
LEMMA NextEmpty == TypeOK /\ EmptyMeansDry /\ [Next]_vars => EmptyMeansDry'
<1> SUFFICES ASSUME TypeOK, EmptyMeansDry, [Next]_vars, pc' = "idle" PROVE EmptyMeansDry'
  BY DEF EmptyMeansDry
<1>1. CASE pc = "idle"
  BY <1>1, Between DEF EmptyMeansDry
<1>2. CASE pc # "idle"
  <2>1. CASE \E s \in Seq(Bytes) : \E k \in 1 .. Len(s) : ReturnWith(out \o Front(s, k), OK)
    <3>1. ret'.bytes # <<>>
      BY <2>1, DeliverNotEmpty DEF ReturnWith
    <3>. QED  BY <3>1 DEF EmptyMeansDry
  <2>2. CASE \E e \in Errs : ReturnWith(out, e)
    BY <2>2, ErrsAssumption DEF ReturnWith, EmptyMeansDry
  <2>3. CASE dry' = TRUE \/ want' = 0
    BY <2>3 DEF EmptyMeansDry
  <2>. QED  BY <1>2, <2>1, <2>2, <2>3, HowItEnds
<1>. QED  BY <1>1, <1>2

(***************************************************************************)
(* Nothing and no error is returned only to a call that wanted nothing, or *)
(* that the raw file gave nothing.                                         *)
(***************************************************************************)
THEOREM EmptyRead == Spec => []EmptyMeansDry
<1>1. IInv => TypeOK
  BY DEF IInv
<1>. QED  BY InitIInv, NextIInv, InitEmpty, NextEmpty, <1>1, PTL DEF Spec

-----------------------------------------------------------------------------
(***************************************************************************)
(* The byte that a peekc has returned, until another call returns: still   *)
(* the push-back, or already in the next caller's buffer.                  *)
(***************************************************************************)
PeekedIsHere ==
    ret.op = "peek" /\ ret.bytes # <<>> =>
        IF pc = "idle" THEN ungot = ret.bytes ELSE ret.bytes \in {ungot, out}

(***************************************************************************)
(* Nothing has been peeked at first.                                       *)
(***************************************************************************)
LEMMA InitPeeked == Init => PeekedIsHere
BY DEF Init, PeekedIsHere

(***************************************************************************)
(* A peekc that returns a byte has pushed it back; the calls after it move *)
(* it to their caller.                                                     *)
(***************************************************************************)
LEMMA NextPeeked ==
  TypeOK /\ InCall /\ PeekedIsHere /\ [Next]_vars => PeekedIsHere'
<1> SUFFICES ASSUME TypeOK, InCall, PeekedIsHere, [Next]_vars PROVE PeekedIsHere'
  OBVIOUS
<1>1. CASE pc = "idle"
  BY <1>1, Between DEF PeekedIsHere
<1>2. CASE pc # "idle" /\ pc' = "idle"
  <2>1. \E bs, e : ReturnWith(bs, e)
    BY <1>2, HowItEnds
  <2>. QED  BY <1>2, <2>1 DEF ReturnWith, PeekedIsHere
<1>3. CASE pc # "idle" /\ pc' # "idle"
  <2>1. ret' = ret /\ (UNCHANGED <<ungot, out>> \/ (ungot # <<>> /\ out' = ungot))
    BY <1>3, Within
  <2>2. ungot # <<>> => out = <<>>
    BY DEF InCall
  <2>. QED  BY <1>3, <2>1, <2>2 DEF PeekedIsHere
<1>. QED  BY <1>1, <1>2, <1>3

(***************************************************************************)
(* The call that returns next has that byte first, unless it wants none.   *)
(***************************************************************************)
LEMMA NextGivesPeeked ==
  ASSUME TypeOK, InCall, PeekedIsHere, [Next]_vars,
         ret.op = "peek", ret.bytes # <<>>, ret' # ret, ret'.op # "ungetc"
  PROVE  IF ret'.bytes = <<>> THEN want = 0 ELSE ret'.bytes[1] = ret.bytes[1]
<1>1. pc # "idle" /\ pc' = "idle"
  BY Between, Within
<1>2. ungot = ret.bytes \/ out = ret.bytes
  BY <1>1 DEF PeekedIsHere
<1>3. CASE want = 0 /\ ReturnWith(out, OK)
  <2>1. ret'.bytes = out
    BY <1>3 DEF ReturnWith
  <2>2. out # <<>> => ungot = <<>>
    BY DEF InCall
  <2>. QED  BY <1>2, <1>3, <2>1, <2>2
<1>4. CASE InBfRead
  <2>1. out = ret.bytes /\ out # <<>>
    BY <1>2, <1>4 DEF InBfRead
  <2>2. CASE \E s \in Seq(Bytes) : \E k \in 1 .. Len(s) : ReturnWith(out \o Front(s, k), OK)
    <3>1. PICK s \in Seq(Bytes) : \E k \in 1 .. Len(s) : ReturnWith(out \o Front(s, k), OK)
      BY <2>2
    <3>2. PICK k \in 1 .. Len(s) : ReturnWith(out \o Front(s, k), OK)
      BY <3>1
    <3>3. ret'.bytes = out \o Front(s, k)
      BY <3>2 DEF ReturnWith
    <3>. QED  BY <2>1, <3>3, DeliverNotEmpty
  <2>3. CASE \E e : ReturnWith(out, e)
    BY <2>1, <2>3 DEF ReturnWith
  <2>. QED  BY <1>1, <1>3, <2>2, <2>3, HowItEnds
<1>. QED  BY <1>1, <1>3, <1>4, HowItEnds

(***************************************************************************)
(* The byte peekc returned is the first byte of the next read that wants   *)
(* one, and of the next peekc.                                             *)
(***************************************************************************)
THEOREM PeekThenRead == Spec => PeekedComesNext
<1>1. TypeOK /\ InCall /\ PeekedIsHere /\ [Next]_vars =>
        [ret.op = "peek" /\ ret.bytes # <<>> /\ ret' # ret /\ ret'.op # "ungetc"
         => IF ret'.bytes = <<>> THEN want = 0
                                 ELSE ret'.bytes[1] = ret.bytes[1]]_vars
  BY NextGivesPeeked
<1>2. IInv => TypeOK /\ InCall
  BY DEF IInv
<1>. QED  BY InitIInv, NextIInv, InitPeeked, NextPeeked, <1>1, <1>2, PTL
          DEF Spec, PeekedComesNext
=============================================================================
