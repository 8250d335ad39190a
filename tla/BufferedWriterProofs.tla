------------------------ MODULE BufferedWriterProofs ------------------------
(***************************************************************************)
(* The write half of a BufferedFile delivers what it takes, in order and   *)
(* once, for every alphabet, every buffer size and every mix of short      *)
(* writes and failures; and it implements OutStream.  The inductive        *)
(* invariant IInv joins the delivery equation with where the positions of  *)
(* the buffer can be: rewound whenever it is empty between two calls, and  *)
(* when a large write passes it by.                                        *)
(***************************************************************************)
EXTENDS BufferedWriter, SequenceTheorems, TLAPS

(***************************************************************************)
(* A short write or read cuts a sequence into a head of k elements and the *)
(* rest; together they are the sequence again.                             *)
(***************************************************************************)
LEMMA Cut ==
  ASSUME NEW S, NEW s \in Seq(S), NEW k \in 0 .. Len(s)
  PROVE  /\ SubSeq(s, 1, k) \in Seq(S)
         /\ Len(SubSeq(s, 1, k)) = k
         /\ SubSeq(s, k + 1, Len(s)) \in Seq(S)
         /\ Len(SubSeq(s, k + 1, Len(s))) = Len(s) - k
         /\ SubSeq(s, 1, k) \o SubSeq(s, k + 1, Len(s)) = s
<1>0. Len(s) \in Nat /\ k \in Int /\ \A i \in 1 .. Len(s) : s[i] \in S
  BY LenProperties, ElementOfSeq
<1>1. SubSeq(s, 1, k) \in Seq(S) /\ Len(SubSeq(s, 1, k)) = k
  <2>1. \A i \in 1 .. k : s[i] \in S
    BY <1>0
  <2>. QED  BY <1>0, <2>1, SubSeqProperties
<1>2. /\ SubSeq(s, k + 1, Len(s)) \in Seq(S)
      /\ Len(SubSeq(s, k + 1, Len(s))) = Len(s) - k
  <2>1. \A i \in k + 1 .. Len(s) : s[i] \in S
    BY <1>0
  <2>2. k + 1 \in Int /\ Len(s) \in Int
    BY <1>0
  <2>3. /\ SubSeq(s, k + 1, Len(s)) \in Seq(S)
        /\ Len(SubSeq(s, k + 1, Len(s)))
              = IF k + 1 <= Len(s) THEN Len(s) - (k + 1) + 1 ELSE 0
    BY <2>1, <2>2, SubSeqProperties
  <2>. QED  BY <1>0, <2>3
<1>3. SubSeq(s, 1, k) \o SubSeq(s, k + 1, Len(s)) = SubSeq(s, 1, Len(s))
  <2>1. 1 \in 1 .. Len(s) + 1 /\ k \in 1 - 1 .. Len(s) /\ Len(s) \in k .. Len(s)
    BY <1>0
  <2>. QED  BY <2>1, ConcatAdjacentSubSeq
<1>4. SubSeq(s, 1, Len(s)) = s
  BY SubSeqFull
<1>. QED  BY <1>1, <1>2, <1>3, <1>4

(***************************************************************************)
(* The rest that a cut leaves ends as the sequence did.                    *)
(***************************************************************************)
LEMMA CutKeepsLast ==
  ASSUME NEW S, NEW s \in Seq(S), NEW k \in 0 .. Len(s),
         SubSeq(s, k + 1, Len(s)) # <<>>
  PROVE  LET t == SubSeq(s, k + 1, Len(s)) IN t[Len(t)] = s[Len(s)]
<1> DEFINE t == SubSeq(s, k + 1, Len(s))
<1>0. Len(s) \in Nat /\ k \in Int /\ \A i \in 1 .. Len(s) : s[i] \in S
  BY LenProperties, ElementOfSeq
<1>1. t \in Seq(S) /\ Len(t) = Len(s) - k
  BY Cut
<1>2. Len(t) # 0
  BY <1>1, EmptySeq
<1>3. \A i \in 1 .. Len(s) - (k + 1) + 1 : t[i] = s[k + 1 + i - 1]
  <2>1. \A i \in k + 1 .. Len(s) : s[i] \in S
    BY <1>0
  <2>2. k + 1 \in Int /\ Len(s) \in Int
    BY <1>0
  <2>. QED  BY <2>1, <2>2, SubSeqProperties
<1>. HIDE DEF t
<1>4. Len(t) \in 1 .. Len(s) - (k + 1) + 1 /\ k + 1 + Len(t) - 1 = Len(s)
  BY <1>0, <1>1, <1>2
<1>5. t[Len(t)] = s[Len(s)]
  BY <1>3, <1>4
<1>. QED  BY <1>5 DEF t

(***************************************************************************)
(* What was there first is still the beginning after appending.            *)
(***************************************************************************)
LEMMA AppendKeepsPrefix ==
  ASSUME NEW S, NEW s \in Seq(S), NEW d \in Seq(S)
  PROVE  /\ s \o d \in Seq(S)
         /\ Len(s \o d) = Len(s) + Len(d)
         /\ Len(s) <= Len(s \o d)
         /\ SubSeq(s \o d, 1, Len(s)) = s
<1>1. /\ s \o d \in Seq(S)
      /\ Len(s \o d) = Len(s) + Len(d)
      /\ Len(s) \in Nat /\ Len(d) \in Nat
  BY ConcatProperties, LenProperties
<1>2. CASE Len(s) = 0
  <2>1. s = <<>>
    BY <1>2, EmptySeq
  <2>2. SubSeq(s \o d, 1, Len(s)) = <<>>
    BY <1>2, SubSeqEmpty
  <2>. QED  BY <1>1, <2>1, <2>2
<1>3. CASE Len(s) # 0
  <2>1. SubSeq(s \o d, 1, Len(s)) = SubSeq(s, 1, Len(s))
    BY <1>1, <1>3, SubSeqOfConcat1
  <2>. QED  BY <1>1, <2>1, SubSeqFull
<1>. QED  BY <1>2, <1>3

-----------------------------------------------------------------------------

(***************************************************************************)
(* A new BufferedFile is empty and rewound.                                *)
(***************************************************************************)
LEMMA InitIInv == Init => IInv
<1> SUFFICES ASSUME Init PROVE IInv
  OBVIOUS
<1>1. <<>> \in Seq(Bytes) /\ Len(<<>>) = 0 /\ <<>> \o <<>> = <<>>
  BY EmptySeq, ConcatEmptySeq
<1>2. TypeOK
  BY <1>1 DEF Init, TypeOK, PCs, Results
<1>3. NothingLost
  BY <1>1 DEF Init, NothingLost
<1>4. InBuffer /\ EmptyIsRewound /\ DirectWhenEmpty
  BY <1>1, CapAssumption DEF Init, InBuffer, EmptyIsRewound, DirectWhenEmpty
<1>. QED  BY <1>2, <1>3, <1>4 DEF IInv

(***************************************************************************)
(* A write that finds room appends: the bytes are pending after the ones   *)
(* that already were, and the buffer still holds them.                     *)
(***************************************************************************)
LEMMA AppendsIInv ==
  ASSUME NEW d \in Data, IInv, WriteAppends(d)
  PROVE  IInv'
<1> USE DEF IInv
<1>1. d \in Seq(Bytes) /\ pend \in Seq(Bytes) /\ taken \in Seq(Bytes)
      /\ sent \in Seq(Bytes) /\ Len(d) \in Nat /\ Len(pend) \in Nat
  BY BytesAssumption, LenProperties DEF TypeOK
<1>2. pend \o d \in Seq(Bytes) /\ Len(pend \o d) = Len(pend) + Len(d)
      /\ taken \o d \in Seq(Bytes)
  BY <1>1, AppendKeepsPrefix
<1>3. /\ wpos' = wpos /\ pend' = pend \o d /\ taken' = taken \o d
      /\ data' = d /\ before' = taken /\ sent' = sent /\ stalled' = FALSE
      /\ pc = "idle"
      /\ \/ pc' = "newline" /\ ret' = ret
         \/ pc' = "idle" /\ ret' = [op |-> "write", n |-> Len(d), err |-> OK]
  BY DEF WriteAppends, CallWrite, Return
<1>4. TypeOK'
  <2>1. ret' \in Results
    BY <1>1, <1>3 DEF TypeOK, Results
  <2>2. pc' \in PCs
    BY <1>3 DEF PCs, Flushing
  <2>. QED  BY <1>1, <1>2, <1>3, <2>1, <2>2 DEF TypeOK
<1>5. NothingLost'
  <2>1. sent \o (pend \o d) = (sent \o pend) \o d
    BY <1>1, ConcatAssociative, SMTT(30)
  <2>. QED  BY <1>3, <2>1 DEF NothingLost
<1>6. InBuffer'
  BY <1>1, <1>2, <1>3, CapAssumption DEF WriteAppends, Fits, InBuffer, TypeOK
<1>7. EmptyIsRewound'
  <2>1. pend \o d = <<>> => pend = <<>>
    BY <1>1, <1>2, EmptySeq
  <2>. QED  BY <1>3, <2>1 DEF EmptyIsRewound
<1>8. DirectWhenEmpty'
  BY <1>3 DEF DirectWhenEmpty
<1>. QED  BY <1>4, <1>5, <1>6, <1>7, <1>8

(***************************************************************************)
(* A short write of a flush moves bytes from the head of what is pending   *)
(* to the end of what was sent, and write_buf_pos with them.               *)
(***************************************************************************)
LEMMA FlushSomeIInv ==
  ASSUME NEW k \in 1 .. Len(pend), IInv, FlushSome(k)
  PROVE  IInv'
<1> USE DEF IInv
<1>1. pend \in Seq(Bytes) /\ sent \in Seq(Bytes) /\ Len(pend) \in Nat
      /\ k \in 0 .. Len(pend) /\ wpos \in Nat
  BY LenProperties DEF TypeOK
<1> DEFINE h == SubSeq(pend, 1, k)
           r == SubSeq(pend, k + 1, Len(pend))
<1>2. h \in Seq(Bytes) /\ r \in Seq(Bytes) /\ Len(r) = Len(pend) - k
      /\ h \o r = pend
  BY <1>1, Cut
<1>3. /\ sent' = sent \o h /\ pend' = r /\ wpos' = wpos + k
      /\ pc \in Flushing /\ UNCHANGED <<pc, data, ret, taken, before, stalled>>
  BY DEF FlushSome, history
<1> HIDE DEF h, r
<1>4. sent \o h \in Seq(Bytes)
  BY <1>1, <1>2, ConcatProperties
<1>5. TypeOK'
  BY <1>1, <1>2, <1>3, <1>4 DEF TypeOK
<1>6. NothingLost'
  <2>0. sent \in Seq(Bytes) /\ h \in Seq(Bytes) /\ r \in Seq(Bytes)
    BY <1>1, <1>2
  <2>1. (sent \o h) \o r = sent \o (h \o r)
    BY <2>0, ConcatAssociative
  <2>. QED  BY <1>2, <1>3, <2>1 DEF NothingLost
<1>7. InBuffer'
  BY <1>1, <1>2, <1>3, CapAssumption DEF InBuffer
<1>8. EmptyIsRewound' /\ DirectWhenEmpty'
  BY <1>3 DEF EmptyIsRewound, DirectWhenEmpty, Flushing
<1>. QED  BY <1>5, <1>6, <1>7, <1>8

(***************************************************************************)
(* When nothing is left the buffer is rewound, and what the caller of      *)
(* bf_flush does next starts from an empty buffer.                         *)
(***************************************************************************)
LEMMA FlushDoneIInv ==
  ASSUME IInv, FlushDone
  PROVE  IInv'
<1> USE DEF IInv
<1>1. pend = <<>> /\ wpos' = 0 /\ pc \in Flushing
      /\ UNCHANGED <<data, sent, before, stalled>>
  BY DEF FlushDone, Rewind
<1>2. data \in Seq(Bytes) /\ taken \in Seq(Bytes) /\ sent \in Seq(Bytes)
      /\ Len(data) \in Nat /\ Len(<<>>) = 0 /\ <<>> \in Seq(Bytes)
  BY LenProperties, EmptySeq DEF TypeOK
<1>3. CASE /\ pc = "room" /\ Len(data) <= WriteCap
           /\ pend' = data /\ taken' = taken \o data
           /\ Return("write", Len(data), OK)
  <2>1. taken \o data \in Seq(Bytes)
    BY <1>2, ConcatProperties
  <2>2. TypeOK'
    BY <1>1, <1>2, <1>3, <2>1 DEF TypeOK, PCs, Results, Return
  <2>3. sent \o data = taken \o data
    BY <1>1, <1>2, ConcatEmptySeq DEF NothingLost
  <2>4. NothingLost' /\ InBuffer' /\ EmptyIsRewound' /\ DirectWhenEmpty'
    BY <1>1, <1>2, <1>3, <2>3, CapAssumption
       DEF NothingLost, InBuffer, EmptyIsRewound, DirectWhenEmpty, Return
  <2>. QED  BY <2>2, <2>4
<1>4. CASE /\ UNCHANGED <<pend, taken>>
           /\ \/ pc' \in {"direct", "closeRaw"} /\ UNCHANGED ret
              \/ Return("write", Len(data), OK)
              \/ Return("flush", 0, OK)
  <2>1. TypeOK'
    BY <1>1, <1>2, <1>4 DEF TypeOK, PCs, Results, Return
  <2>2. NothingLost' /\ InBuffer' /\ EmptyIsRewound' /\ DirectWhenEmpty'
    BY <1>1, <1>2, <1>4, CapAssumption
       DEF NothingLost, InBuffer, EmptyIsRewound, DirectWhenEmpty
  <2>. QED  BY <2>1, <2>2
<1>. QED  BY <1>3, <1>4 DEF FlushDone

(***************************************************************************)
(* A direct write finds the buffer empty, so its bytes follow all earlier  *)
(* ones.                                                                   *)
(***************************************************************************)
LEMMA DirectSomeIInv ==
  ASSUME NEW k \in 0 .. Len(data), IInv, DirectSome(k)
  PROVE  IInv'
<1> USE DEF IInv
<1>1. data \in Seq(Bytes) /\ taken \in Seq(Bytes) /\ sent \in Seq(Bytes)
      /\ Len(data) \in Nat /\ k \in Nat
  BY LenProperties DEF TypeOK
<1> DEFINE h == SubSeq(data, 1, k)
<1>2. h \in Seq(Bytes)
  BY <1>1, Cut
<1>3. /\ sent' = sent \o h /\ taken' = taken \o h /\ pc = "direct"
      /\ UNCHANGED <<wpos, pend, data, before, stalled>>
      /\ Return("write", k, OK)
  BY DEF DirectSome, buffer
<1> HIDE DEF h
<1>4. pend = <<>> /\ wpos = 0
  BY <1>3 DEF DirectWhenEmpty
<1>5. sent \o h \in Seq(Bytes) /\ taken \o h \in Seq(Bytes)
  BY <1>1, <1>2, ConcatProperties
<1>6. TypeOK'
  BY <1>1, <1>3, <1>5 DEF TypeOK, PCs, Results, Return
<1>7. NothingLost'
  BY <1>1, <1>3, <1>4, <1>5, ConcatEmptySeq DEF NothingLost
<1>8. InBuffer' /\ EmptyIsRewound' /\ DirectWhenEmpty'
  BY <1>3, <1>4 DEF InBuffer, EmptyIsRewound, DirectWhenEmpty, Return
<1>. QED  BY <1>6, <1>7, <1>8

(***************************************************************************)
(* Every step keeps the invariant.                                         *)
(***************************************************************************)
LEMMA NextIInv == IInv /\ [Next]_vars => IInv'
<1> SUFFICES ASSUME IInv, [Next]_vars PROVE IInv'
  OBVIOUS
<1> USE DEF IInv
\* The calls and failures that move no byte.
<1>1. ASSUME /\ UNCHANGED <<wpos, pend, sent, taken>>
             /\ data' \in Seq(Bytes) /\ before' \in Seq(Bytes)
             /\ ret' \in Results /\ stalled' \in BOOLEAN
             /\ pc' \in PCs \ {"direct"}
             /\ pend = <<>> /\ pc' = "idle" => wpos = 0
      PROVE  IInv'
  BY <1>1 DEF TypeOK, NothingLost, InBuffer, EmptyIsRewound, DirectWhenEmpty
<1>2. ASSUME NEW d \in Data, WriteNeedsRoom(d)
      PROVE  IInv'
  <2>1. d \in Seq(Bytes)
    BY BytesAssumption
  <2>. QED  BY <1>1, <1>2, <2>1 DEF WriteNeedsRoom, Begin, CallWrite, buffer,
                                    TypeOK, PCs, Flushing
<1>3. CASE Flush \/ Close
  BY <1>1, <1>3 DEF Flush, Close, Begin, buffer, history, TypeOK, PCs, Flushing
<1>4. ASSUME NEW e \in Errs, FlushFails(e) \/ DirectFails(e)
      PROVE  IInv'
  <2>1. CASE FlushFails(e)
    BY <1>1, <2>1 DEF FlushFails, Return, buffer, history, TypeOK, PCs, Flushing, Results
  <2>2. CASE DirectFails(e)
    BY <1>1, <2>2 DEF DirectFails, Return, buffer, history, TypeOK, PCs,
                      Results, DirectWhenEmpty
  <2>. QED  BY <1>4, <2>1, <2>2
<1>5. CASE FlushStalls
  BY <1>1, <1>5 DEF FlushStalls, Return, buffer, history, TypeOK, PCs, Results
<1>6. ASSUME NEW e \in Errs \cup {OK}, CloseRaw(e)
      PROVE  IInv'
  BY <1>1, <1>6 DEF CloseRaw, buffer, history, TypeOK, PCs, Results
<1>7. CASE UNCHANGED vars
  BY <1>7 DEF vars, buffer, history, TypeOK, NothingLost, InBuffer,
              EmptyIsRewound, DirectWhenEmpty
<1>. QED
  BY <1>2, <1>3, <1>4, <1>5, <1>6, <1>7, AppendsIInv, FlushSomeIInv,
     FlushDoneIInv, DirectSomeIInv DEF Next, Step

(***************************************************************************)
(* The write half keeps its types.                                         *)
(***************************************************************************)
THEOREM TypeCorrect == Spec => []TypeOK
<1>1. IInv => TypeOK
  BY DEF IInv
<1>. QED  BY InitIInv, NextIInv, <1>1, PTL DEF Spec

(***************************************************************************)
(* Sent followed by pending is always exactly what was taken.              *)
(***************************************************************************)
THEOREM Delivery == Spec => []NothingLost
<1>1. IInv => NothingLost
  BY DEF IInv
<1>. QED  BY InitIInv, NextIInv, <1>1, PTL DEF Spec

(***************************************************************************)
(* The buffer is never written past its end.                               *)
(***************************************************************************)
THEOREM NoOverrun == Spec => []InBuffer
<1>1. IInv => InBuffer
  BY DEF IInv
<1>. QED  BY InitIInv, NextIInv, <1>1, PTL DEF Spec

(***************************************************************************)
(* Between calls, an empty buffer has its whole capacity.                  *)
(***************************************************************************)
THEOREM Rewound == Spec => []EmptyIsRewound
<1>1. IInv => EmptyIsRewound
  BY DEF IInv
<1>. QED  BY InitIInv, NextIInv, <1>1, PTL DEF Spec

-----------------------------------------------------------------------------
(***************************************************************************)
(* What bf_write reports.  Inside the call, taken stands where TakenInCall *)
(* says; that makes the report of every return the right one.              *)
(***************************************************************************)
TInv == TakenInCall /\ WriteTellsTaken

(***************************************************************************)
(* The report is right in the initial state, where nothing was written.    *)
(***************************************************************************)
LEMMA InitTInv == Init => TInv
BY DEF Init, TInv, TakenInCall, WriteTellsTaken

(***************************************************************************)
(* No step makes a report wrong, neither a return nor a later one.         *)
(***************************************************************************)
LEMMA NextTInv == IInv /\ TInv /\ [Next]_vars => TInv'
<1> SUFFICES ASSUME IInv, TInv, [Next]_vars PROVE TInv'
  OBVIOUS
<1> USE DEF TInv
<1>1. /\ pend \in Seq(Bytes) /\ taken \in Seq(Bytes) /\ data \in Seq(Bytes)
      /\ before \in Seq(Bytes) /\ Len(data) \in Nat /\ Len(pend) \in Nat
      /\ \A e \in Errs : e # OK
  BY LenProperties, ErrsAssumption DEF IInv, TypeOK
<1>2. SubSeq(data, 1, 0) = <<>> /\ before \o <<>> = before
      /\ SubSeq(data, 1, Len(data)) = data
  BY <1>1, SubSeqEmpty, SubSeqFull, ConcatEmptySeq
<1>3. ASSUME NEW d \in Data, WriteNeedsRoom(d)
      PROVE  TInv'
  BY <1>3 DEF WriteNeedsRoom, Begin, CallWrite, TakenInCall, WriteTellsTaken
<1>4. ASSUME NEW d \in Data, WriteAppends(d)
      PROVE  TInv'
  <2>1. d \in Seq(Bytes) /\ SubSeq(d, 1, Len(d)) = d
    BY BytesAssumption, SubSeqFull
  <2>2. /\ pend' = pend \o d /\ taken' = taken \o d
        /\ data' = d /\ before' = taken
    BY <1>4 DEF WriteAppends, CallWrite
  <2>3. PICK newline \in SeesNewline(d) :
           IF newline THEN pc' = "newline" /\ UNCHANGED ret
                      ELSE Return("write", Len(d), OK)
    BY <1>4 DEF WriteAppends
  <2>4. CASE newline
    <3>1. pend' # <<>> => pend'[Len(pend')] = NL
      BY <2>2, <2>3, <2>4 DEF SeesNewline
    <3>. QED  BY <2>2, <2>3, <2>4, <3>1 DEF TakenInCall, WriteTellsTaken
  <2>5. CASE ~newline
    <3>1. pc' = "idle" /\ ret' = [op |-> "write", n |-> Len(d), err |-> OK]
      BY <2>3, <2>5 DEF Return
    <3>. QED  BY <2>1, <2>2, <3>1 DEF TakenInCall, WriteTellsTaken
  <2>. QED  BY <2>4, <2>5
<1>5. CASE Flush \/ Close
  BY <1>5 DEF Flush, Close, Begin, history, TakenInCall, WriteTellsTaken
<1>6. ASSUME NEW k \in 1 .. Len(pend), FlushSome(k)
      PROVE  TInv'
  <2>1. pend' # <<>> => pend'[Len(pend')] = pend[Len(pend)]
    <3>1. pend \in Seq(Bytes) /\ k \in 0 .. Len(pend)
          /\ pend' = SubSeq(pend, k + 1, Len(pend))
      BY <1>1, <1>6 DEF FlushSome
    <3>2. ASSUME SubSeq(pend, k + 1, Len(pend)) # <<>>
          PROVE  pend'[Len(pend')] = pend[Len(pend)]
      BY <3>1, <3>2, CutKeepsLast
    <3>. QED  BY <3>1, <3>2
  <2>2. pend # <<>>
    BY <1>1, <1>6, EmptySeq
  <2>. QED  BY <1>6, <2>1, <2>2 DEF FlushSome, Flushing, history,
                                    TakenInCall, WriteTellsTaken
<1>7. ASSUME NEW e \in Errs, FlushFails(e) \/ DirectFails(e)
      PROVE  TInv'
  BY <1>1, <1>2, <1>7, SMTT(30) DEF FlushFails, DirectFails, Return, history, buffer,
                          TakenInCall, WriteTellsTaken, TookAllReported0
<1>8. CASE FlushStalls
  BY <1>1, <1>2, <1>8 DEF FlushStalls, Return, history, buffer,
                          TakenInCall, WriteTellsTaken, TookAllReported0
<1>9. CASE FlushDone
  <2>1. UNCHANGED <<data, before>>
    BY <1>9 DEF FlushDone
  <2>2. CASE /\ pc' = "idle" /\ taken' = before \o data
             /\ ret' = [op |-> "write", n |-> Len(data), err |-> OK]
    BY <1>2, <2>1, <2>2 DEF TakenInCall, WriteTellsTaken
  <2>3. CASE pc' = "direct" /\ taken' = before
    BY <2>1, <2>3 DEF TakenInCall, WriteTellsTaken
  <2>4. CASE pc' = "closeRaw" \/ Return("flush", 0, OK)
    BY <2>4 DEF Return, TakenInCall, WriteTellsTaken
  <2>. QED  BY <1>9, <2>2, <2>3, <2>4 DEF FlushDone, Return, TakenInCall
<1>10. ASSUME NEW k \in 0 .. Len(data), DirectSome(k)
       PROVE  TInv'
  BY <1>10 DEF DirectSome, Return, TakenInCall, WriteTellsTaken
<1>11. ASSUME NEW e \in Errs \cup {OK}, CloseRaw(e)
       PROVE  TInv'
  BY <1>11 DEF CloseRaw, TakenInCall, WriteTellsTaken
<1>12. CASE UNCHANGED vars
  BY <1>12 DEF vars, buffer, history, TakenInCall, WriteTellsTaken,
               TookAllReported0
<1>. QED
  BY <1>3, <1>4, <1>5, <1>6, <1>7, <1>8, <1>9, <1>10, <1>11, <1>12
     DEF Next, Step

(***************************************************************************)
(* bf_write's result always says what was taken, but for the newline that  *)
(* could not be flushed.                                                   *)
(***************************************************************************)
THEOREM WriteReports == Spec => []WriteTellsTaken
<1>1. TInv => WriteTellsTaken
  BY DEF TInv
<1>. QED  BY InitIInv, NextIInv, InitTInv, NextTInv, <1>1, PTL DEF Spec

-----------------------------------------------------------------------------
(***************************************************************************)
(* Nothing has been flushed or closed at first.                            *)
(***************************************************************************)
LEMMA InitQuiet == Init => QuietMeansSent
BY DEF Init, QuietMeansSent

(***************************************************************************)
(* A flush comes back without an error, and a close goes on to the raw     *)
(* file, only from FlushDone, with nothing left, and from FlushStalls.     *)
(***************************************************************************)
LEMMA NextQuiet == QuietMeansSent /\ [Next]_vars => QuietMeansSent'
<1> SUFFICES ASSUME QuietMeansSent, [Next]_vars PROVE QuietMeansSent'
  OBVIOUS
<1> USE DEF QuietMeansSent
<1>1. ASSUME NEW d \in Data, WriteNeedsRoom(d) \/ WriteAppends(d)
      PROVE  QuietMeansSent'
  BY <1>1 DEF WriteNeedsRoom, WriteAppends, Begin, Return
<1>2. CASE Flush \/ Close
  BY <1>2 DEF Flush, Close, Begin
<1>3. ASSUME NEW k \in 1 .. Len(pend), FlushSome(k)
      PROVE  QuietMeansSent'
  BY <1>3 DEF FlushSome, Flushing
<1>4. ASSUME NEW k \in 0 .. Len(data), DirectSome(k)
      PROVE  QuietMeansSent'
  BY <1>4 DEF DirectSome, Return
<1>5. ASSUME NEW e \in Errs, FlushFails(e) \/ DirectFails(e)
      PROVE  QuietMeansSent'
  BY <1>5, ErrsAssumption DEF FlushFails, DirectFails, Return
<1>6. ASSUME NEW e \in Errs \cup {OK}, CloseRaw(e)
      PROVE  QuietMeansSent'
  BY <1>6 DEF CloseRaw, buffer
<1>7. CASE FlushStalls
  BY <1>7 DEF FlushStalls
<1>8. CASE FlushDone
  BY <1>8 DEF FlushDone, Return
<1>9. CASE UNCHANGED vars
  BY <1>9 DEF vars, buffer
<1>. QED
  BY <1>1, <1>2, <1>3, <1>4, <1>5, <1>6, <1>7, <1>8, <1>9 DEF Next, Step

(***************************************************************************)
(* A flush or close that reports no error has sent everything, or the raw  *)
(* file took nothing.                                                      *)
(***************************************************************************)
THEOREM QuietFlush == Spec => []QuietMeansSent
BY InitQuiet, NextQuiet, PTL DEF Spec

-----------------------------------------------------------------------------
(***************************************************************************)
(* Every step is a step of OutStream or moves no byte.                     *)
(***************************************************************************)
LEMMA StepRefines == IInv /\ [Next]_vars => [Out!OutNext]_(Out!outVars)
<1> SUFFICES ASSUME IInv, [Next]_vars PROVE [Out!OutNext]_(Out!outVars)
  OBVIOUS
<1> USE DEF Out!outVars
<1>1. pend \in Seq(Bytes) /\ sent \in Seq(Bytes) /\ data \in Seq(Bytes)
  BY DEF IInv, TypeOK
<1>2. ASSUME UNCHANGED <<pend, sent>>, pc # "closed", pc' # "closed"
      PROVE  [Out!OutNext]_(Out!outVars)
  BY <1>2
<1>3. ASSUME NEW d \in Data, WriteAppends(d)
      PROVE  [Out!OutNext]_(Out!outVars)
  <2>1. d \in Seq(Bytes)
    BY BytesAssumption
  <2>2. Out!Extends(pend, pend \o d)
    BY <1>1, <2>1, AppendKeepsPrefix DEF Out!Extends
  <2>3. pend' = pend \o d /\ sent' = sent /\ pc # "closed" /\ pc' # "closed"
    BY <1>3 DEF WriteAppends, Return
  <2>. QED  BY <2>2, <2>3 DEF Out!OutNext, Out!Take
<1>4. ASSUME NEW d \in Data, WriteNeedsRoom(d)
      PROVE  [Out!OutNext]_(Out!outVars)
  BY <1>2, <1>4 DEF WriteNeedsRoom, Begin, buffer
<1>5. CASE Flush \/ Close \/ FlushStalls
  BY <1>2, <1>5 DEF Flush, Close, FlushStalls, Begin, Return, buffer, Flushing
<1>6. ASSUME NEW e \in Errs, FlushFails(e) \/ DirectFails(e)
      PROVE  [Out!OutNext]_(Out!outVars)
  BY <1>2, <1>6 DEF FlushFails, DirectFails, Return, buffer, Flushing
<1>7. ASSUME NEW k \in 1 .. Len(pend), FlushSome(k)
      PROVE  [Out!OutNext]_(Out!outVars)
  BY <1>7 DEF FlushSome, Flushing, Out!OutNext, Out!Send
<1>8. CASE FlushDone
  <2>1. CASE pc' = "idle" /\ pend' = data
    <3>1. pend = <<>> /\ sent' = sent /\ pc # "closed"
      BY <1>8 DEF FlushDone, Flushing
    <3>2. Out!Extends(pend, pend \o data) /\ pend \o data = data
      BY <1>1, <3>1, AppendKeepsPrefix, ConcatEmptySeq DEF Out!Extends
    <3>. QED  BY <2>1, <3>1, <3>2 DEF Out!OutNext, Out!Take
  <2>2. CASE UNCHANGED pend
    BY <1>2, <1>8, <2>2 DEF FlushDone, Return, Flushing
  <2>. QED  BY <1>8, <2>1, <2>2 DEF FlushDone, Return
<1>9. ASSUME NEW k \in 0 .. Len(data), DirectSome(k)
      PROVE  [Out!OutNext]_(Out!outVars)
  <2>1. SubSeq(data, 1, k) \in Seq(Bytes)
    BY <1>1, Cut
  <2>2. Out!Extends(sent, sent \o SubSeq(data, 1, k))
    BY <1>1, <2>1, AppendKeepsPrefix DEF Out!Extends
  <2>3. pend = <<>> /\ pc # "closed" /\ pc' # "closed" /\ UNCHANGED pend
        /\ sent' = sent \o SubSeq(data, 1, k)
    BY <1>9 DEF DirectSome, Return, buffer, IInv, DirectWhenEmpty
  <2>. QED  BY <2>2, <2>3 DEF Out!OutNext, Out!PassThrough
<1>10. ASSUME NEW e \in Errs \cup {OK}, CloseRaw(e)
       PROVE  [Out!OutNext]_(Out!outVars)
  BY <1>10 DEF CloseRaw, buffer, Out!OutNext, Out!Shut
<1>11. CASE UNCHANGED vars
  BY <1>11 DEF vars, buffer
<1>. QED
  BY <1>3, <1>4, <1>5, <1>6, <1>7, <1>8, <1>9, <1>10, <1>11 DEF Next, Step

(***************************************************************************)
(* The write half of a BufferedFile implements the ordered output stream.  *)
(***************************************************************************)
THEOREM WriterImplementsOutStream == Spec => ImplementsOutStream
<1>1. Init => Out!OutInit
  BY DEF Init, Out!OutInit
<1>. QED  BY <1>1, InitIInv, NextIInv, StepRefines, PTL
          DEF Spec, ImplementsOutStream, Out!OutSpec
=============================================================================
