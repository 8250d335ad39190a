---------------------------- MODULE AtomicsProofs ---------------------------
(***************************************************************************)
(* The atomics, with every atomic_load MO_STRICT, are a sequentially       *)
(* consistent memory: for all threads, cells, values, fetch operations and *)
(* orders of the other calls.  The argument is that stores still under way *)
(* are always the last calls of their thread, so that they can be taken to *)
(* happen when they arrive.                                                *)
(***************************************************************************)
EXTENDS Atomics, SequenceTheorems, TLAPS

(***************************************************************************)
(* Appending changes no beginning of a sequence.                           *)
(***************************************************************************)
LEMMA AppendKeepsFront ==
  ASSUME NEW S, NEW s \in Seq(S), NEW e \in S, NEW n \in 0 .. Len(s)
  PROVE  SubSeq(Append(s, e), 1, n) = SubSeq(s, 1, n)
<1>1. Append(s, e) = s \o <<e>> /\ <<e>> \in Seq(S) /\ Len(s) \in Nat
  BY AppendIsConcat, LenProperties
<1>2. CASE n = 0
  BY <1>2, SubSeqEmpty
<1>3. CASE n # 0
  <2>1. n \in 1 .. Len(s) /\ 1 \in 1 .. Len(s)
    BY <1>1, <1>3
  <2>. QED  BY <1>1, <2>1, SubSeqOfConcat1
<1>. QED  BY <1>2, <1>3

(***************************************************************************)
(* A beginning that is one longer has one element more at its end.         *)
(***************************************************************************)
LEMMA FrontGrows ==
  ASSUME NEW S, NEW s \in Seq(S), NEW n \in 1 .. Len(s)
  PROVE  SubSeq(s, 1, n) = Append(SubSeq(s, 1, n - 1), s[n])
<1>1. Len(s) \in Nat /\ 1 \in 1 .. Len(s) /\ n \in 1 .. Len(s)
      /\ s[n] \in S /\ n - 1 \in 0 .. Len(s)
  BY LenProperties, ElementOfSeq
<1>2. SubSeq(s, 1, n) = SubSeq(s, 1, n - 1) \o <<s[n]>>
  BY <1>1, SubSeqRecursiveSecond
<1>3. SubSeq(s, 1, n - 1) \in Seq(S)
  <2>1. \A i \in 1 .. n - 1 : s[i] \in S
    BY <1>1, ElementOfSeq
  <2>2. 1 \in Int /\ n - 1 \in Int
    BY <1>1
  <2>. QED  BY <2>1, <2>2, SubSeqProperties
<1>. QED  BY <1>1, <1>2, <1>3, AppendIsConcat

-----------------------------------------------------------------------------

(***************************************************************************)
(* What a call is made of.                                                 *)
(***************************************************************************)
LEMMA CallParts ==
  ASSUME NEW c \in Calls
  PROVE  /\ c.op \in Movs \cup Instructions \cup Loops
         /\ c.cell \in Cells /\ c.arg \in Values
         /\ c.order \in Orders
BY CallsAssumption DEF AllCalls

(***************************************************************************)
(* Every operation leaves a value in its cell and returns one.             *)
(***************************************************************************)
LEMMA EffectTyped ==
  ASSUME NEW c \in Calls, NEW v \in Values
  PROVE  Effect(c, v) \in Values /\ Result(c, v) \in Values
<1>1. c.arg \in Values /\ c.op \in Movs \cup Instructions \cup Loops
  BY CallParts
<1>2. CASE c.op \in {"load", "store", "swap", "cas"}
  BY <1>1, <1>2 DEF Effect, Result
<1>3. CASE c.op \in {"add", "sub"} \cup Loops
  <2>1. Combine(c.op, v, c.arg) \in Values
    BY <1>1, <1>3, CombineAssumption
  <2>2. c.op \notin {"load", "store", "swap", "cas"}
    BY <1>3 DEF Loops
  <2>. QED  BY <2>1, <2>2 DEF Effect, Result
<1>. QED  BY <1>1, <1>2, <1>3 DEF Movs, Instructions

(***************************************************************************)
(* A fetch loop computes the effect of its operation.                      *)
(***************************************************************************)
LEMMA LoopEffect ==
  ASSUME NEW c \in Calls, NEW v, c.op \in Loops
  PROVE  Effect(c, v) = Combine(c.op, v, c.arg) /\ Result(c, v) = v
<1>1. c.op \notin {"load", "store", "swap", "cas"}
  BY DEF Loops
<1>. QED  BY <1>1 DEF Effect, Result

(***************************************************************************)
(* What a return does to the results of its thread and of the others.      *)
(***************************************************************************)
LEMMA Returned ==
  ASSUME TypeOK, NEW t \in Threads, NEW v \in Values, Return(t, v)
  PROVE  /\ [call |-> call[t], result |-> v] \in [call : Calls, result : Values]
         /\ done'[t] = Append(done[t], [call |-> call[t], result |-> v])
         /\ \A u \in Threads \ {t} : done'[u] = done[u]
         /\ done' \in [Threads -> Seq([call : Calls, result : Values])]
         /\ pc' = [pc EXCEPT ![t] = "idle"]
         /\ pc' \in [Threads -> PCs]
<1>1. /\ call[t] \in Calls
      /\ done \in [Threads -> Seq([call : Calls, result : Values])]
      /\ pc \in [Threads -> PCs]
  BY DEF TypeOK
<1> DEFINE r == [call |-> call[t], result |-> v]
<1>2. r \in [call : Calls, result : Values]
  BY <1>1
<1>3. done' = [done EXCEPT ![t] = Append(done[t], r)]
      /\ pc' = [pc EXCEPT ![t] = "idle"]
  BY DEF Return
<1> HIDE DEF r
<1>4. Append(done[t], r) \in Seq([call : Calls, result : Values])
  BY <1>1, <1>2, AppendProperties
<1>5. pc' \in [Threads -> PCs]
  BY <1>1, <1>3 DEF PCs
<1>6. /\ done'[t] = Append(done[t], r)
      /\ \A u \in Threads \ {t} : done'[u] = done[u]
      /\ done' \in [Threads -> Seq([call : Calls, result : Values])]
  BY <1>1, <1>3, <1>4
<1>. QED  BY <1>2, <1>3, <1>5, <1>6 DEF r

-----------------------------------------------------------------------------
(***************************************************************************)
(* Every step keeps the types.                                             *)
(***************************************************************************)
LEMMA TypeStep == TypeOK /\ InLoop /\ [Next]_vars => TypeOK'
<1> SUFFICES ASSUME TypeOK, InLoop, [Next]_vars PROVE TypeOK'
  OBVIOUS
<1>0. /\ mem \in [Cells -> Values]
      /\ buf \in [Threads -> Seq([cell : Cells, val : Values])]
      /\ pc \in [Threads -> PCs]
      /\ call \in [Threads -> Calls]
      /\ old \in [Threads -> Values]
      /\ done \in [Threads -> Seq([call : Calls, result : Values])]
  BY DEF TypeOK
<1>1. ASSUME NEW t \in Threads, NEW c \in Calls, Call(t, c)
      PROVE  TypeOK'
  <2>1. call' \in [Threads -> Calls] /\ pc' \in [Threads -> PCs]
    BY <1>0, <1>1 DEF Call, PCs
  <2>. QED  BY <1>0, <1>1, <2>1 DEF Call, TypeOK
<1>2. ASSUME NEW t \in Threads, Fence(t)
      PROVE  TypeOK'
  <2>1. pc' \in [Threads -> PCs]
    BY <1>0, <1>2 DEF Fence, PCs
  <2>. QED  BY <1>0, <1>2, <2>1 DEF Fence, TypeOK
<1>3. ASSUME NEW t \in Threads, AtomicLoad(t)
      PROVE  TypeOK'
  <2>1. PICK v \in Values : Return(t, v)
    BY <1>3 DEF AtomicLoad
  <2>2. done' \in [Threads -> Seq([call : Calls, result : Values])]
        /\ pc' \in [Threads -> PCs]
    BY <2>1, Returned
  <2>. QED  BY <1>0, <1>3, <2>2 DEF AtomicLoad, TypeOK
<1>4. ASSUME NEW t \in Threads, AtomicStore(t)
      PROVE  TypeOK'
  <2>1. call[t].cell \in Cells /\ call[t].arg \in Values
    BY <1>0, CallParts
  <2>2. done' \in [Threads -> Seq([call : Calls, result : Values])]
        /\ pc' \in [Threads -> PCs]
    BY <1>4, <2>1, Returned DEF AtomicStore
  <2> DEFINE s == [cell |-> call[t].cell, val |-> call[t].arg]
  <2>3. s \in [cell : Cells, val : Values]
    BY <2>1
  <2>4. buf' = [buf EXCEPT ![t] = Append(buf[t], s)]
    BY <1>4 DEF AtomicStore
  <2> HIDE DEF s
  <2>5. Append(buf[t], s) \in Seq([cell : Cells, val : Values])
    BY <1>0, <2>3, AppendProperties
  <2>6. buf' \in [Threads -> Seq([cell : Cells, val : Values])]
    BY <1>0, <2>4, <2>5
  <2>. QED  BY <1>0, <1>4, <2>2, <2>6 DEF AtomicStore, TypeOK
<1>5. ASSUME NEW t \in Threads, Locked(t)
      PROVE  TypeOK'
  <2>1. call[t] \in Calls /\ call[t].cell \in Cells /\ mem[call[t].cell] \in Values
    BY <1>0, CallParts
  <2>2. /\ Effect(call[t], mem[call[t].cell]) \in Values
        /\ Result(call[t], mem[call[t].cell]) \in Values
    BY <2>1, EffectTyped
  <2>3. /\ mem' = [mem EXCEPT ![call[t].cell] = Effect(call[t], mem[call[t].cell])]
        /\ Return(t, Result(call[t], mem[call[t].cell]))
        /\ UNCHANGED <<buf, call, old>>
    BY <1>5 DEF Locked
  <2>4. done' \in [Threads -> Seq([call : Calls, result : Values])]
        /\ pc' \in [Threads -> PCs]
    BY <2>2, <2>3, Returned
  <2>5. mem' \in [Cells -> Values]
    BY <1>0, <2>2, <2>3
  <2>. QED  BY <1>0, <2>3, <2>4, <2>5 DEF TypeOK
<1>6. ASSUME NEW t \in Threads, LoopLoad(t)
      PROVE  TypeOK'
  <2>1. pc' \in [Threads -> PCs] /\ old' \in [Threads -> Values]
    BY <1>0, <1>6 DEF LoopLoad, PCs
  <2>. QED  BY <1>0, <1>6, <2>1 DEF LoopLoad, TypeOK
<1>7. ASSUME NEW t \in Threads, Exchange(t)
      PROVE  TypeOK'
  <2>1. /\ call[t] \in Calls /\ call[t].cell \in Cells /\ old[t] \in Values
        /\ call[t].op \in Loops
    BY <1>0, <1>7, CallParts DEF Exchange, InLoop
  <2>2. Combine(call[t].op, old[t], call[t].arg) \in Values
    BY <2>1, CallParts, CombineAssumption
  <2>3. /\ mem' = [mem EXCEPT ![call[t].cell]
                     = Combine(call[t].op, old[t], call[t].arg)]
        /\ Return(t, old[t])
        /\ UNCHANGED <<buf, call, old>>
    BY <1>7 DEF Exchange
  <2>4. done' \in [Threads -> Seq([call : Calls, result : Values])]
        /\ pc' \in [Threads -> PCs]
    BY <2>1, <2>3, Returned
  <2>5. mem' \in [Cells -> Values]
    BY <1>0, <2>2, <2>3
  <2>. QED  BY <1>0, <2>3, <2>4, <2>5 DEF TypeOK
<1>8. ASSUME NEW t \in Threads, Refused(t)
      PROVE  TypeOK'
  <2>1. call[t].cell \in Cells
    BY <1>0, CallParts
  <2>2. old' \in [Threads -> Values]
    BY <1>0, <1>8, <2>1 DEF Refused
  <2>. QED  BY <1>0, <1>8, <2>2 DEF Refused, TypeOK
<1>9. ASSUME NEW t \in Threads, Drain(t)
      PROVE  TypeOK'
  <2>1. buf[t] # <<>> /\ buf[t] \in Seq([cell : Cells, val : Values])
    BY <1>0, <1>9 DEF Drain, Flushed
  <2>2. /\ Head(buf[t]) \in [cell : Cells, val : Values]
        /\ Tail(buf[t]) \in Seq([cell : Cells, val : Values])
    BY <2>1, HeadTailProperties
  <2>3. /\ mem' = [mem EXCEPT ![Head(buf[t]).cell] = Head(buf[t]).val]
        /\ buf' = [buf EXCEPT ![t] = Tail(buf[t])]
        /\ UNCHANGED <<pc, call, old, done>>
    BY <1>9 DEF Drain
  <2>4. mem' \in [Cells -> Values]
    BY <1>0, <2>2, <2>3
  <2>5. buf' \in [Threads -> Seq([cell : Cells, val : Values])]
    BY <1>0, <2>2, <2>3
  <2>. QED  BY <1>0, <2>3, <2>4, <2>5 DEF TypeOK
<1>10. CASE UNCHANGED vars
  BY <1>0, <1>10 DEF vars, TypeOK
<1>. QED
  BY <1>1, <1>2, <1>3, <1>4, <1>5, <1>6, <1>7, <1>8, <1>9, <1>10 DEF Next, Run

(***************************************************************************)
(* A thread comes to its compare-exchange from the load of a fetch loop.   *)
(***************************************************************************)
LEMMA LoopStep == TypeOK /\ InLoop /\ [Next]_vars => InLoop'
<1> SUFFICES ASSUME TypeOK, InLoop, [Next]_vars, NEW u \in Threads,
                    pc'[u] = "cmpxchg"
             PROVE  call'[u].op \in Loops
  BY DEF InLoop
<1>0. pc \in [Threads -> PCs] /\ call \in [Threads -> Calls]
  BY DEF TypeOK
<1>1. ASSUME pc[u] = "cmpxchg", call'[u] = call[u]
      PROVE  call'[u].op \in Loops
  BY <1>1 DEF InLoop
<1>2. ASSUME NEW t \in Threads, NEW c \in Calls, Call(t, c)
      PROVE  call'[u].op \in Loops
  <2>1. u # t
    BY <1>0, <1>2 DEF Call
  <2>. QED  BY <1>0, <1>1, <1>2, <2>1 DEF Call
<1>3. ASSUME NEW t \in Threads, NEW v, Return(t, v), call' = call
      PROVE  call'[u].op \in Loops
  BY <1>0, <1>1, <1>3 DEF Return
<1>4. ASSUME NEW t \in Threads, Run(t)
      PROVE  call'[u].op \in Loops
  <2>1. CASE Fence(t)
    BY <1>0, <1>1, <2>1 DEF Fence
  <2>2. CASE LoopLoad(t)
    BY <1>0, <1>1, <2>2 DEF LoopLoad, At
  <2>3. CASE Refused(t)
    BY <1>1, <2>3 DEF Refused
  <2>4. CASE AtomicLoad(t)
    BY <1>3, <2>4 DEF AtomicLoad
  <2>5. CASE AtomicStore(t)
    BY <1>3, <2>5 DEF AtomicStore
  <2>6. CASE Locked(t)
    BY <1>3, <2>6 DEF Locked
  <2>7. CASE Exchange(t)
    BY <1>3, <2>7 DEF Exchange
  <2>. QED  BY <1>4, <2>1, <2>2, <2>3, <2>4, <2>5, <2>6, <2>7 DEF Run
<1>5. ASSUME NEW t \in Threads, Drain(t)
      PROVE  call'[u].op \in Loops
  BY <1>1, <1>5 DEF Drain
<1>6. CASE UNCHANGED vars
  BY <1>1, <1>6 DEF vars
<1>. QED  BY <1>2, <1>4, <1>5, <1>6 DEF Next

(***************************************************************************)
(* What the atomics start from.                                            *)
(***************************************************************************)
LEMMA InitTypes == Init => TypeOK /\ InLoop
<1> SUFFICES ASSUME Init PROVE TypeOK /\ InLoop
  OBVIOUS
<1>1. (CHOOSE c \in Calls : TRUE) \in Calls /\ Initial \in Values
  BY CallsAssumption
<1>2. /\ <<>> \in Seq([cell : Cells, val : Values])
      /\ <<>> \in Seq([call : Calls, result : Values])
  BY EmptySeq
<1>3. call \in [Threads -> Calls]
  BY <1>1 DEF Init
<1>4. mem \in [Cells -> Values] /\ old \in [Threads -> Values]
  BY <1>1 DEF Init
<1>5. /\ buf \in [Threads -> Seq([cell : Cells, val : Values])]
      /\ done \in [Threads -> Seq([call : Calls, result : Values])]
  BY <1>2 DEF Init
<1>6. pc \in [Threads -> PCs] /\ InLoop
  BY DEF Init, PCs, InLoop
<1>. QED  BY <1>3, <1>4, <1>5, <1>6 DEF TypeOK

(***************************************************************************)
(* Cells, stores under way, locals and results keep their types: in        *)
(* particular every operation stays within the values of its type.         *)
(***************************************************************************)
THEOREM TypeCorrect == Spec => []TypeOK
<1>1. TypeOK /\ InLoop /\ [Next]_vars => TypeOK' /\ InLoop'
  BY TypeStep, LoopStep
<1>. QED  BY InitTypes, <1>1, PTL DEF Spec

-----------------------------------------------------------------------------
(***************************************************************************)
(* A thread about to load has no store under way: a strict load was        *)
(* fenced, and the thread has stored nothing since.                        *)
(***************************************************************************)
LEMMA FencedStep ==
  ASSUME LoadsAreStrict, TypeOK, LoadsAreFenced, [Next]_vars
  PROVE  LoadsAreFenced'
<1> SUFFICES ASSUME NEW u \in Threads, pc'[u] = "instr", call'[u].op = "load"
             PROVE  buf'[u] = <<>>
  BY DEF LoadsAreFenced, At, Flushed
<1>0. /\ pc \in [Threads -> PCs] /\ call \in [Threads -> Calls]
      /\ buf \in [Threads -> Seq([cell : Cells, val : Values])]
  BY DEF TypeOK
<1>1. ASSUME pc[u] = "instr", call[u].op = "load", buf'[u] = buf[u]
      PROVE  buf'[u] = <<>>
  BY <1>1 DEF LoadsAreFenced, At, Flushed
<1>2. ASSUME NEW t \in Threads, NEW c \in Calls, Call(t, c)
      PROVE  buf'[u] = <<>>
  <2>1. CASE u = t
    BY <1>0, <1>2, <2>1 DEF Call, LoadsAreStrict
  <2>2. CASE u # t
    BY <1>0, <1>1, <1>2, <2>2 DEF Call
  <2>. QED  BY <2>1, <2>2
<1>3. ASSUME NEW t \in Threads, Fence(t)
      PROVE  buf'[u] = <<>>
  <2>1. CASE u = t
    BY <1>3, <2>1 DEF Fence, Flushed
  <2>2. CASE u # t
    BY <1>0, <1>1, <1>3, <2>2 DEF Fence
  <2>. QED  BY <2>1, <2>2
<1>4. ASSUME NEW t \in Threads, NEW v, Return(t, v), call' = call,
             \A w \in Threads \ {t} : buf'[w] = buf[w]
      PROVE  buf'[u] = <<>>
  <2>1. u # t
    BY <1>0, <1>4 DEF Return
  <2>. QED  BY <1>0, <1>1, <1>4, <2>1 DEF Return
<1>5. ASSUME NEW t \in Threads, LoopLoad(t) \/ Refused(t)
      PROVE  buf'[u] = <<>>
  BY <1>0, <1>1, <1>5 DEF LoopLoad, Refused
<1>6. ASSUME NEW t \in Threads, AtomicStore(t)
      PROVE  buf'[u] = <<>>
  <2>1. \A w \in Threads \ {t} : buf'[w] = buf[w]
    BY <1>0, <1>6 DEF AtomicStore
  <2>. QED  BY <1>4, <1>6, <2>1 DEF AtomicStore
<1>7. ASSUME NEW t \in Threads, AtomicLoad(t)
      PROVE  buf'[u] = <<>>
  BY <1>4, <1>7 DEF AtomicLoad
<1>8. ASSUME NEW t \in Threads, Locked(t)
      PROVE  buf'[u] = <<>>
  BY <1>4, <1>8 DEF Locked
<1>9. ASSUME NEW t \in Threads, Exchange(t)
      PROVE  buf'[u] = <<>>
  BY <1>4, <1>9 DEF Exchange
<1>10. ASSUME NEW t \in Threads, Drain(t)
       PROVE  buf'[u] = <<>>
  <2>1. u # t
    BY <1>10 DEF Drain, LoadsAreFenced, At
  <2>. QED  BY <1>0, <1>1, <1>10, <2>1 DEF Drain
<1>11. CASE UNCHANGED vars
  BY <1>1, <1>11 DEF vars
<1>. QED
  BY <1>2, <1>3, <1>5, <1>6, <1>7, <1>8, <1>9, <1>10, <1>11 DEF Next, Run

(***************************************************************************)
(* A step that carries out its thread's whole call on the cell, with no    *)
(* store of the thread's under way.                                        *)
(***************************************************************************)
Performs(t) ==
  LET c == call[t] IN
  /\ Flushed(t)
  /\ mem' = [mem EXCEPT ![c.cell] = Effect(c, mem[c.cell])]
  /\ Return(t, Result(c, mem[c.cell]))
  /\ UNCHANGED buf

(***************************************************************************)
(* Every step performs a call, stores, drains, or shows nothing: a fetch   *)
(* loop performs its call when its compare-exchange succeeds.              *)
(***************************************************************************)
LEMMA StepKinds ==
  ASSUME TypeOK, InLoop, LoadsAreFenced, [Next]_vars
  PROVE  \/ UNCHANGED <<mem, buf, done>>
         \/ \E t \in Threads : Performs(t)
         \/ \E t \in Threads : AtomicStore(t)
         \/ \E t \in Threads : Drain(t)
<1>0. /\ mem \in [Cells -> Values] /\ call \in [Threads -> Calls]
      /\ \A t \in Threads : call[t].cell \in Cells
  BY CallParts DEF TypeOK
<1>1. ASSUME NEW t \in Threads, AtomicLoad(t)
      PROVE  Performs(t)
  <2>1. call[t].op = "load" /\ Flushed(t)
    BY <1>1 DEF AtomicLoad, At, LoadsAreFenced
  <2>2. Len(buf[t]) = 0
    BY <2>1, EmptySeq DEF Flushed
  <2>3. PICK v \in Values : Reads(t, call[t].cell, v) /\ Return(t, v)
    BY <1>1 DEF AtomicLoad
  <2>4. v = mem[call[t].cell]
    BY <2>2, <2>3 DEF Reads
  <2>5. /\ Effect(call[t], mem[call[t].cell]) = mem[call[t].cell]
        /\ Result(call[t], mem[call[t].cell]) = mem[call[t].cell]
    BY <2>1 DEF Effect, Result
  <2>6. mem' = mem /\ buf' = buf
    BY <1>1 DEF AtomicLoad
  <2>. QED  BY <1>0, <2>1, <2>3, <2>4, <2>5, <2>6 DEF Performs
<1>2. ASSUME NEW t \in Threads, Locked(t)
      PROVE  Performs(t)
  BY <1>2 DEF Locked, Performs
<1>3. ASSUME NEW t \in Threads, Exchange(t)
      PROVE  Performs(t)
  <2>1. /\ call[t] \in Calls /\ call[t].op \in Loops
        /\ mem[call[t].cell] = old[t]
    BY <1>0, <1>3 DEF Exchange, InLoop
  <2>2. /\ Effect(call[t], old[t]) = Combine(call[t].op, old[t], call[t].arg)
        /\ Result(call[t], old[t]) = old[t]
    BY <2>1, LoopEffect
  <2>. QED  BY <1>3, <2>1, <2>2 DEF Exchange, Performs
<1>4. ASSUME NEW t \in Threads,
             \/ Fence(t) \/ LoopLoad(t) \/ Refused(t)
             \/ \E c \in Calls : Call(t, c)
      PROVE  UNCHANGED <<mem, buf, done>>
  BY <1>4 DEF Fence, LoopLoad, Refused, Call
<1>5. CASE UNCHANGED vars
  BY <1>5 DEF vars
<1>. QED  BY <1>1, <1>2, <1>3, <1>4, <1>5 DEF Next, Run

-----------------------------------------------------------------------------
(***************************************************************************)
(* The stores under way stay the last calls of their thread: a call that   *)
(* is not a store returns only when none is under way.                     *)
(***************************************************************************)
LEMMA PendStep ==
  ASSUME TypeOK, InLoop, LoadsAreFenced, PendingAreLast, [Next]_vars
  PROVE  PendingAreLast'
<1> SUFFICES ASSUME NEW u \in Threads PROVE LastOnesPend(u)'
  BY DEF PendingAreLast
<1>0. /\ LastOnesPend(u)
      /\ buf \in [Threads -> Seq([cell : Cells, val : Values])]
      /\ done \in [Threads -> Seq([call : Calls, result : Values])]
      /\ Len(buf[u]) \in Nat /\ Len(done[u]) \in Nat
      /\ mem \in [Cells -> Values] /\ call \in [Threads -> Calls]
  BY LenProperties DEF TypeOK, PendingAreLast
<1>1. ASSUME buf'[u] = buf[u], done'[u] = done[u]
      PROVE  LastOnesPend(u)'
  BY <1>0, <1>1 DEF LastOnesPend, Pending
<1>2. ASSUME NEW t \in Threads, Performs(t)
      PROVE  LastOnesPend(u)'
  <2>1. Result(call[t], mem[call[t].cell]) \in Values
    BY <1>0, CallParts, EffectTyped
  <2>2. \A w \in Threads \ {t} : done'[w] = done[w]
    BY <1>2, <2>1, Returned DEF Performs
  <2>3. CASE u # t
    BY <1>1, <1>2, <2>2, <2>3 DEF Performs
  <2>4. CASE u = t
    <3>1. buf'[u] = <<>> /\ Len(buf'[u]) = 0
      BY <1>2, <2>4, EmptySeq DEF Performs, Flushed
    <3>2. done'[u] = Append(done[u], [call |-> call[u],
                                      result |-> Result(call[u], mem[call[u].cell])])
      BY <1>2, <2>1, <2>4, Returned DEF Performs
    <3>3. Len(done'[u]) \in Nat
      <4>1. done' \in [Threads -> Seq([call : Calls, result : Values])]
        BY <1>2, <2>1, Returned DEF Performs
      <4>. QED  BY <4>1, LenProperties
    <3>. QED  BY <3>1, <3>3 DEF LastOnesPend
  <2>. QED  BY <2>3, <2>4
<1>3. ASSUME NEW t \in Threads, AtomicStore(t)
      PROVE  LastOnesPend(u)'
  <2>1. /\ call[t].op = "store" /\ Return(t, call[t].arg)
        /\ call[t].cell \in Cells /\ call[t].arg \in Values
    BY <1>0, <1>3, CallParts DEF AtomicStore, At
  <2>2. CASE u # t
    <3>1. buf'[u] = buf[u] /\ done'[u] = done[u]
      BY <1>0, <1>3, <2>1, <2>2, Returned DEF AtomicStore
    <3>. QED  BY <1>1, <3>1
  <2>3. CASE u = t
    <3> DEFINE r == [call |-> call[u], result |-> call[u].arg]
               b == [cell |-> call[u].cell, val |-> call[u].arg]
    <3>1. /\ r \in [call : Calls, result : Values]
          /\ done'[u] = Append(done[u], r)
      BY <2>1, <2>3, Returned
    <3>2. buf' = [buf EXCEPT ![u] = Append(buf[u], b)] /\ b \in [cell : Cells, val : Values]
      BY <1>3, <2>1, <2>3 DEF AtomicStore
    <3>3. /\ r.call.op = "store" /\ r.call.cell = b.cell /\ r.call.arg = b.val
          /\ r.result = r.call.arg
      BY <2>1, <2>3
    <3> HIDE DEF r, b
    <3>4. /\ Len(done'[u]) = Len(done[u]) + 1
          /\ \A i \in 1 .. Len(done[u]) : done'[u][i] = done[u][i]
          /\ done'[u][Len(done[u]) + 1] = r
      BY <1>0, <3>1, AppendProperties
    <3>5. /\ Len(buf'[u]) = Len(buf[u]) + 1
          /\ \A i \in 1 .. Len(buf[u]) : buf'[u][i] = buf[u][i]
          /\ buf'[u][Len(buf[u]) + 1] = b
      BY <1>0, <3>2, AppendProperties
    <3>6. Len(buf[u]) <= Len(done[u])
      BY <1>0 DEF LastOnesPend
    <3>7. ASSUME NEW i \in 1 .. Len(buf'[u])
          PROVE  LET p == Pending(u, i)' IN
                 /\ p.call.op = "store"
                 /\ p.call.cell = buf'[u][i].cell
                 /\ p.call.arg = buf'[u][i].val
                 /\ p.result = p.call.arg
      <4>1. CASE i = Len(buf[u]) + 1
        <5>1. Len(done'[u]) - Len(buf'[u]) + i = Len(done[u]) + 1
          BY <1>0, <3>4, <3>5, <4>1
        <5>2. Pending(u, i)' = r /\ buf'[u][i] = b
          BY <3>4, <3>5, <4>1, <5>1 DEF Pending
        <5>. QED  BY <3>3, <5>2
      <4>2. CASE i # Len(buf[u]) + 1
        <5>1. /\ i \in 1 .. Len(buf[u])
              /\ Len(done'[u]) - Len(buf'[u]) + i = Len(done[u]) - Len(buf[u]) + i
              /\ Len(done[u]) - Len(buf[u]) + i \in 1 .. Len(done[u])
          BY <1>0, <3>4, <3>5, <3>6, <4>2
        <5>2. Pending(u, i)' = Pending(u, i) /\ buf'[u][i] = buf[u][i]
          BY <3>4, <3>5, <5>1 DEF Pending
        <5>. QED  BY <1>0, <5>1, <5>2 DEF LastOnesPend
      <4>. QED  BY <4>1, <4>2
    <3>8. Len(buf'[u]) <= Len(done'[u])
      BY <1>0, <3>4, <3>5, <3>6
    <3>. QED  BY <3>7, <3>8 DEF LastOnesPend
  <2>. QED  BY <2>2, <2>3
<1>4. ASSUME NEW t \in Threads, Drain(t)
      PROVE  LastOnesPend(u)'
  <2>1. done' = done /\ buf' = [buf EXCEPT ![t] = Tail(buf[t])] /\ buf[t] # <<>>
    BY <1>4 DEF Drain, Flushed
  <2>2. CASE u # t
    BY <1>0, <1>1, <2>1, <2>2
  <2>3. CASE u = t
    <3>1. /\ Len(buf'[u]) = Len(buf[u]) - 1
          /\ \A i \in 1 .. Len(buf'[u]) : buf'[u][i] = buf[u][i + 1]
          /\ buf'[u] = Tail(buf[u])
      BY <1>0, <2>1, <2>3, HeadTailProperties
    <3>2. Len(buf[u]) <= Len(done[u]) /\ Len(buf[u]) # 0
      BY <1>0, <2>1, <2>3, EmptySeq DEF LastOnesPend
    <3>3. ASSUME NEW i \in 1 .. Len(buf'[u])
          PROVE  LET p == Pending(u, i)' IN
                 /\ p.call.op = "store"
                 /\ p.call.cell = buf'[u][i].cell
                 /\ p.call.arg = buf'[u][i].val
                 /\ p.result = p.call.arg
      <4>1. /\ i + 1 \in 1 .. Len(buf[u])
            /\ Len(done'[u]) - Len(buf'[u]) + i = Len(done[u]) - Len(buf[u]) + (i + 1)
        <5>1. /\ Len(done'[u]) = Len(done[u]) /\ Len(done[u]) \in Nat
              /\ Len(buf'[u]) = Len(buf[u]) - 1 /\ Len(buf[u]) \in Nat
              /\ i \in 1 .. Len(buf[u]) - 1
          BY <1>0, <2>1, <3>1
        <5>2. \A n, m \in Nat : \A j \in 1 .. m - 1 :
                 /\ j + 1 \in 1 .. m
                 /\ n - (m - 1) + j = n - m + (j + 1)
          OBVIOUS
        <5>. QED  BY <5>1, <5>2
      <4>2. Pending(u, i)' = Pending(u, i + 1) /\ buf'[u][i] = buf[u][i + 1]
        BY <2>1, <3>1, <4>1 DEF Pending
      <4>. QED  BY <1>0, <4>1, <4>2 DEF LastOnesPend
    <3>4. Len(buf'[u]) <= Len(done'[u])
      BY <1>0, <2>1, <3>1, <3>2
    <3>. QED  BY <3>3, <3>4 DEF LastOnesPend
  <2>. QED  BY <2>2, <2>3
<1>. QED  BY <1>1, <1>2, <1>3, <1>4, StepKinds

(***************************************************************************)
(* The inductive invariant.                                                *)
(***************************************************************************)
LEMMA InitIInv == Init => IInv
<1> SUFFICES ASSUME Init PROVE PendingAreLast /\ LoadsAreFenced
  BY InitTypes DEF IInv
<1>1. \A t \in Threads : buf[t] = <<>> /\ done[t] = <<>>
  BY DEF Init
<1>2. PendingAreLast
  <2>1. \A t \in Threads : Len(buf[t]) = 0 /\ Len(done[t]) = 0
    BY <1>1, EmptySeq
  <2>2. 0 <= 0 /\ \A i \in 1 .. 0 : FALSE
    OBVIOUS
  <2>. QED  BY <2>1, <2>2, Zenon DEF PendingAreLast, LastOnesPend
<1>3. LoadsAreFenced
  BY <1>1 DEF LoadsAreFenced, Flushed
<1>. QED  BY <1>2, <1>3

(***************************************************************************)
(* Every step keeps it, when every atomic_load is strict.                  *)
(***************************************************************************)
LEMMA IInvStep ==
  ASSUME LoadsAreStrict, IInv, [Next]_vars
  PROVE  IInv'
<1>1. TypeOK' /\ InLoop'
  BY TypeStep, LoopStep DEF IInv
<1>2. LoadsAreFenced'
  BY FencedStep DEF IInv
<1>3. PendingAreLast'
  BY PendStep DEF IInv
<1>. QED  BY <1>1, <1>2, <1>3 DEF IInv

(***************************************************************************)
(* When every atomic_load is strict, what a thread still has under way are *)
(* the stores of its last calls: no later call of it has returned.         *)
(***************************************************************************)
THEOREM StoresPendLast ==
  ASSUME LoadsAreStrict
  PROVE  Spec => []PendingAreLast
<1>1. LoadsAreStrict
  OBVIOUS
<1>2. IInv /\ [Next]_vars => IInv'
  BY <1>1, IInvStep
<1>3. IInv => PendingAreLast
  BY DEF IInv
<1>. QED  BY InitIInv, <1>2, <1>3, PTL DEF Spec

-----------------------------------------------------------------------------
(***************************************************************************)
(* How many of a thread's calls arrived: all of them when nothing is under *)
(* way.                                                                    *)
(***************************************************************************)
LEMMA ArrivedTyped ==
  ASSUME TypeOK, PendingAreLast, NEW t \in Threads
  PROVE  /\ Len(done[t]) \in Nat /\ Len(buf[t]) \in Nat
         /\ Len(done[t]) - Len(buf[t]) \in 0 .. Len(done[t])
         /\ Arrived[t] = SubSeq(done[t], 1, Len(done[t]) - Len(buf[t]))
         /\ buf[t] = <<>> => Arrived[t] = done[t]
<1>1. /\ done[t] \in Seq([call : Calls, result : Values])
      /\ Len(done[t]) \in Nat /\ Len(buf[t]) \in Nat
      /\ Len(buf[t]) <= Len(done[t])
  BY LenProperties DEF TypeOK, PendingAreLast, LastOnesPend
<1>2. ASSUME buf[t] = <<>> PROVE Arrived[t] = done[t]
  <2>1. Len(buf[t]) = 0
    BY <1>2, EmptySeq
  <2>2. Len(done[t]) - Len(buf[t]) = Len(done[t])
    BY <1>1, <2>1
  <2>. QED  BY <1>1, <2>2, SubSeqFull DEF Arrived
<1>3. Arrived[t] = SubSeq(done[t], 1, Len(done[t]) - Len(buf[t]))
  BY DEF Arrived
<1>4. Len(done[t]) - Len(buf[t]) \in 0 .. Len(done[t])
  <2>1. \A m, n \in Nat : m <= n => n - m \in 0 .. n
    OBVIOUS
  <2>. QED  BY <1>1, <2>1
<1>. QED  BY <1>1, <1>2, <1>3, <1>4

(***************************************************************************)
(* The calls that arrived for a thread change only with its buffer or its  *)
(* returns.                                                                *)
(***************************************************************************)
LEMMA ArrivedExcept ==
  ASSUME NEW t \in Threads, NEW e,
         \A u \in Threads \ {t} : buf'[u] = buf[u] /\ done'[u] = done[u],
         Arrived'[t] = e
  PROVE  Arrived' = [Arrived EXCEPT ![t] = e]
<1>1. \A u \in Threads \ {t} : Arrived'[u] = Arrived[u]
  BY DEF Arrived
<1>. QED  BY <1>1 DEF Arrived

(***************************************************************************)
(* A thread's whole call is one operation of the sequentially consistent   *)
(* memory.                                                                 *)
(***************************************************************************)
LEMMA PerformsOne ==
  ASSUME TypeOK, PendingAreLast, NEW t \in Threads, Performs(t)
  PROVE  SC!Perform(t, call[t])
<1> DEFINE c == call[t]
           r == [call |-> c, result |-> Result(c, mem[c.cell])]
<1>0. /\ c \in Calls /\ mem[c.cell] \in Values
      /\ \A u \in Threads : done[u] \in Seq([call : Calls, result : Values])
  BY CallParts DEF TypeOK
<1>1. /\ r \in [call : Calls, result : Values]
      /\ done'[t] = Append(done[t], r)
      /\ \A u \in Threads \ {t} : done'[u] = done[u]
      /\ done' \in [Threads -> Seq([call : Calls, result : Values])]
  BY <1>0, EffectTyped, Returned DEF Performs
<1>2. buf' = buf /\ buf[t] = <<>> /\ Len(buf'[t]) = 0
  BY EmptySeq DEF Performs, Flushed
<1>3. Arrived[t] = done[t]
  BY <1>2, ArrivedTyped
<1>4. Arrived'[t] = done'[t]
  <2>1. Len(done'[t]) - Len(buf'[t]) = Len(done'[t])
    BY <1>1, <1>2, LenProperties
  <2>2. SubSeq(done'[t], 1, Len(done'[t])) = done'[t]
    BY <1>1, SubSeqFull
  <2>. QED  BY <2>1, <2>2 DEF Arrived
<1>5. Arrived' = [Arrived EXCEPT ![t] = Append(Arrived[t], r)]
  <2> HIDE DEF r
  <2>. QED  BY <1>1, <1>2, <1>3, <1>4, ArrivedExcept
<1>. QED  BY <1>5 DEF Performs, SC!Perform

(***************************************************************************)
(* When the oldest store under way arrives, the memory takes the store of  *)
(* the first of the thread's calls that had not arrived.                   *)
(***************************************************************************)
LEMMA DrainStores ==
  ASSUME TypeOK, PendingAreLast, NEW t \in Threads, Drain(t)
  PROVE  \E c \in Calls : SC!Perform(t, c)
<1> DEFINE n == Len(done[t]) - Len(buf[t]) + 1
           p == done[t][n]
           c == p.call
<1>0. /\ done[t] \in Seq([call : Calls, result : Values])
      /\ buf[t] \in Seq([cell : Cells, val : Values])
      /\ Len(done[t]) \in Nat /\ Len(buf[t]) \in Nat
      /\ Len(buf[t]) <= Len(done[t]) /\ buf[t] # <<>>
  BY LenProperties DEF TypeOK, PendingAreLast, LastOnesPend, Drain, Flushed
<1>1. /\ Len(buf[t]) # 0 /\ Head(buf[t]) = buf[t][1]
      /\ Len(Tail(buf[t])) = Len(buf[t]) - 1
  BY <1>0, EmptySeq, HeadTailProperties
<1>2. /\ 1 \in 1 .. Len(buf[t]) /\ n \in 1 .. Len(done[t])
      /\ n - 1 = Len(done[t]) - Len(buf[t])
      /\ Len(done[t]) - (Len(buf[t]) - 1) = n
  <2>1. \A i, j \in Nat : i # 0 /\ i <= j =>
           /\ 1 \in 1 .. i /\ j - i + 1 \in 1 .. j
           /\ (j - i + 1) - 1 = j - i /\ j - (i - 1) = j - i + 1
    OBVIOUS
  <2>. QED  BY <1>0, <1>1, <2>1
<1>3. p \in [call : Calls, result : Values] /\ c \in Calls
  <2> HIDE DEF n
  <2>1. p \in [call : Calls, result : Values]
    BY <1>0, <1>2, ElementOfSeq
  <2>. QED  BY <2>1
<1>4. /\ c.op = "store" /\ c.cell = Head(buf[t]).cell
      /\ c.arg = Head(buf[t]).val /\ p.result = c.arg
  BY <1>1, <1>2 DEF PendingAreLast, LastOnesPend, Pending
<1>5. /\ Effect(c, mem[c.cell]) = Head(buf[t]).val
      /\ Result(c, mem[c.cell]) = p.result
  BY <1>4 DEF Effect, Result
<1>6. p = [call |-> c, result |-> Result(c, mem[c.cell])]
  BY <1>3, <1>5
<1>7. mem' = [mem EXCEPT ![c.cell] = Effect(c, mem[c.cell])]
  BY <1>4, <1>5 DEF Drain
<1>8. /\ done' = done /\ buf'[t] = Tail(buf[t])
      /\ \A u \in Threads \ {t} : buf'[u] = buf[u]
  BY DEF Drain, TypeOK
<1>9. Arrived'[t] = Append(Arrived[t], p)
  <2>1. Arrived'[t] = SubSeq(done[t], 1, n)
    BY <1>1, <1>2, <1>8 DEF Arrived
  <2>2. Arrived[t] = SubSeq(done[t], 1, n - 1)
    BY <1>2 DEF Arrived
  <2> HIDE DEF n
  <2>3. SubSeq(done[t], 1, n) = Append(SubSeq(done[t], 1, n - 1), done[t][n])
    BY <1>0, <1>2, FrontGrows
  <2>. QED  BY <2>1, <2>2, <2>3
<1>10. Arrived' = [Arrived EXCEPT ![t] = Append(Arrived[t], p)]
  <2> HIDE DEF p
  <2>. QED  BY <1>8, <1>9, ArrivedExcept
<1>11. SC!Perform(t, c)
  BY <1>6, <1>7, <1>10 DEF SC!Perform
<1>. QED  BY <1>3, <1>11

(***************************************************************************)
(* A store that has returned and not arrived changes nothing in the        *)
(* sequentially consistent memory.                                         *)
(***************************************************************************)
LEMMA StoreIsSilent ==
  ASSUME TypeOK, PendingAreLast, NEW t \in Threads, AtomicStore(t)
  PROVE  mem' = mem /\ Arrived' = Arrived
<1> DEFINE r == [call |-> call[t], result |-> call[t].arg]
           b == [cell |-> call[t].cell, val |-> call[t].arg]
<1>0. /\ done[t] \in Seq([call : Calls, result : Values])
      /\ buf \in [Threads -> Seq([cell : Cells, val : Values])]
      /\ call[t].cell \in Cells /\ call[t].arg \in Values
  BY CallParts DEF TypeOK
<1>1. /\ r \in [call : Calls, result : Values]
      /\ done'[t] = Append(done[t], r)
      /\ \A u \in Threads \ {t} : done'[u] = done[u]
  BY <1>0, Returned DEF AtomicStore
<1>2. /\ mem' = mem /\ b \in [cell : Cells, val : Values]
      /\ buf' = [buf EXCEPT ![t] = Append(buf[t], b)]
  BY <1>0 DEF AtomicStore
<1> HIDE DEF r, b
<1>3. /\ Len(done[t]) \in Nat /\ Len(buf[t]) \in Nat
      /\ Len(done'[t]) = Len(done[t]) + 1 /\ Len(buf'[t]) = Len(buf[t]) + 1
  BY <1>0, <1>1, <1>2, AppendProperties, LenProperties
<1>4. Len(done'[t]) - Len(buf'[t]) = Len(done[t]) - Len(buf[t])
  <2>1. \A i, j \in Nat : (j + 1) - (i + 1) = j - i
    OBVIOUS
  <2>. QED  BY <1>3, <2>1
<1>5. Len(done[t]) - Len(buf[t]) \in 0 .. Len(done[t])
  BY ArrivedTyped
<1>6. Arrived'[t] = Arrived[t]
  <2>1. SubSeq(Append(done[t], r), 1, Len(done[t]) - Len(buf[t]))
          = SubSeq(done[t], 1, Len(done[t]) - Len(buf[t]))
    BY <1>0, <1>1, <1>5, AppendKeepsFront
  <2>. QED  BY <1>1, <1>4, <2>1 DEF Arrived
<1>7. Arrived' = [Arrived EXCEPT ![t] = Arrived[t]]
  BY <1>0, <1>1, <1>2, <1>6, ArrivedExcept
<1>. QED  BY <1>2, <1>7 DEF Arrived

(***************************************************************************)
(* Every step is one operation of the sequentially consistent memory, or   *)
(* nothing to it: the fetch loops' retries and fences, and new stores.     *)
(***************************************************************************)
LEMMA StepRefines ==
  ASSUME IInv, [Next]_vars
  PROVE  [SC!SeqNext]_<<mem, Arrived>>
<1>0. TypeOK /\ InLoop /\ LoadsAreFenced /\ PendingAreLast
  BY DEF IInv
<1>1. CASE UNCHANGED <<mem, buf, done>>
  BY <1>1 DEF Arrived
<1>2. ASSUME NEW t \in Threads, Performs(t)
      PROVE  SC!SeqNext
  BY <1>0, <1>2, PerformsOne DEF SC!SeqNext, TypeOK
<1>3. ASSUME NEW t \in Threads, AtomicStore(t)
      PROVE  UNCHANGED <<mem, Arrived>>
  BY <1>0, <1>3, StoreIsSilent
<1>4. ASSUME NEW t \in Threads, Drain(t)
      PROVE  SC!SeqNext
  BY <1>0, <1>4, DrainStores DEF SC!SeqNext
<1>. QED  BY <1>0, <1>1, <1>2, <1>3, <1>4, StepKinds

(***************************************************************************)
(* No call has arrived at the start.                                       *)
(***************************************************************************)
LEMMA InitRefines == Init => SC!SeqInit
<1> SUFFICES ASSUME Init PROVE SC!SeqInit
  OBVIOUS
<1>1. \A t \in Threads : done[t] = <<>> /\ buf[t] = <<>>
  BY DEF Init
<1>2. \A t \in Threads : Arrived[t] = <<>>
  <2>1. TypeOK /\ PendingAreLast
    BY InitIInv DEF IInv
  <2>. QED  BY <1>1, <2>1, ArrivedTyped
<1>. QED  BY <1>2 DEF Init, Arrived, SC!SeqInit

(***************************************************************************)
(* When every atomic_load is strict, the atomics are a sequentially        *)
(* consistent memory, and a fetch loop is one operation on it, whatever    *)
(* the order of the other calls is and whatever the loop computes.         *)
(***************************************************************************)
THEOREM AtomicsAreSequential ==
  ASSUME LoadsAreStrict
  PROVE  Spec => ImplementsSeqMemory
<1>1. IInv /\ [Next]_vars => IInv'
  BY IInvStep
<1>2. IInv /\ [Next]_vars => [SC!SeqNext]_<<mem, Arrived>>
  BY StepRefines
<1>. QED  BY InitIInv, InitRefines, <1>1, <1>2, PTL DEF Spec, ImplementsSeqMemory, SC!SeqSpec
=============================================================================
