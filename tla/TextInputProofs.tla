-------------------------- MODULE TextInputProofs ---------------------------
(***************************************************************************)
(* Words, lines and numbers arrive as they were written, for every input,  *)
(* capacity and size of an integer.  The argument: a call that reads has   *)
(* taken the beginning of the stream there was, and what it has made of it *)
(* is what a definition without loops says of that beginning (WordSoFar,   *)
(* LineSoFar, ScanSoFar); a call that writes has put the rest behind the   *)
(* stream (WriteSoFar).                                                    *)
(***************************************************************************)
EXTENDS TextInput, SequenceTheorems, WellFoundedInduction, TLAPS

Bytes == 0 .. 255
Places == {"idle", "blanks", "word", "grow", "line", "minus", "digits", "write"}
Writers == {"fprint", "puts"}
Readers == Words \cup Numbers \cup {"none", "fgetc", "fgetline"}

Calls == [op : Readers \cup Writers, held : Seq(Bytes), room : Nat, chunk : Seq(Bytes), num : Int, neg : BOOLEAN,
          ret : {"none", "true", "false", "error", "ERR_EOF", "ERR_PARSE", "ERR_OVERFLOW"},
          had : Seq(Bytes), first : Nat, before : Seq(Bytes)]

\* Where the calls can be.
OpsAt(p) ==
    CASE p = "idle" -> Readers \cup Writers
      [] p = "blanks" -> Words \cup Numbers
      [] p = "word" -> Words
      [] p = "grow" -> Words \ {"fgets"}
      [] p = "line" -> {"fgetline"}
      [] p = "minus" -> {"fscan"}
      [] p = "digits" -> Numbers
      [] p = "write" -> Writers

Types ==
    /\ input \in Seq(Bytes) /\ ungot \in Seq(Bytes) /\ Len(ungot) <= 1
    /\ at \in Places /\ call \in Calls /\ call.op \in OpsAt(at)

\* How many bytes the call took.
Gone == Len(call.before) - Len(Stream)

Follows(b, g, s) == g \in 0 .. Len(b) /\ s = From(b, g + 1)

Ahead == call.op \in Readers => Follows(call.before, Gone, Stream)

\* What is taken of the word, which is on if its next byte is peeked at.
Part == SubSeq(call.before, WordAt(call.before), Gone)
On == ungot # <<>> /\ ungot[1] > Space

\* The first buffer is not enough.
Short == call.first = 1 \/ Len(FirstWord(call.before)) >= call.first
Fresh == call.held = call.had /\ call.room = call.first /\ call.chunk = Part

\* So the word has a NUL where the first buffer was full.
Torn == Short /\ IsPrefix(Cut, call.held)

WordSoFar ==
    at # "idle" /\ call.op \in Words =>
      /\ Gone < WordEnd(call.before)
      /\ Gone < WordAt(call.before) \/ On
      /\ Bare(Text) = call.had \o Part
      /\ at = "word" => On /\ Len(call.chunk) < call.room - 1
      /\ at = "blanks" => call.chunk = <<>>
      /\ at = "grow" => Short /\ (Len(call.chunk) + 1 = call.room \/ (call.room = 0 /\ call.chunk = <<>>))
      /\ call.first = 0 => call.had = <<>>
      /\ call.op = "fgets" => Fresh /\ call.had = <<>> /\ (call.room < 2 => Gone = 0)
      /\ Torn \/ Fresh

LineSoFar ==
    at = "line" =>
      /\ call.before = call.chunk \o Stream
      /\ \A i \in DOMAIN call.chunk : call.chunk[i] # Newline
      /\ call.chunk = <<>> \/ Len(call.chunk) < call.room

Scanned == SubSeq(call.before, Blanks(call.before) + 1, Gone)

Numeral(t) == \A i \in DOMAIN t : Digit(t[i]) \/ (i = 1 /\ t[i] = Minus)

ScanSoFar ==
    /\ at = "blanks" /\ call.op \in Numbers => Gone <= Blanks(call.before) /\ call.num = 0 /\ ~call.neg
    /\ at = "minus" => Scanned = <<Minus>> /\ call.num = 0 /\ call.neg
    /\ at = "digits" =>
          /\ Gone >= Blanks(call.before)
          /\ Numeral(Scanned)
          /\ call.neg <=> Scanned # <<>> /\ Scanned[1] = Minus
          /\ call.neg => call.op = "fscan"
          /\ IF call.neg THEN Signed(10, Scanned) <= 0 ELSE Signed(10, Scanned) >= 0
          /\ Fits(Signed(10, Scanned)) => call.num = Signed(10, Scanned)

Said == IF call.op = "fprint" THEN Printed(call.room, call.num) ELSE Append(call.had, Newline)

WriteSoFar ==
    at = "write" =>
      /\ Stream \o call.chunk = call.before \o Said
      /\ call.op = "fprint" => call.room \in {2, 10, 16} /\ call.num \in 0 - Half .. 2 * Half - 1

IInv ==
    /\ Types /\ Ahead /\ WordSoFar /\ LineSoFar /\ ScanSoFar /\ WriteSoFar
    /\ TextIntact /\ NumbersExact

-----------------------------------------------------------------------------
(***************************************************************************)
(* A set of numbers has a least one.                                       *)
(***************************************************************************)
LEMMA LeastOf ==
  ASSUME NEW T \in SUBSET Nat, T # {}
  PROVE  \E x \in T : \A y \in T : x <= y
<1> DEFINE R == {p \in Nat \X Nat : p[1] < p[2]}
<1>1. IsWellFoundedOn(R, Nat)
  BY NatLessThanWellFounded DEF OpToRel
<1> HIDE DEF R
<1>2. PICK x \in T : \A y \in T : <<y, x>> \notin R
  BY <1>1, WFMin
<1>3. ASSUME NEW y \in T, y < x PROVE FALSE
  <2>1. <<y, x>> \in R
    BY <1>3 DEF R
  <2>. QED  BY <1>2, <2>1
<1>. QED  BY <1>3

(***************************************************************************)
(* Induction, said of sets: what holds of a number when it holds of all    *)
(* that are less holds of every number.                                    *)
(***************************************************************************)
LEMMA Induction ==
  ASSUME NEW S, \A n \in Nat : (\A m \in 0 .. n - 1 : m \in S) => n \in S
  PROVE  Nat \subseteq S
<1> DEFINE T == Nat \ S
<1>1. SUFFICES ASSUME T # {} PROVE FALSE
  OBVIOUS
<1>2. PICK n \in T : \A m \in T : n <= m
  BY <1>1, LeastOf
<1>3. \A m \in 0 .. n - 1 : m \in S
  BY <1>2
<1>. QED  BY <1>2, <1>3

\* A recursion that takes one step at a time, as a loop does.
Loop(f, V, v0, n, step) ==
    f \in [0 .. n -> V] /\ f[0] = v0 /\ \A k \in 1 .. n : f[k] = step[<<f[k - 1], k>>]

Together(f, g, n) == f[0] = g[0] /\ \A k \in 1 .. n : f[k - 1] = g[k - 1] => f[k] = g[k]
Alike(f, g, n) == \A k \in 0 .. n : f[k] = g[k]

(***************************************************************************)
(* A recursion that takes one step at a time, as a loop does, defines a    *)
(* function.                                                               *)
(***************************************************************************)
LEMMA LoopExists ==
  ASSUME NEW V, NEW v0 \in V, NEW n \in Nat, NEW step \in [V \X (1 .. n) -> V]
  PROVE  \E f : Loop(f, V, v0, n, step)
<1> USE DEF Loop
<1> DEFINE S == {m \in Nat : m <= n => \E f : Loop(f, V, v0, m, step)}
<1>1. ASSUME NEW m \in Nat, \A k \in 0 .. m - 1 : k \in S PROVE m \in S
  <2>1. CASE m = 0
    <3> DEFINE f == [k \in 0 .. 0 |-> v0]
    <3>1. Loop(f, V, v0, 0, step)
      OBVIOUS
    <3>. QED  BY <2>1, <3>1
  <2>2. CASE m # 0 /\ m <= n
    <3>1. m - 1 \in 0 .. m - 1 /\ m - 1 <= n /\ m - 1 \in Nat
      BY <2>2
    <3>2. PICK f : Loop(f, V, v0, m - 1, step)
      BY <1>1, <3>1
    <3> DEFINE g == [k \in 0 .. m |-> IF k < m THEN f[k] ELSE step[<<f[m - 1], m>>]]
    <3>3. f[m - 1] \in V /\ step[<<f[m - 1], m>>] \in V
      BY <2>2, <3>1, <3>2
    <3>4. g \in [0 .. m -> V] /\ g[0] = v0
      BY <2>2, <3>2, <3>3
    <3>5. ASSUME NEW k \in 1 .. m PROVE g[k] = step[<<g[k - 1], k>>]
      <4>1. CASE k = m
        <5>1. g[m] = step[<<f[m - 1], m>>] /\ g[m - 1] = f[m - 1]
          BY <2>2, <3>1
        <5>. QED  BY <4>1, <5>1
      <4>2. CASE k # m
        <5>1. k \in 1 .. m - 1 /\ k - 1 \in 0 .. m - 1 /\ k < m
          BY <4>2
        <5>2. g[k] = f[k] /\ g[k - 1] = f[k - 1]
          BY <5>1
        <5>. QED  BY <3>2, <5>1, <5>2
      <4>. QED  BY <4>1, <4>2
    <3> HIDE DEF g
    <3>6. Loop(g, V, v0, m, step)
      BY <3>4, <3>5
    <3>. QED  BY <3>6
  <2>. QED  BY <2>1, <2>2
<1> HIDE DEF S
<1>2. n \in S
  BY <1>1, Induction
<1>. QED  BY <1>2 DEF S

(***************************************************************************)
(* Two loops that begin alike and go on alike are alike.                   *)
(***************************************************************************)
LEMMA LoopUnique ==
  ASSUME NEW n \in Nat, NEW f, NEW g, Together(f, g, n)
  PROVE  Alike(f, g, n)
<1> USE DEF Together, Alike
<1> DEFINE S == {m \in Nat : m <= n => f[m] = g[m]}
<1>1. ASSUME NEW m \in Nat, \A k \in 0 .. m - 1 : k \in S PROVE m \in S
  <2>1. CASE m = 0
    BY <2>1
  <2>2. CASE m # 0 /\ m <= n
    <3>1. m - 1 \in S /\ m \in 1 .. n /\ m - 1 <= n
      BY <1>1, <2>2
    <3>. QED  BY <3>1
  <2>. QED  BY <2>1, <2>2
<1> HIDE DEF S
<1>2. Nat \subseteq S
  BY <1>1, Induction
<1>. QED  BY <1>2 DEF S

-----------------------------------------------------------------------------
(***************************************************************************)
(* The recursion of Value is a function of the digits so far.              *)
(***************************************************************************)
LEMMA ValueIs ==
  ASSUME NEW base \in Nat, NEW t \in Seq(Bytes)
  PROVE  \E v \in [0 .. Len(t) -> Int] :
            /\ v[0] = 0 /\ \A k \in 1 .. Len(t) : v[k] = base * v[k - 1] + Worth(t[k])
            /\ Value(base, t) = v[Len(t)]
<1> DEFINE n == Len(t)
           P(f) == f = [k \in 0 .. n |-> IF k = 0 THEN 0 ELSE base * f[k - 1] + Worth(t[k])]
           step == [p \in Int \X (1 .. n) |-> base * p[1] + Worth(t[p[2]])]
           v == CHOOSE f : P(f)
<1>0. n \in Nat /\ \A k \in 1 .. n : Worth(t[k]) \in Int
  <2>1. \A c \in Bytes : Worth(c) \in Int
    BY DEF Worth, Bytes
  <2>. QED  BY <2>1, LenProperties, ElementOfSeq
<1>1. Value(base, t) = v[n]
  BY DEF Value
<1>2. step \in [Int \X (1 .. n) -> Int]
  BY <1>0
<1>3. PICK f \in [0 .. n -> Int] : f[0] = 0 /\ \A k \in 1 .. n : f[k] = step[<<f[k - 1], k>>]
  <2> DEFINE V == Int
             z == 0
  <2>1. z \in V /\ n \in Nat /\ step \in [V \X (1 .. n) -> V]
    BY <1>0, <1>2
  <2> HIDE DEF step, n, V, z
  <2>2. \E f : Loop(f, V, z, n, step)
    BY <2>1, LoopExists
  <2>. QED  BY <2>2 DEF V, z, Loop
<1>4. \A k \in 1 .. n : f[k] = base * f[k - 1] + Worth(t[k])
  <2> SUFFICES ASSUME NEW k \in 1 .. n PROVE f[k] = base * f[k - 1] + Worth(t[k])
    OBVIOUS
  <2>1. <<f[k - 1], k>> \in Int \X (1 .. n)
    <3> HIDE DEF step, n, v
    <3>. QED  BY <1>0, <1>3
  <2>. QED  BY <1>3, <2>1
<1>5. P(f)
  <2> HIDE DEF n
  <2>. QED  BY <1>0, <1>3, <1>4
<1>6. P(v)
  <2> HIDE DEF P
  <2>. QED  BY <1>5
<1>7. \A k \in 0 .. n : v[k] = IF k = 0 THEN 0 ELSE base * v[k - 1] + Worth(t[k])
  <2> HIDE DEF v, n
  <2>. QED  BY <1>6
<1>8. v[0] = 0 /\ \A k \in 1 .. n : v[k] = base * v[k - 1] + Worth(t[k])
  <2> HIDE DEF v, n
  <2>. QED  BY <1>0, <1>7
<1>9. v = [k \in 0 .. n |-> f[k]]
  <2> HIDE DEF v, n
  <2>1. Together(v, f, n)
    BY <1>3, <1>4, <1>8 DEF Together
  <2>2. Alike(v, f, n)
    BY <1>0, <2>1, LoopUnique
  <2>. QED  BY <1>6, <2>2 DEF Alike
<1>10. v \in [0 .. n -> Int]
  <2> HIDE DEF v, n
  <2>. QED  BY <1>3, <1>9
<1> HIDE DEF v
<1>. QED  BY <1>1, <1>8, <1>10

(***************************************************************************)
(* The value of no digits, and of digits with one more behind them.        *)
(***************************************************************************)
LEMMA ValueGrows ==
  ASSUME NEW base \in Nat
  PROVE  /\ Value(base, <<>>) = 0
         /\ \A t \in Seq(Bytes) : Value(base, t) \in Int
         /\ \A t \in Seq(Bytes), c \in Bytes : Value(base, Append(t, c)) = base * Value(base, t) + Worth(c)
<1>1. Value(base, <<>>) = 0
  <2>1. <<>> \in Seq(Bytes) /\ Len(<<>>) = 0
    OBVIOUS
  <2>. QED  BY <2>1, ValueIs, ZenonT(60)
<1>2. ASSUME NEW t \in Seq(Bytes) PROVE Value(base, t) \in Int
  BY ValueIs, LenProperties
<1>3. ASSUME NEW t \in Seq(Bytes), NEW c \in Bytes
      PROVE  Value(base, Append(t, c)) = base * Value(base, t) + Worth(c)
  <2> DEFINE u == Append(t, c)
             n == Len(t)
  <2>1. u \in Seq(Bytes) /\ Len(u) = n + 1 /\ u[n + 1] = c /\ (\A k \in 1 .. n : u[k] = t[k]) /\ n \in Nat
    BY AppendProperties, LenProperties
  <2> HIDE DEF u
  <2>2. PICK v \in [0 .. n -> Int] :
           /\ v[0] = 0 /\ \A k \in 1 .. n : v[k] = base * v[k - 1] + Worth(t[k])
           /\ Value(base, t) = v[n]
    BY ValueIs
  <2>3. PICK w \in [0 .. n + 1 -> Int] :
           /\ w[0] = 0 /\ \A k \in 1 .. n + 1 : w[k] = base * w[k - 1] + Worth(u[k])
           /\ Value(base, u) = w[n + 1]
    BY <2>1, ValueIs
  <2> HIDE DEF n
  <2>4. Together(w, v, n)
    <3>1. w[0] = v[0]
      BY <2>2, <2>3
    <3>2. ASSUME NEW k \in 1 .. n, w[k - 1] = v[k - 1] PROVE w[k] = v[k]
      <4>1. k \in 1 .. n + 1 /\ u[k] = t[k]
        BY <2>1
      <4>. QED  BY <2>2, <2>3, <3>2, <4>1
    <3>. QED  BY <3>1, <3>2 DEF Together
  <2>5. Alike(w, v, n)
    BY <2>1, <2>4, LoopUnique
  <2>6. w[n] = v[n]
    BY <2>1, <2>5 DEF Alike
  <2>7. n + 1 \in 1 .. n + 1 /\ (n + 1) - 1 = n
    BY <2>1
  <2>. QED  BY <2>1, <2>2, <2>3, <2>6, <2>7 DEF u
<1>. QED  BY <1>1, <1>2, <1>3

(***************************************************************************)
(* The recursion of Bare is a function of the text so far.                 *)
(***************************************************************************)
LEMMA BareIs ==
  ASSUME NEW s \in Seq(Bytes)
  PROVE  \E b \in [0 .. Len(s) -> Seq(Bytes)] :
            /\ b[0] = <<>> /\ \A k \in 1 .. Len(s) : b[k] = IF s[k] = NUL THEN b[k - 1] ELSE Append(b[k - 1], s[k])
            /\ Bare(s) = b[Len(s)]
<1> DEFINE n == Len(s)
           P(f) == f = [k \in 0 .. n |-> IF k = 0 THEN <<>> ELSE IF s[k] = NUL THEN f[k - 1] ELSE Append(f[k - 1], s[k])]
           step == [p \in Seq(Bytes) \X (1 .. n) |-> IF s[p[2]] = NUL THEN p[1] ELSE Append(p[1], s[p[2]])]
           b == CHOOSE f : P(f)
<1>0. n \in Nat /\ \A k \in 1 .. n : s[k] \in Bytes
  BY LenProperties, ElementOfSeq
<1>1. Bare(s) = b[n]
  BY DEF Bare
<1>2. step \in [Seq(Bytes) \X (1 .. n) -> Seq(Bytes)]
  <2>1. \A x \in Seq(Bytes), c \in Bytes : Append(x, c) \in Seq(Bytes)
    BY AppendProperties
  <2> HIDE DEF n
  <2>. QED  BY <1>0, <2>1
<1>3. PICK f \in [0 .. n -> Seq(Bytes)] : f[0] = <<>> /\ \A k \in 1 .. n : f[k] = step[<<f[k - 1], k>>]
  <2> DEFINE V == Seq(Bytes)
             z == <<>>
  <2>1. z \in V /\ n \in Nat /\ step \in [V \X (1 .. n) -> V]
    BY <1>0, <1>2
  <2> HIDE DEF step, n, V, z
  <2>2. \E f : Loop(f, V, z, n, step)
    BY <2>1, LoopExists
  <2>. QED  BY <2>2 DEF V, z, Loop
<1>4. \A k \in 1 .. n : f[k] = IF s[k] = NUL THEN f[k - 1] ELSE Append(f[k - 1], s[k])
  <2> SUFFICES ASSUME NEW k \in 1 .. n PROVE f[k] = IF s[k] = NUL THEN f[k - 1] ELSE Append(f[k - 1], s[k])
    OBVIOUS
  <2>1. <<f[k - 1], k>> \in Seq(Bytes) \X (1 .. n)
    <3> HIDE DEF step, n, b
    <3>. QED  BY <1>0, <1>3
  <2>. QED  BY <1>3, <2>1
<1>5. P(f)
  <2> DEFINE F(k) == IF k = 0 THEN <<>> ELSE IF s[k] = NUL THEN f[k - 1] ELSE Append(f[k - 1], s[k])
  <2> HIDE DEF n, b, step
  <2>1. \A k \in 0 .. n : f[k] = F(k)
    <3> SUFFICES ASSUME NEW k \in 0 .. n PROVE f[k] = F(k)
      OBVIOUS
    <3>1. CASE k = 0
      BY <1>3, <3>1
    <3>2. CASE k # 0
      <4>1. k \in 1 .. n
        BY <1>0, <3>2
      <4>. QED  BY <1>4, <3>2, <4>1
    <3>. QED  BY <3>1, <3>2
  <2> HIDE DEF F
  <2>2. f = [k \in 0 .. n |-> F(k)]
    BY <1>3, <2>1
  <2>. QED  BY <2>2 DEF F
<1>6. P(b)
  <2> HIDE DEF P
  <2>. QED  BY <1>5
<1> HIDE DEF b, n
<1>7. \A k \in 0 .. n : b[k] = IF k = 0 THEN <<>> ELSE IF s[k] = NUL THEN b[k - 1] ELSE Append(b[k - 1], s[k])
  BY <1>6
<1>8. b[0] = <<>> /\ \A k \in 1 .. n : b[k] = IF s[k] = NUL THEN b[k - 1] ELSE Append(b[k - 1], s[k])
  BY <1>0, <1>7
<1>9. b = [k \in 0 .. n |-> f[k]]
  <2>1. Together(b, f, n)
    BY <1>3, <1>4, <1>8 DEF Together
  <2>2. Alike(b, f, n)
    BY <1>0, <2>1, LoopUnique
  <2>. QED  BY <1>6, <2>2 DEF Alike
<1>10. b \in [0 .. n -> Seq(Bytes)]
  BY <1>3, <1>9
<1>. QED  BY <1>1, <1>8, <1>10 DEF n

(***************************************************************************)
(* A byte more is a byte more of the bare text, if it is not NUL.          *)
(***************************************************************************)
LEMMA BareGrows ==
  /\ Bare(<<>>) = <<>>
  /\ \A s \in Seq(Bytes) : Bare(s) \in Seq(Bytes)
  /\ \A s \in Seq(Bytes), c \in Bytes : Bare(Append(s, c)) = IF c = NUL THEN Bare(s) ELSE Append(Bare(s), c)
<1>1. Bare(<<>>) = <<>>
  <2>1. <<>> \in Seq(Bytes) /\ Len(<<>>) = 0
    OBVIOUS
  <2>. QED  BY <2>1, BareIs
<1>2. ASSUME NEW s \in Seq(Bytes) PROVE Bare(s) \in Seq(Bytes)
  BY BareIs, LenProperties
<1>3. ASSUME NEW s \in Seq(Bytes), NEW c \in Bytes
      PROVE  Bare(Append(s, c)) = IF c = NUL THEN Bare(s) ELSE Append(Bare(s), c)
  <2> DEFINE u == Append(s, c)
             n == Len(s)
  <2>1. u \in Seq(Bytes) /\ Len(u) = n + 1 /\ u[n + 1] = c /\ (\A k \in 1 .. n : u[k] = s[k]) /\ n \in Nat
    BY AppendProperties, LenProperties
  <2> HIDE DEF u
  <2>2. PICK v \in [0 .. n -> Seq(Bytes)] :
           /\ v[0] = <<>> /\ \A k \in 1 .. n : v[k] = IF s[k] = NUL THEN v[k - 1] ELSE Append(v[k - 1], s[k])
           /\ Bare(s) = v[n]
    BY BareIs
  <2>3. PICK w \in [0 .. n + 1 -> Seq(Bytes)] :
           /\ w[0] = <<>> /\ \A k \in 1 .. n + 1 : w[k] = IF u[k] = NUL THEN w[k - 1] ELSE Append(w[k - 1], u[k])
           /\ Bare(u) = w[n + 1]
    BY <2>1, BareIs
  <2> HIDE DEF n
  <2>4. Together(w, v, n)
    <3>1. w[0] = v[0]
      BY <2>2, <2>3
    <3>2. ASSUME NEW k \in 1 .. n, w[k - 1] = v[k - 1] PROVE w[k] = v[k]
      <4>1. k \in 1 .. n + 1 /\ u[k] = s[k]
        BY <2>1
      <4>. QED  BY <2>2, <2>3, <3>2, <4>1
    <3>. QED  BY <3>1, <3>2 DEF Together
  <2>5. Alike(w, v, n)
    BY <2>1, <2>4, LoopUnique
  <2>6. w[n] = v[n]
    BY <2>1, <2>5 DEF Alike
  <2>7. n + 1 \in 1 .. n + 1 /\ (n + 1) - 1 = n
    BY <2>1
  <2>. QED  BY <2>1, <2>2, <2>3, <2>6, <2>7 DEF u
<1>. QED  BY <1>1, <1>2, <1>3

(***************************************************************************)
(* A digit's character is worth the digit, and is no minus.                *)
(***************************************************************************)
LEMMA CharacterFacts ==
  \A d \in 0 .. 15 : Character(d) \in Bytes /\ Character(d) # Minus /\ Worth(Character(d)) = d
BY DEF Character, Worth, Digit, Minus, Bytes

(***************************************************************************)
(* The last digit, and the number the others are.                          *)
(***************************************************************************)
LEMMA LastDigit ==
  ASSUME NEW base \in {2, 10, 16}, NEW k \in Nat
  PROVE  /\ k % base \in 0 .. base - 1 /\ k \div base \in Nat
         /\ k = base * (k \div base) + (k % base)
         /\ k >= base => k \div base < k
<1>1. /\ k % 2 \in 0 .. 2 - 1 /\ k \div 2 \in Nat
      /\ k = 2 * (k \div 2) + (k % 2)
      /\ k >= 2 => k \div 2 < k
  <2>1. k % 2 \in 0 .. 2 - 1
    OBVIOUS
  <2>2. k \div 2 \in Nat
    OBVIOUS
  <2>3. k = 2 * (k \div 2) + (k % 2)
    OBVIOUS
  <2> DEFINE q == k \div 2
             r == k % 2
  <2>4. q \in Nat /\ r \in 0 .. 2 - 1 /\ k = 2 * q + r
    BY <2>1, <2>2, <2>3
  <2> HIDE DEF q, r
  <2>5. k >= 2 => q < k
    BY <2>4
  <2>. QED  BY <2>1, <2>2, <2>3, <2>5 DEF q
<1>2. /\ k % 10 \in 0 .. 10 - 1 /\ k \div 10 \in Nat
      /\ k = 10 * (k \div 10) + (k % 10)
      /\ k >= 10 => k \div 10 < k
  <2>1. k % 10 \in 0 .. 10 - 1
    OBVIOUS
  <2>2. k \div 10 \in Nat
    OBVIOUS
  <2>3. k = 10 * (k \div 10) + (k % 10)
    OBVIOUS
  <2> DEFINE q == k \div 10
             r == k % 10
  <2>4. q \in Nat /\ r \in 0 .. 10 - 1 /\ k = 10 * q + r
    BY <2>1, <2>2, <2>3
  <2> HIDE DEF q, r
  <2>5. k >= 10 => q < k
    BY <2>4
  <2>. QED  BY <2>1, <2>2, <2>3, <2>5 DEF q
<1>3. /\ k % 16 \in 0 .. 16 - 1 /\ k \div 16 \in Nat
      /\ k = 16 * (k \div 16) + (k % 16)
      /\ k >= 16 => k \div 16 < k
  <2>1. k % 16 \in 0 .. 16 - 1
    OBVIOUS
  <2>2. k \div 16 \in Nat
    OBVIOUS
  <2>3. k = 16 * (k \div 16) + (k % 16)
    OBVIOUS
  <2> DEFINE q == k \div 16
             r == k % 16
  <2>4. q \in Nat /\ r \in 0 .. 16 - 1 /\ k = 16 * q + r
    BY <2>1, <2>2, <2>3
  <2> HIDE DEF q, r
  <2>5. k >= 16 => q < k
    BY <2>4
  <2>. QED  BY <2>1, <2>2, <2>3, <2>5 DEF q
<1>. QED  BY <1>1, <1>2, <1>3, Zenon

(***************************************************************************)
(* The recursion of Digits is a function of the numbers up to n.           *)
(***************************************************************************)
LEMMA DigitsIs ==
  ASSUME NEW base \in {2, 10, 16}, NEW n \in Nat
  PROVE  \E d : /\ \A k \in 0 .. n : d[k] = IF k < base THEN <<Character(k)>>
                                                        ELSE Append(d[k \div base], Character(k % base))
                /\ Digits(base, n) = d[n]
<1> DEFINE Body(f, k) == IF k < base THEN <<Character(k)>> ELSE Append(f[k \div base], Character(k % base))
           P(f, m) == f = [k \in 0 .. m |-> Body(f, k)]
           S == {m \in Nat : \E f : P(f, m)}
           d == CHOOSE f : P(f, n)
<1>1. ASSUME NEW m \in Nat, \A k \in 0 .. m - 1 : k \in S PROVE m \in S
  <2>1. \E f : \A k \in 0 .. m - 1 : f[k] = Body(f, k)
    <3>1. CASE m = 0
      BY <3>1
    <3>2. CASE m # 0
      <4>1. m - 1 \in S
        <5> HIDE DEF S
        <5>. QED  BY <1>1, <3>2
      <4>2. PICK f : P(f, m - 1)
        <5> HIDE DEF P
        <5>. QED  BY <4>1
      <4>3. \A k \in 0 .. m - 1 : f[k] = Body(f, k)
        <5> HIDE DEF Body
        <5>. QED  BY <4>2
      <4>. QED  BY <4>3
    <3>. QED  BY <3>1, <3>2
  <2>2. PICK f : \A k \in 0 .. m - 1 : f[k] = Body(f, k)
    BY <2>1
  <2> DEFINE g == [k \in 0 .. m |-> IF k < m THEN f[k] ELSE Body(f, m)]
  <2>3. ASSUME NEW k \in 0 .. m PROVE g[k] = Body(g, k)
    <3>1. Body(g, k) = Body(f, k)
      <4>1. CASE k < base
        BY <4>1
      <4>2. CASE k >= base
        <5>1. k \in Nat /\ k \div base \in Nat /\ k \div base < k
          BY <4>2, LastDigit
        <5>2. g[k \div base] = f[k \div base]
          BY <5>1
        <5> HIDE DEF g
        <5>. QED  BY <4>2, <5>2
      <4>. QED  BY <4>1, <4>2
    <3>2. g[k] = Body(f, k)
      <4> HIDE DEF Body
      <4>1. CASE k = m
        BY <4>1
      <4>2. CASE k # m
        <5>1. k \in 0 .. m - 1 /\ k < m
          BY <4>2
        <5>. QED  BY <2>2, <5>1
      <4>. QED  BY <4>1, <4>2
    <3>. QED  BY <3>1, <3>2
  <2>4. P(g, m)
    <3> DEFINE G(k) == Body(g, k)
    <3>1. \A k \in 0 .. m : g[k] = G(k)
      BY <2>3
    <3> HIDE DEF G
    <3>2. g = [k \in 0 .. m |-> G(k)]
      BY <3>1
    <3>. QED  BY <3>2 DEF G
  <2> HIDE DEF P
  <2>. QED  BY <2>4
<1>2. \E f : P(f, n)
  <2> HIDE DEF S
  <2>1. n \in S
    BY <1>1, Induction
  <2>. QED  BY <2>1 DEF S
<1>3. P(d, n)
  <2> HIDE DEF P
  <2>. QED  BY <1>2
<1>4. Digits(base, n) = d[n]
  BY DEF Digits
<1>5. \A k \in 0 .. n : d[k] = Body(d, k)
  <2> HIDE DEF d
  <2> DEFINE D(k) == Body(d, k)
  <2>1. d = [k \in 0 .. n |-> D(k)]
    BY <1>3
  <2> HIDE DEF D
  <2>2. \A k \in 0 .. n : d[k] = D(k)
    BY <2>1
  <2>. QED  BY <2>2 DEF D
<1> HIDE DEF d
<1>. QED  BY <1>4, <1>5

(***************************************************************************)
(* The digits of a number are bytes, none of them a minus, and their value *)
(* is the number.                                                          *)
(***************************************************************************)
LEMMA DigitsFacts ==
  ASSUME NEW base \in {2, 10, 16}, NEW n \in Nat
  PROVE  /\ Digits(base, n) \in Seq(Bytes) /\ Digits(base, n) # <<>>
         /\ Digits(base, n)[1] # Minus
         /\ Value(base, Digits(base, n)) = n
<1>1. PICK d : /\ \A k \in 0 .. n : d[k] = IF k < base THEN <<Character(k)>>
                                                       ELSE Append(d[k \div base], Character(k % base))
               /\ Digits(base, n) = d[n]
  BY DigitsIs
<1> DEFINE Good(t, k) == t \in Seq(Bytes) /\ t # <<>> /\ t[1] # Minus /\ Value(base, t) = k
           S == {k \in Nat : k <= n => Good(d[k], k)}
<1>2. ASSUME NEW k \in Nat, \A j \in 0 .. k - 1 : j \in S PROVE k \in S
  <2> SUFFICES ASSUME k <= n PROVE Good(d[k], k)
    OBVIOUS
  <2>0. k \in 0 .. n /\ base \in Nat
    OBVIOUS
  <2>1. CASE k < base
    <3> DEFINE c == Character(k)
    <3>1. c \in Bytes /\ c # Minus /\ Worth(c) = k
      BY <2>1, CharacterFacts
    <3>2. d[k] = <<c>>
      BY <1>1, <2>0, <2>1, Zenon
    <3> HIDE DEF c
    <3>3. <<c>> = Append(<<>>, c) /\ <<>> \in Seq(Bytes)
      OBVIOUS
    <3>4. Value(base, <<c>>) = k
      <4>1. Value(base, <<c>>) = base * Value(base, <<>>) + Worth(c) /\ Value(base, <<>>) = 0
        BY <2>0, <3>1, <3>3, ValueGrows, ZenonT(60)
      <4>. QED  BY <2>0, <3>1, <4>1
    <3>5. <<c>> \in Seq(Bytes) /\ <<c>> # <<>> /\ <<c>>[1] # Minus
      BY <3>1
    <3>. QED  BY <3>2, <3>4, <3>5
  <2>2. CASE k >= base
    <3> DEFINE q == k \div base
               t == d[q]
               c == Character(k % base)
    <3>1. q \in 0 .. k - 1 /\ k = base * q + (k % base) /\ k % base \in 0 .. 15
      BY <2>2, LastDigit
    <3>2. c \in Bytes /\ c # Minus /\ Worth(c) = k % base
      BY <3>1, CharacterFacts
    <3>3. d[k] = Append(t, c)
      <4>1. ~(k < base)
        BY <2>0, <2>2
      <4>. QED  BY <1>1, <2>0, <4>1, Zenon
    <3>4. Good(t, q)
      BY <1>2, <3>1
    <3> HIDE DEF c, t, q
    <3>5. Value(base, Append(t, c)) = k
      <4>1. Value(base, Append(t, c)) = base * Value(base, t) + Worth(c)
        BY <2>0, <3>2, <3>4, ValueGrows, Zenon
      <4>2. Value(base, t) = q
        BY <3>4
      <4>. QED  BY <3>1, <3>2, <4>1, <4>2, Zenon
    <3>6. Append(t, c) \in Seq(Bytes) /\ Append(t, c) # <<>> /\ Append(t, c)[1] = t[1]
      <4>1. t \in Seq(Bytes) /\ Len(t) \in Nat /\ Len(t) # 0
        BY <3>4, LenProperties, EmptySeq
      <4>. QED  BY <3>2, <4>1, AppendProperties
    <3>. QED  BY <3>3, <3>4, <3>5, <3>6
  <2>. QED  BY <2>1, <2>2
<1> HIDE DEF S
<1>3. n \in S
  BY <1>2, Induction
<1>. QED  BY <1>1, <1>3 DEF S

-----------------------------------------------------------------------------
(***************************************************************************)
(* First is the first.                                                     *)
(***************************************************************************)
LEMMA FirstIs ==
  ASSUME NEW T \in SUBSET Nat, T # {}
  PROVE  First(T) \in T /\ \A j \in T : First(T) <= j
<1>1. \E x \in T : \A y \in T : x <= y
  BY LeastOf
<1>. QED  BY <1>1 DEF First

(***************************************************************************)
(* Where the first word of a stream begins: before it all is blank.        *)
(***************************************************************************)
LEMMA WordAtFacts ==
  ASSUME NEW s \in Seq(Bytes)
  PROVE  /\ WordAt(s) \in 1 .. Len(s) + 1
         /\ WordAt(s) = Len(s) + 1 \/ s[WordAt(s)] > Space
         /\ \A i \in 1 .. Len(s) : i < WordAt(s) => ~(s[i] > Space)
<1> DEFINE T == {i \in 1 .. Len(s) + 1 : i = Len(s) + 1 \/ s[i] > Space}
<1>1. Len(s) + 1 \in T /\ T \in SUBSET Nat
  BY LenProperties
<1>2. WordAt(s) = First(T)
  BY DEF WordAt
<1> HIDE DEF T
<1>3. WordAt(s) \in T /\ \A j \in T : WordAt(s) <= j
  BY <1>1, <1>2, FirstIs
<1> USE DEF T
<1>4. ASSUME NEW i \in 1 .. Len(s), i < WordAt(s), s[i] > Space PROVE FALSE
  <2>1. i \in T
    BY <1>4, LenProperties
  <2>2. WordAt(s) <= i /\ WordAt(s) \in Int /\ i \in Int
    BY <1>3, <2>1, LenProperties
  <2>. QED  BY <1>4, <2>2
<1>. QED  BY <1>3, <1>4

(***************************************************************************)
(* Where it ends: all of it is not blank, and what is behind it is.        *)
(***************************************************************************)
LEMMA WordEndFacts ==
  ASSUME NEW s \in Seq(Bytes)
  PROVE  /\ WordEnd(s) \in WordAt(s) .. Len(s) + 1
         /\ WordEnd(s) = Len(s) + 1 \/ s[WordEnd(s)] <= Space
         /\ \A i \in WordAt(s) .. Len(s) : i < WordEnd(s) => ~(s[i] <= Space)
<1> DEFINE T == {i \in WordAt(s) .. Len(s) + 1 : i = Len(s) + 1 \/ s[i] <= Space}
<1>0. WordAt(s) \in 1 .. Len(s) + 1 /\ Len(s) \in Nat
  BY WordAtFacts, LenProperties
<1>1. Len(s) + 1 \in T /\ T \in SUBSET Nat
  BY <1>0
<1>2. WordEnd(s) = First(T)
  BY DEF WordEnd
<1> HIDE DEF T
<1>3. WordEnd(s) \in T /\ \A j \in T : WordEnd(s) <= j
  BY <1>1, <1>2, FirstIs
<1> USE DEF T
<1>4. ASSUME NEW i \in WordAt(s) .. Len(s), i < WordEnd(s), s[i] <= Space PROVE FALSE
  <2>1. i \in T
    BY <1>0, <1>4
  <2>2. WordEnd(s) <= i /\ WordEnd(s) \in Int /\ i \in Int
    BY <1>0, <1>3, <2>1
  <2>. QED  BY <1>4, <2>2
<1>. QED  BY <1>3, <1>4

(***************************************************************************)
(* The blanks before a number, as fscan sees them.                         *)
(***************************************************************************)
LEMMA BlanksFacts ==
  ASSUME NEW s \in Seq(Bytes)
  PROVE  /\ Blanks(s) \in 0 .. Len(s)
         /\ Blanks(s) = Len(s) \/ s[Blanks(s) + 1] \in Space + 1 .. 127 \/ s[Blanks(s) + 1] = 255
         /\ \A i \in 1 .. Len(s) : i <= Blanks(s) => ~(s[i] \in Space + 1 .. 127 \/ s[i] = 255)
<1> DEFINE T == {i \in 1 .. Len(s) + 1 : i = Len(s) + 1 \/ s[i] \in Space + 1 .. 127 \/ s[i] = 255}
           b == First(T)
<1>0. Len(s) \in Nat
  BY LenProperties
<1>1. Len(s) + 1 \in T /\ T \in SUBSET Nat
  BY <1>0
<1>2. Blanks(s) = b - 1
  BY DEF Blanks
<1>3. b \in T /\ \A j \in T : b <= j
  <2> HIDE DEF T
  <2>. QED  BY <1>1, FirstIs
<1> HIDE DEF b
<1>4. b \in 1 .. Len(s) + 1 /\ (b = Len(s) + 1 \/ s[b] \in Space + 1 .. 127 \/ s[b] = 255)
  BY <1>3
<1>5. ASSUME NEW i \in 1 .. Len(s), i <= b - 1, s[i] \in Space + 1 .. 127 \/ s[i] = 255 PROVE FALSE
  <2>1. i \in T
    BY <1>0, <1>5
  <2>2. b <= i /\ b \in Int /\ i \in Int
    BY <1>0, <1>3, <2>1
  <2>. QED  BY <1>5, <2>2
<1>6. b - 1 \in 0 .. Len(s) /\ (b - 1) + 1 = b /\ (b = Len(s) + 1 => b - 1 = Len(s))
  BY <1>0, <1>4
<1>. QED  BY <1>2, <1>4, <1>5, <1>6

-----------------------------------------------------------------------------
(***************************************************************************)
(* What is ahead of a call that has taken a byte more.                     *)
(***************************************************************************)
LEMMA Advance ==
  ASSUME NEW b \in Seq(Bytes), NEW g \in Int, NEW c \in Bytes, NEW u \in Seq(Bytes),
         Follows(b, g, <<c>> \o u)
  PROVE  /\ g + 1 \in 1 .. Len(b) /\ b[g + 1] = c
         /\ Follows(b, g + 1, u)
         /\ g + 1 = Len(b) - Len(u)
<1> DEFINE s == <<c>> \o u
<1> HIDE DEF s
<1>0. Len(b) \in Nat /\ Len(u) \in Nat /\ g \in 0 .. Len(b) /\ s = SubSeq(b, g + 1, Len(b)) /\ <<c>> \in Seq(Bytes)
  BY LenProperties DEF Follows, From, s
<1>1. Len(s) = 1 + Len(u) /\ s[1] = c /\ \A i \in 1 .. Len(u) : s[1 + i] = u[i]
  <2>1. Len(<<c>>) = 1 /\ <<c>>[1] = c
    OBVIOUS
  <2>2. /\ Len(s) = Len(<<c>>) + Len(u)
        /\ \A i \in 1 .. Len(<<c>>) + Len(u) : s[i] = IF i <= Len(<<c>>) THEN <<c>>[i] ELSE u[i - Len(<<c>>)]
    BY <1>0, ConcatProperties DEF s
  <2>3. Len(s) = 1 + Len(u) /\ \A i \in 1 .. 1 + Len(u) : s[i] = IF i <= 1 THEN <<c>>[i] ELSE u[i - 1]
    BY <2>1, <2>2
  <2>4. s[1] = c
    BY <1>0, <2>1, <2>3
  <2>5. ASSUME NEW i \in 1 .. Len(u) PROVE s[1 + i] = u[i]
    <3>1. 1 + i \in 1 .. 1 + Len(u) /\ ~(1 + i <= 1) /\ (1 + i) - 1 = i
      BY <1>0
    <3>. QED  BY <2>3, <3>1
  <2>. QED  BY <2>3, <2>4, <2>5
<1>2. \A i \in g + 1 .. Len(b) : b[i] \in Bytes
  BY <1>0, ElementOfSeq
<1>3. /\ Len(s) = IF g + 1 <= Len(b) THEN Len(b) - (g + 1) + 1 ELSE 0
      /\ \A i \in 1 .. Len(b) - (g + 1) + 1 : s[i] = b[g + 1 + i - 1]
  <2>1. g + 1 \in Int /\ Len(b) \in Int
    BY <1>0
  <2>. QED  BY <1>0, <1>2, <2>1, SubSeqProperties
<1>4. g + 1 \in 1 .. Len(b) /\ Len(u) = Len(b) - (g + 1)
  BY <1>0, <1>1, <1>3
<1>5. b[g + 1] = c
  <2>1. 1 \in 1 .. Len(b) - (g + 1) + 1 /\ g + 1 + 1 - 1 = g + 1
    BY <1>0, <1>4
  <2>. QED  BY <1>1, <1>3, <2>1
<1>6. u = SubSeq(b, (g + 1) + 1, Len(b))
  <2> DEFINE x == SubSeq(b, (g + 1) + 1, Len(b))
  <2>1. (g + 1) + 1 \in Int /\ Len(b) \in Int /\ \A i \in (g + 1) + 1 .. Len(b) : b[i] \in Bytes
    BY <1>0, ElementOfSeq
  <2>2. /\ x \in Seq(Bytes)
        /\ Len(x) = IF (g + 1) + 1 <= Len(b) THEN Len(b) - ((g + 1) + 1) + 1 ELSE 0
        /\ \A i \in 1 .. Len(b) - ((g + 1) + 1) + 1 : x[i] = b[(g + 1) + 1 + i - 1]
    BY <2>1, SubSeqProperties
  <2> HIDE DEF x
  <2>3. Len(x) = Len(u)
    BY <1>0, <1>4, <2>2
  <2>4. ASSUME NEW i \in 1 .. Len(u) PROVE x[i] = u[i]
    <3>1. /\ i \in 1 .. Len(b) - ((g + 1) + 1) + 1
          /\ 1 + i \in 1 .. Len(b) - (g + 1) + 1 /\ (g + 1) + 1 + i - 1 = g + 1 + (1 + i) - 1
      BY <1>0, <1>4
    <3>2. x[i] = b[(g + 1) + 1 + i - 1]
      BY <2>2, <3>1
    <3>3. s[1 + i] = b[g + 1 + (1 + i) - 1]
      BY <1>3, <3>1
    <3>. QED  BY <1>1, <3>1, <3>2, <3>3
  <2>5. x = u
    BY <2>2, <2>3, <2>4, SeqEqual
  <2>. QED  BY <2>5 DEF x
<1>. QED  BY <1>0, <1>1, <1>4, <1>5, <1>6 DEF Follows, From

(***************************************************************************)
(* A piece of a stream that is one longer has one byte more at its end.    *)
(***************************************************************************)
LEMMA PieceGrows ==
  ASSUME NEW b \in Seq(Bytes), NEW m \in Nat \ {0}, NEW g \in Nat, g < Len(b), m <= g + 1
  PROVE  SubSeq(b, m, g + 1) = Append(SubSeq(b, m, g), b[g + 1]) /\ SubSeq(b, m, g) \in Seq(Bytes)
<1>0. Len(b) \in Nat /\ m \in 1 .. Len(b) /\ g + 1 \in m .. Len(b) /\ (g + 1) - 1 = g
  BY LenProperties
<1>1. SubSeq(b, m, g + 1) = SubSeq(b, m, (g + 1) - 1) \o <<b[g + 1]>>
  <2>1. m \in 1 .. Len(b) /\ g + 1 \in m .. Len(b)
    BY <1>0
  <2>. QED  BY <2>1, SubSeqRecursiveSecond
<1>2. SubSeq(b, m, g) \in Seq(Bytes)
  <2>1. m \in Int /\ g \in Int /\ \A i \in m .. g : b[i] \in Bytes
    BY <1>0, ElementOfSeq
  <2>. QED  BY <2>1, SubSeqProperties
<1>3. b[g + 1] \in Bytes
  BY <1>0, ElementOfSeq
<1>. QED  BY <1>0, <1>1, <1>2, <1>3, AppendIsConcat

-----------------------------------------------------------------------------
(***************************************************************************)
(* A text that is not empty is its first byte and the others.              *)
(***************************************************************************)
LEMMA HeadThenTail ==
  ASSUME NEW s \in Seq(Bytes), s # <<>>
  PROVE  Head(s) \in Bytes /\ Tail(s) \in Seq(Bytes) /\ s = <<Head(s)>> \o Tail(s)
<1>1. Head(s) \in Bytes /\ Tail(s) \in Seq(Bytes) /\ Len(s) \in Nat \ {0}
  BY HeadTailProperties, EmptySeq
<1>2. Head(s) = s[1] /\ Tail(s) = SubSeq(s, 2, Len(s))
  BY TailIsSubSeq
<1>3. 1 \in 1 .. Len(s) /\ Len(s) \in 1 .. Len(s) /\ 1 + 1 = 2
  BY <1>1
<1>4. SubSeq(s, 1, Len(s)) = <<s[1]>> \o SubSeq(s, 1 + 1, Len(s))
  BY <1>3, SubSeqRecursiveFirst
<1>5. SubSeq(s, 1, Len(s)) = s
  BY SubSeqFull
<1>. QED  BY <1>1, <1>2, <1>3, <1>4, <1>5

(***************************************************************************)
(* What a read of one byte finds: the first of the stream, or nothing,     *)
(* which without an error is the end of the stream.                        *)
(***************************************************************************)
LEMMA ReadFacts ==
  ASSUME Types, NEW r \in Reads
  PROVE  /\ Stream \in Seq(Bytes) /\ r.in \in Seq(Bytes) /\ r.err \in BOOLEAN
         /\ r.c = Nothing => Stream = r.in /\ ungot = <<>> /\ (~r.err => Stream = <<>>)
         /\ r.c # Nothing => r.c \in Bytes /\ ~r.err /\ Stream = <<r.c>> \o r.in
         /\ On => r.c # Nothing /\ r.c > Space
<1>0. input \in Seq(Bytes) /\ ungot \in Seq(Bytes) /\ Len(ungot) <= 1
  BY DEF Types
<1>1. Stream \in Seq(Bytes)
  BY <1>0, ConcatProperties DEF Stream
<1>2. CASE ungot # <<>>
  <2>1. Len(ungot) = 1
    <3>1. Len(ungot) \in Nat \ {0}
      BY <1>0, <1>2, EmptySeq
    <3>2. \A n \in Nat \ {0} : n <= 1 => n = 1
      OBVIOUS
    <3>. QED  BY <1>0, <3>1, <3>2, Zenon
  <2>2. ungot[1] \in Bytes /\ ungot = <<ungot[1]>>
    <3>1. ungot[1] \in Bytes
      <4>1. 1 \in 1 .. Len(ungot)
        BY <2>1
      <4>. QED  BY <1>0, <4>1, ElementOfSeq
    <3>2. Len(<<ungot[1]>>) = 1 /\ <<ungot[1]>>[1] = ungot[1] /\ <<ungot[1]>> \in Seq(Bytes)
      BY <3>1
    <3>3. \A i \in 1 .. Len(ungot) : ungot[i] = <<ungot[1]>>[i]
      BY <2>1, <3>2
    <3>4. ungot = <<ungot[1]>>
      BY <1>0, <2>1, <3>2, <3>3, SeqEqual
    <3>. QED  BY <3>1, <3>4
  <2>3. r.c = ungot[1] /\ r.in = input /\ r.err = FALSE
    BY <1>2 DEF Reads
  <2>4. Nothing \notin Bytes
    BY DEF Nothing, Bytes
  <2>5. Stream = <<r.c>> \o r.in
    BY <2>2, <2>3 DEF Stream
  <2>. QED  BY <1>0, <1>1, <2>2, <2>3, <2>4, <2>5 DEF On
<1>3. CASE ungot = <<>>
  <2>1. Stream = input
    BY <1>0, <1>3, ConcatEmptySeq DEF Stream
  <2>2. input # <<>> => /\ Head(input) \in Bytes /\ Tail(input) \in Seq(Bytes) /\ input = <<Head(input)>> \o Tail(input)
    BY <1>0, HeadThenTail
  <2>3. ~On
    BY <1>3 DEF On
  <2>4. \/ r.c = Nothing /\ r.in = input /\ r.err = TRUE
        \/ r.c = Nothing /\ r.in = input /\ r.err = FALSE /\ input = <<>>
        \/ r.c = Head(input) /\ r.in = Tail(input) /\ r.err = FALSE /\ input # <<>>
    BY <1>3 DEF Reads
  <2>5. Nothing \notin Bytes
    BY DEF Nothing, Bytes
  <2>. QED  BY <1>0, <1>1, <1>3, <2>1, <2>2, <2>3, <2>4, <2>5
<1>. QED  BY <1>2, <1>3

(***************************************************************************)
(* A byte taken is gone from the stream.                                   *)
(***************************************************************************)
LEMMA TakenFacts ==
  ASSUME Types, NEW r \in Reads, Taken(r)
  PROVE  /\ input' \in Seq(Bytes) /\ ungot' = <<>> /\ Stream' = r.in
<1>1. r.in \in Seq(Bytes)
  BY ReadFacts
<1>2. input' = r.in /\ ungot' = <<>>
  BY DEF Taken
<1>3. Stream' = <<>> \o r.in
  BY <1>2 DEF Stream
<1>. QED  BY <1>1, <1>2, <1>3, ConcatEmptySeq

(***************************************************************************)
(* A byte peeked at is still in it.                                        *)
(***************************************************************************)
LEMMA PeekedFacts ==
  ASSUME Types, NEW r \in Reads, Peeked(r)
  PROVE  /\ input' \in Seq(Bytes) /\ ungot' \in Seq(Bytes) /\ Len(ungot') <= 1
         /\ Stream' = Stream
         /\ r.c # Nothing => ungot' = <<r.c>>
         /\ On' <=> r.c # Nothing /\ r.c > Space
<1>1. /\ r.in \in Seq(Bytes)
      /\ r.c = Nothing => Stream = r.in
      /\ r.c # Nothing => r.c \in Bytes /\ Stream = <<r.c>> \o r.in
  BY ReadFacts
<1>2. input' = r.in /\ ungot' = IF r.c = Nothing THEN <<>> ELSE <<r.c>>
  BY DEF Peeked
<1>3. CASE r.c = Nothing
  <2>1. Stream' = <<>> \o r.in
    BY <1>2, <1>3 DEF Stream
  <2>. QED  BY <1>1, <1>2, <1>3, <2>1, ConcatEmptySeq, EmptySeq DEF On
<1>4. CASE r.c # Nothing
  <2>1. Stream' = <<r.c>> \o r.in
    BY <1>2, <1>4 DEF Stream
  <2>. QED  BY <1>1, <1>2, <1>4, <2>1 DEF On
<1>. QED  BY <1>3, <1>4

-----------------------------------------------------------------------------
(***************************************************************************)
(* A call that begins is one of the calls.                                 *)
(***************************************************************************)
LEMMA CallType ==
  ASSUME Types, NEW op \in Readers \cup Writers, NEW held \in Seq(Bytes), NEW space \in Nat, NEW num \in Int
  PROVE  /\ Call(op, held, space, num) \in Calls
         /\ Call(op, held, space, num).op = op
<1>1. Stream \in Seq(Bytes) /\ <<>> \in Seq(Bytes)
  BY ConcatProperties, EmptySeq DEF Stream, Types
<1>. QED  BY <1>1 DEF Call, Calls

(***************************************************************************)
(* What is printed is bytes.                                               *)
(***************************************************************************)
LEMMA PrintedType ==
  ASSUME NEW base \in {2, 10, 16}, NEW n \in Int
  PROVE  Printed(base, n) \in Seq(Bytes) /\ Printed(base, n) # <<>>
<1>1. <<Minus>> \in Seq(Bytes) /\ <<Minus>> # <<>>
  BY DEF Minus, Bytes
<1>2. CASE n < 0
  <2>1. Digits(base, 0 - n) \in Seq(Bytes)
    <3>1. 0 - n \in Nat
      BY <1>2
    <3>. QED  BY <3>1, DigitsFacts
  <2>2. Printed(base, n) = <<Minus>> \o Digits(base, 0 - n)
    BY <1>2 DEF Printed
  <2>. QED  BY <1>1, <2>1, <2>2, ConcatProperties, ConcatEqualIffEmpty
<1>3. CASE ~(n < 0)
  <2>1. n \in Nat
    BY <1>3
  <2>2. Printed(base, n) = Digits(base, n)
    BY <1>3 DEF Printed
  <2>. QED  BY <2>1, <2>2, DigitsFacts
<1>. QED  BY <1>2, <1>3

(***************************************************************************)
(* The integer kept of a sum is an integer.                                *)
(***************************************************************************)
LEMMA WrappedType == \A n \in Int : Wrapped(n) \in Int
<1>1. Half \in Nat \ {0}
  BY SizesAssumption
<1>2. ASSUME NEW n \in Int PROVE n % (2 * Half) \in Int /\ ((n + Half) % (2 * Half)) - Half \in Int
  <2>1. 2 * Half \in Nat \ {0} /\ n + Half \in Int
    BY <1>1
  <2>2. \A d \in Nat \ {0}, k \in Int : k % d \in Int
    OBVIOUS
  <2>3. n % (2 * Half) \in Int /\ (n + Half) % (2 * Half) \in Int
    BY <2>1, <2>2
  <2>. QED  BY <1>1, <2>3
<1>. QED  BY <1>2 DEF Wrapped

(***************************************************************************)
(* Steps that return or go on have a call of the same kind.                *)
(***************************************************************************)
LEMMA FilledType ==
  ASSUME Types, at \in {"blanks", "word"}, call.op \in Words,
         NEW chunk \in Seq(Bytes), NEW whole \in BOOLEAN, Filled(chunk, whole)
  PROVE  at' \in {"idle", "grow"} /\ call' \in Calls /\ call'.op \in OpsAt(at')
<1>1. call \in Calls
  BY DEF Types
<1>2. call.op \in Readers \cup Writers
  BY DEF Readers
<1>3. CASE whole \/ call.op = "fgets"
  BY <1>1, <1>2, <1>3, ZenonT(60) DEF Filled, Return, Calls, OpsAt
<1>4. CASE ~(whole \/ call.op = "fgets")
  BY <1>1, <1>2, <1>4 DEF Filled, Calls, OpsAt
<1>. QED  BY <1>3, <1>4

(***************************************************************************)
(* So have those that fail.                                                *)
(***************************************************************************)
LEMMA FailedType ==
  ASSUME Types
  PROVE  Failed \in Calls /\ Failed.op = call.op
<1>1. call \in Calls /\ <<>> \in Seq(Bytes)
  BY EmptySeq DEF Types
<1>. QED  BY <1>1 DEF Failed, Calls

(***************************************************************************)
(* A return, from any call.                                                *)
(***************************************************************************)
LEMMA ReturnType ==
  ASSUME NEW c \in Calls, NEW ret \in {"none", "true", "false", "error", "ERR_EOF", "ERR_PARSE", "ERR_OVERFLOW"},
         Return(c, ret)
  PROVE  at' \in Places /\ call' \in Calls /\ call'.op \in OpsAt(at') /\ at' = "idle" /\ call' = [c EXCEPT !.ret = ret]
<1>1. c.op \in Readers \cup Writers
  BY DEF Calls
<1>. QED  BY <1>1 DEF Return, Calls, OpsAt, Places

-----------------------------------------------------------------------------
(***************************************************************************)
(* The types hold at first.                                                *)
(***************************************************************************)
LEMMA TypesInit == Init => Types
<1> HAVE Init
<1>1. input \in Seq(Bytes) /\ ungot \in Seq(Bytes) /\ Len(ungot) = 0
  BY InputsAssumption, EmptySeq DEF Init, Bytes
<1>2. Stream \in Seq(Bytes)
  BY <1>1, ConcatProperties DEF Stream
<1>3. call \in Calls /\ call.op = "none" /\ at = "idle"
  BY <1>1, <1>2, EmptySeq DEF Init, Call, Calls, Readers
<1>. QED  BY <1>1, <1>3 DEF Types, Places, OpsAt, Readers

(***************************************************************************)
(* A call that begins has not moved the stream.                            *)
(***************************************************************************)
LEMMA StartType ==
  ASSUME Types, NEW where \in Places, NEW c \in Calls, c.op \in OpsAt(where), Start(where, c)
  PROVE  Types'
BY DEF Types, Start

(***************************************************************************)
(* Nor has one that has only its arguments.                                *)
(***************************************************************************)
LEMMA StartCallType ==
  ASSUME Types, NEW where \in Places, NEW op \in OpsAt(where), op \in Readers \cup Writers,
         NEW held \in Seq(Bytes), NEW space \in Nat, Start(where, Call(op, held, space, 0))
  PROVE  Types'
<1> DEFINE c == Call(op, held, space, 0)
<1>1. c \in Calls /\ c.op = op
  BY CallType
<1> HIDE DEF c
<1>2. c.op \in OpsAt(where)
  BY <1>1, Zenon
<1>3. Start(where, c)
  BY DEF c
<1>. QED  BY <1>1, <1>2, <1>3, StartType

(***************************************************************************)
(* The calls that read begin so.                                           *)
(***************************************************************************)
LEMMA TypesBeginRead ==
  ASSUME Types, FGets \/ FScans \/ SFscan \/ FGetline \/ FScan
  PROVE  Types'
<1>0. Caps \subseteq Nat /\ ScanCap \in Nat /\ <<>> \in Seq(Bytes) /\ <<97>> \in Seq(Bytes)
  BY SizesAssumption, EmptySeq DEF Bytes
<1>1. CASE FGets
  <2>1. PICK cap \in Caps : Start("blanks", Call("fgets", <<>>, cap, 0))
    BY <1>1 DEF FGets
  <2>2. cap \in Nat /\ 0 \in Int /\ "fgets" \in Readers \cup Writers
    BY <1>0 DEF Readers, Words
  <2>3. "fgets" \in OpsAt("blanks") /\ "blanks" \in Places
    BY DEF OpsAt, Words, Places
  <2>. QED  BY <1>0, <2>1, <2>2, <2>3, StartCallType
<1>2. CASE FScans
  <2>1. Start("blanks", Call("fscans", <<>>, ScanCap, 0))
    BY <1>2 DEF FScans
  <2>2. "fscans" \in Readers \cup Writers
    BY DEF Readers, Words
  <2>3. "fscans" \in OpsAt("blanks") /\ "blanks" \in Places
    BY DEF OpsAt, Words, Places
  <2>. QED  BY <1>0, <2>1, <2>2, <2>3, StartCallType
<1>3. CASE SFscan
  <2>1. PICK cap \in Caps, text \in {<<>>, <<97>>} :
           Len(text) <= cap /\ Start("blanks", Call("s_fscan", text, IF Len(text) = cap THEN cap ELSE cap - Len(text), 0))
    BY <1>3 DEF SFscan
  <2>2. "s_fscan" \in Readers \cup Writers
    BY DEF Readers, Words
  <2>3. "s_fscan" \in OpsAt("blanks") /\ "blanks" \in Places
    BY DEF OpsAt, Words, Places
  <2>4. text \in Seq(Bytes) /\ Len(text) \in Nat /\ cap \in Nat
    BY <1>0, LenProperties
  <2>5. (IF Len(text) = cap THEN cap ELSE cap - Len(text)) \in Nat
    BY <2>1, <2>4
  <2>. QED  BY <2>1, <2>2, <2>3, <2>4, <2>5, StartCallType
<1>4. CASE FGetline
  <2>1. PICK cap \in Caps : Start("line", Call("fgetline", <<>>, cap, 0))
    BY <1>4 DEF FGetline
  <2>2. cap \in Nat /\ 0 \in Int /\ "fgetline" \in Readers \cup Writers
    BY <1>0 DEF Readers, Words
  <2>3. "fgetline" \in OpsAt("line") /\ "line" \in Places
    BY DEF OpsAt, Words, Places
  <2>. QED  BY <1>0, <2>1, <2>2, <2>3, StartCallType
<1>5. CASE FScan
  <2>1. PICK op \in Numbers : Start("blanks", Call(op, <<>>, 0, 0))
    BY <1>5 DEF FScan
  <2>2. op \in Readers \cup Writers
    BY DEF Readers, Words
  <2>3. op \in OpsAt("blanks") /\ "blanks" \in Places
    BY DEF OpsAt, Words, Places
  <2>. QED  BY <1>0, <2>1, <2>2, <2>3, StartCallType
<1>. QED  BY <1>1, <1>2, <1>3, <1>4, <1>5

(***************************************************************************)
(* And those that write.                                                   *)
(***************************************************************************)
LEMMA TypesBeginWrite ==
  ASSUME Types, FPrint \/ Puts
  PROVE  Types'
<1>0. Half \in Nat \ {0} /\ Lines \subseteq Seq(Bytes) /\ <<>> \in Seq(Bytes)
  BY SizesAssumption, InputsAssumption, EmptySeq DEF Bytes
<1>1. CASE FPrint
  <2>1. PICK base \in {2, 10, 16}, n \in 0 - Half .. 2 * Half - 1 :
           Start("write", [Call("fprint", <<>>, base, n) EXCEPT !.chunk = Printed(base, n)])
    BY <1>1 DEF FPrint
  <2> DEFINE c == [Call("fprint", <<>>, base, n) EXCEPT !.chunk = Printed(base, n)]
  <2>2. n \in Int /\ base \in Nat
    BY <1>0
  <2>3. "fprint" \in OpsAt("write") /\ "write" \in Places /\ "fprint" \in Readers \cup Writers
    BY DEF OpsAt, Writers, Places
  <2>4. Printed(base, n) \in Seq(Bytes)
    BY <2>2, PrintedType
  <2>5. Call("fprint", <<>>, base, n) \in Calls /\ Call("fprint", <<>>, base, n).op = "fprint"
    BY <1>0, <2>2, <2>3, CallType, ZenonT(60)
  <2>6. c \in Calls /\ c.op = "fprint"
    BY <2>4, <2>5 DEF Calls
  <2> HIDE DEF c
  <2>. QED  BY <2>1, <2>3, <2>6, StartType DEF c
<1>2. CASE Puts
  <2>1. PICK line \in Lines : Start("write", [Call("puts", line, 0, 0) EXCEPT !.chunk = Append(line, Newline)])
    BY <1>2 DEF Puts
  <2> DEFINE c == [Call("puts", line, 0, 0) EXCEPT !.chunk = Append(line, Newline)]
  <2>3. "puts" \in OpsAt("write") /\ "write" \in Places /\ "puts" \in Readers \cup Writers
    BY DEF OpsAt, Writers, Places
  <2>4. line \in Seq(Bytes) /\ Append(line, Newline) \in Seq(Bytes)
    <3>1. line \in Seq(Bytes) /\ Newline \in Bytes
      BY <1>0 DEF Newline, Bytes
    <3>. QED  BY <3>1, AppendProperties
  <2>5. Call("puts", line, 0, 0) \in Calls /\ Call("puts", line, 0, 0).op = "puts"
    BY <2>3, <2>4, CallType
  <2>6. c \in Calls /\ c.op = "puts"
    BY <2>4, <2>5 DEF Calls
  <2> HIDE DEF c
  <2>. QED  BY <2>1, <2>3, <2>6, StartType DEF c
<1>. QED  BY <1>1, <1>2

-----------------------------------------------------------------------------
(***************************************************************************)
(* The steps of a call that reads a word keep the types.                   *)
(***************************************************************************)
LEMMA TypesWords ==
  ASSUME Types, NoRoom \/ Skip \/ Begin \/ Grow
  PROVE  Types'
<1>0. /\ input \in Seq(Bytes) /\ ungot \in Seq(Bytes) /\ Len(ungot) <= 1 /\ <<>> \in Seq(Bytes) /\ Len(<<>>) = 0
      /\ call \in Calls /\ call.op \in OpsAt(at) /\ at \in Places
  BY EmptySeq DEF Types
<1> USE DEF Types
<1>1. CASE NoRoom
  <2>1. Filled(<<>>, FALSE) /\ at = "blanks" /\ call.op \in Words /\ UNCHANGED <<input, ungot>>
    BY <1>1 DEF NoRoom
  <2>2. at' \in {"idle", "grow"} /\ call' \in Calls /\ call'.op \in OpsAt(at')
    BY <1>0, <2>1, FilledType
  <2>. QED  BY <1>0, <2>1, <2>2 DEF Places
<1>2. CASE Skip
  <2>1. PICK r \in Reads : Passed(r) /\ UNCHANGED <<at, call>>
    BY <1>2 DEF Skip
  <2>2. input' \in Seq(Bytes) /\ ungot' = <<>>
    BY <2>1, TakenFacts DEF Passed
  <2>. QED  BY <1>0, <2>1, <2>2
<1>3. CASE Begin
  <2>1. PICK r \in Reads :
           /\ ~Blank(r.c) /\ Peeked(r)
           /\ IF r.err THEN Return(Failed, "error")
              ELSE IF r.c = Nothing THEN Filled(<<>>, TRUE)
              ELSE at' = "word" /\ UNCHANGED call
    BY <1>3 DEF Begin
  <2>2. input' \in Seq(Bytes) /\ ungot' \in Seq(Bytes) /\ Len(ungot') <= 1
    BY <2>1, PeekedFacts
  <2>3. at = "blanks" /\ call.op \in Words
    BY <1>3 DEF Begin
  <2>4. CASE Return(Failed, "error")
    BY <2>2, <2>4, FailedType, ReturnType
  <2>5. CASE Filled(<<>>, TRUE)
    <3>1. at' \in {"idle", "grow"} /\ call' \in Calls /\ call'.op \in OpsAt(at')
      BY <1>0, <2>3, <2>5, FilledType
    <3>. QED  BY <2>2, <3>1 DEF Places
  <2>6. CASE at' = "word" /\ UNCHANGED call
    <3>1. call' \in Calls /\ call'.op \in Words
      BY <1>0, <2>3, <2>6
    <3>. QED  BY <2>2, <2>6, <3>1 DEF Places, OpsAt
  <2>. QED  BY <2>1, <2>4, <2>5, <2>6
<1>5. CASE Grow
  <2> DEFINE full == call.held \o call.chunk \o (IF call.room = 0 THEN <<>> ELSE <<NUL>>)
  <2>1. /\ at = "grow" /\ UNCHANGED <<input, ungot>>
        /\ \/ call' = [call EXCEPT !.held = full, !.chunk = <<>>, !.room = Len(full)] /\ at' = "blanks"
           \/ Return([call EXCEPT !.held = <<>>, !.chunk = <<>>], "error")
    BY <1>5 DEF Grow
  <2>2. full \in Seq(Bytes) /\ Len(full) \in Nat
    <3>1. call.held \in Seq(Bytes) /\ call.chunk \in Seq(Bytes) /\ <<NUL>> \in Seq(Bytes)
      BY <1>0 DEF Calls, NUL, Bytes
    <3>2. (IF call.room = 0 THEN <<>> ELSE <<NUL>>) \in Seq(Bytes)
      BY <1>0, <3>1
    <3>3. full \in Seq(Bytes)
      BY <3>1, <3>2, ConcatProperties
    <3>. QED  BY <3>3, LenProperties
  <2> HIDE DEF full
  <2>3. CASE call' = [call EXCEPT !.held = full, !.chunk = <<>>, !.room = Len(full)] /\ at' = "blanks"
    <3>1. call' \in Calls /\ call'.op = call.op
      BY <1>0, <2>2, <2>3 DEF Calls
    <3>2. call.op \in Words
      BY <1>0, <2>1 DEF OpsAt
    <3>. QED  BY <1>0, <2>1, <2>3, <3>1, <3>2 DEF OpsAt, Places
  <2>4. CASE Return([call EXCEPT !.held = <<>>, !.chunk = <<>>], "error")
    <3>1. [call EXCEPT !.held = <<>>, !.chunk = <<>>] \in Calls
      BY <1>0 DEF Calls
    <3>. QED  BY <1>0, <2>1, <2>4, <3>1, ReturnType
  <2>. QED  BY <2>1, <2>3, <2>4
<1>. QED  BY <1>1, <1>2, <1>3, <1>5

(***************************************************************************)
(* So does the byte that is stored.                                        *)
(***************************************************************************)
LEMMA EndedType ==
  ASSUME Types, at = "word", NEW chunk \in Seq(Bytes), NEW c, Ended(chunk, c)
  PROVE  at' \in Places /\ call' \in Calls /\ call'.op \in OpsAt(at')
<1>0. call \in Calls /\ call.op \in OpsAt(at) /\ call.op \in Words
  BY DEF Types, OpsAt
<1>1. CASE \E whole \in BOOLEAN : Filled(chunk, whole)
  <2>1. at' \in {"idle", "grow"} /\ call' \in Calls /\ call'.op \in OpsAt(at')
    BY <1>0, <1>1, FilledType
  <2>. QED  BY <2>1 DEF Places
<1>2. CASE call' = [call EXCEPT !.chunk = chunk] /\ UNCHANGED at
  <2>1. call' \in Calls /\ call'.op = call.op
    BY <1>0, <1>2 DEF Calls
  <2>. QED  BY <1>0, <1>2, <2>1 DEF Places
<1>. QED  BY <1>1, <1>2 DEF Ended

(***************************************************************************)
(* A byte of a word goes into the buffer, which may fill it or end it.     *)
(***************************************************************************)
LEMMA TypesStore ==
  ASSUME Types, On, Store
  PROVE  Types'
<1>0. /\ input \in Seq(Bytes) /\ ungot \in Seq(Bytes) /\ <<>> \in Seq(Bytes) /\ Len(<<>>) = 0
      /\ call \in Calls /\ call.op \in OpsAt(at) /\ at = "word"
  BY EmptySeq DEF Types, Store
<1> DEFINE chunk == Append(call.chunk, ungot[1])
<1>1. chunk \in Seq(Bytes)
  <2>1. call.chunk \in Seq(Bytes)
    BY <1>0 DEF Calls
  <2>2. ungot[1] \in Bytes
    <3>1. Len(ungot) \in Nat \ {0}
      BY <1>0, EmptySeq DEF On
    <3>2. 1 \in 1 .. Len(ungot)
      BY <3>1
    <3>. QED  BY <1>0, <3>2, ElementOfSeq
  <2>. QED  BY <2>1, <2>2, AppendProperties
<1>2. \/ input' = input /\ ungot' = <<>> /\ Ended(chunk, Nothing)
      \/ input # <<>> /\ ungot' = <<Head(input)>> /\ input' = Tail(input) /\ Ended(chunk, Head(input))
      \/ /\ input' = input /\ ungot' = <<>>
         /\ Return(IF call.op = "fgets" THEN [call EXCEPT !.chunk = chunk] ELSE Failed, "error")
  BY DEF Store
<1> HIDE DEF chunk
<1>3. input' \in Seq(Bytes) /\ ungot' \in Seq(Bytes) /\ Len(ungot') <= 1
  <2>1. CASE input' = input /\ ungot' = <<>>
    BY <1>0, <2>1
  <2>2. CASE input # <<>> /\ ungot' = <<Head(input)>> /\ input' = Tail(input)
    <3>1. Head(input) \in Bytes /\ Tail(input) \in Seq(Bytes)
      BY <1>0, <2>2, HeadTailProperties
    <3>. QED  BY <2>2, <3>1
  <2>. QED  BY <1>2, <2>1, <2>2
<1>4. CASE \E c : Ended(chunk, c)
  <2>1. PICK c : Ended(chunk, c)
    BY <1>4
  <2>. QED  BY <1>0, <1>1, <1>3, <2>1, EndedType DEF Types
<1>5. CASE Return(IF call.op = "fgets" THEN [call EXCEPT !.chunk = chunk] ELSE Failed, "error")
  <2> DEFINE c == IF call.op = "fgets" THEN [call EXCEPT !.chunk = chunk] ELSE Failed
  <2>1. Failed \in Calls
    BY FailedType
  <2>2. [call EXCEPT !.chunk = chunk] \in Calls
    BY <1>0, <1>1 DEF Calls
  <2>3. c \in Calls
    BY <2>1, <2>2
  <2> HIDE DEF c
  <2>4. Return(c, "error")
    BY <1>5 DEF c
  <2>. QED  BY <1>3, <2>3, <2>4, ReturnType DEF Types
<1>. QED  BY <1>2, <1>4, <1>5

(***************************************************************************)
(* The steps of a call that reads a line, or one byte, keep the types.     *)
(***************************************************************************)
LEMMA TypesLines ==
  ASSUME Types, FGetc \/ LineFull \/ LineByte
  PROVE  Types'
<1>0. /\ input \in Seq(Bytes) /\ ungot \in Seq(Bytes) /\ Len(ungot) <= 1 /\ <<>> \in Seq(Bytes) /\ Len(<<>>) = 0
      /\ call \in Calls /\ call.op \in OpsAt(at) /\ at \in Places
  BY EmptySeq DEF Types
<1>1. CASE FGetc
  <2>1. PICK r \in Reads :
          /\ Taken(r)
          /\ call' = [Call("fgetc", <<>>, 1, 0) EXCEPT !.chunk = IF r.c = Nothing THEN <<>> ELSE <<r.c>>,
                                                       !.ret = IF r.err THEN "error" ELSE "true"]
    BY <1>1 DEF FGetc
  <2>2. Call("fgetc", <<>>, 1, 0) \in Calls /\ Call("fgetc", <<>>, 1, 0).op = "fgetc"
    <3>1. "fgetc" \in Readers \cup Writers /\ 1 \in Nat /\ 0 \in Int
      BY DEF Readers
    <3>. QED  BY <1>0, <3>1, CallType
  <2>3. (IF r.c = Nothing THEN <<>> ELSE <<r.c>>) \in Seq(Bytes)
    <3>1. r.c # Nothing => r.c \in Bytes
      BY ReadFacts
    <3>. QED  BY <1>0, <3>1
  <2>4. call' \in Calls /\ call'.op = "fgetc"
    BY <2>1, <2>2, <2>3 DEF Calls
  <2>5. at' = "idle" /\ "fgetc" \in OpsAt("idle") /\ "idle" \in Places
    BY <1>1 DEF FGetc, OpsAt, Readers, Places
  <2>6. input' \in Seq(Bytes) /\ ungot' = <<>>
    BY <2>1, TakenFacts
  <2>. QED  BY <1>0, <2>4, <2>5, <2>6 DEF Types
<1>2. CASE LineFull
  <2>1. Return(call, "false") /\ UNCHANGED <<input, ungot>>
    BY <1>2 DEF LineFull
  <2>. QED  BY <1>0, <2>1, ReturnType DEF Types
<1>3. CASE LineByte
  <2> DEFINE line(r) == [call EXCEPT !.chunk = Append(@, r.c)]
  <2>1. PICK r \in Reads :
          /\ Taken(r)
          /\ IF r.c = Nothing THEN Return(call, IF r.err THEN "error" ELSE "true")
             ELSE IF r.c = Newline THEN Return(line(r), "true")
             ELSE call' = line(r) /\ UNCHANGED at
    BY <1>3 DEF LineByte
  <2>2. input' \in Seq(Bytes) /\ ungot' = <<>>
    BY <2>1, TakenFacts
  <2>3. r.c # Nothing => line(r) \in Calls /\ line(r).op = call.op
    <3>1. r.c # Nothing => r.c \in Bytes
      BY ReadFacts
    <3>2. call.chunk \in Seq(Bytes)
      BY <1>0 DEF Calls
    <3>3. r.c # Nothing => Append(call.chunk, r.c) \in Seq(Bytes)
      BY <3>1, <3>2, AppendProperties
    <3>. QED  BY <1>0, <3>3 DEF Calls
  <2> HIDE DEF line
  <2>4. CASE \E ret \in {"error", "true"} : Return(call, ret)
    BY <1>0, <2>2, <2>4, ReturnType DEF Types
  <2>5. CASE r.c # Nothing /\ Return(line(r), "true")
    BY <1>0, <2>2, <2>3, <2>5, ReturnType DEF Types
  <2>6. CASE r.c # Nothing /\ call' = line(r) /\ UNCHANGED at
    BY <1>0, <2>2, <2>3, <2>6 DEF Types
  <2>. QED  BY <2>1, <2>4, <2>5, <2>6
<1>. QED  BY <1>1, <1>2, <1>3

(***************************************************************************)
(* A call with another number is a call.                                   *)
(***************************************************************************)
LEMMA NumberType ==
  ASSUME NEW c \in Calls, NEW n \in Int
  PROVE  [c EXCEPT !.num = n] \in Calls
BY DEF Calls

(***************************************************************************)
(* So do those of a scan.                                                  *)
(***************************************************************************)
LEMMA TypesScans ==
  ASSUME Types, Sign \/ AfterMinus \/ Number
  PROVE  Types'
<1>0. /\ <<>> \in Seq(Bytes) /\ Len(<<>>) = 0
      /\ call \in Calls /\ call.op \in OpsAt(at) /\ at \in Places
  BY EmptySeq DEF Types
<1>1. ASSUME NEW r \in Reads, Taken(r) \/ Peeked(r)
      PROVE  input' \in Seq(Bytes) /\ ungot' \in Seq(Bytes) /\ Len(ungot') <= 1
  <2>1. CASE Taken(r)
    <3>1. input' \in Seq(Bytes) /\ ungot' = <<>>
      BY <2>1, TakenFacts
    <3>. QED  BY <1>0, <3>1
  <2>2. CASE Peeked(r)
    BY <2>2, PeekedFacts
  <2>. QED  BY <1>1, <2>1, <2>2
<1>2. CASE Sign
  <2>0. at = "blanks" /\ call.op \in Numbers
    BY <1>2 DEF Sign
  <2>1. PICK r \in Reads :
          /\ Taken(r) \/ Peeked(r)
          /\ \/ at' = "minus" /\ call' = [call EXCEPT !.neg = TRUE] /\ call.op = "fscan"
             \/ \E ret \in {"error", "ERR_EOF", "ERR_PARSE"} : Return(call, ret)
             \/ at' = "digits" /\ UNCHANGED call
    BY <1>2, Zenon DEF Sign
  <2>2. input' \in Seq(Bytes) /\ ungot' \in Seq(Bytes) /\ Len(ungot') <= 1
    BY <1>1, <2>1
  <2>3. CASE at' = "minus" /\ call' = [call EXCEPT !.neg = TRUE] /\ call.op = "fscan"
    <3>1. call' \in Calls /\ call'.op = call.op
      BY <1>0, <2>3 DEF Calls
    <3>. QED  BY <2>2, <2>3, <3>1 DEF Types, OpsAt, Places
  <2>4. CASE \E ret \in {"error", "ERR_EOF", "ERR_PARSE"} : Return(call, ret)
    BY <1>0, <2>2, <2>4, ReturnType DEF Types
  <2>5. CASE at' = "digits" /\ UNCHANGED call
    BY <1>0, <2>0, <2>2, <2>5 DEF Types, OpsAt, Places
  <2>. QED  BY <2>1, <2>3, <2>4, <2>5
<1>3. CASE AfterMinus
  <2>1. PICK r \in Reads : Peeked(r) /\ IF Digit(r.c) THEN at' = "digits" /\ UNCHANGED call ELSE Return(call, "ERR_PARSE")
    BY <1>3 DEF AfterMinus
  <2>2. input' \in Seq(Bytes) /\ ungot' \in Seq(Bytes) /\ Len(ungot') <= 1
    BY <1>1, <2>1
  <2>3. CASE Return(call, "ERR_PARSE")
    BY <1>0, <2>2, <2>3, ReturnType DEF Types
  <2>4. CASE at' = "digits" /\ UNCHANGED call
    <3>1. call.op \in Numbers
      BY <1>0, <1>3 DEF AfterMinus, OpsAt, Numbers
    <3>. QED  BY <1>0, <2>2, <2>4, <3>1 DEF Types, OpsAt, Places
  <2>. QED  BY <2>1, <2>3, <2>4
<1>4. CASE Number
  <2> DEFINE exact(r) == 10 * call.num + (IF call.neg THEN 48 - Seen(r.c) ELSE Seen(r.c) - 48)
             new(r) == Wrapped(exact(r))
  <2>1. PICK r \in Reads :
          IF Digit(Seen(r.c))
          THEN /\ Taken(r)
               /\ \/ Overflow(new(r)) /\ Return([call EXCEPT !.num = 0], "ERR_OVERFLOW")
                  \/ /\ ~Overflow(new(r)) \/ (call.op = "fscan" /\ new(r) # exact(r))
                     /\ call' = [call EXCEPT !.num = new(r)] /\ UNCHANGED at
          ELSE /\ IF Seen(r.c) = Nothing THEN Taken(r) ELSE Peeked(r)
               /\ Return(call, IF r.err THEN "error" ELSE "true")
    BY <1>4 DEF Number
  <2>2. Digit(Seen(r.c)) => new(r) \in Int
    <3> HAVE Digit(Seen(r.c))
    <3>1. Seen(r.c) \in Int /\ call.num \in Int
      BY <1>0 DEF Digit, Calls
    <3>2. exact(r) \in Int
      BY <3>1
    <3> HIDE DEF exact
    <3>. QED  BY <3>2, WrappedType
  <2> HIDE DEF new, exact
  <2>3. Taken(r) \/ Peeked(r)
    BY <2>1
  <2>4. input' \in Seq(Bytes) /\ ungot' \in Seq(Bytes) /\ Len(ungot') <= 1
    BY <1>1, <2>3
  <2>5. CASE Return([call EXCEPT !.num = 0], "ERR_OVERFLOW")
    <3>1. call \in Calls /\ 0 \in Int
      BY <1>0
    <3>2. [call EXCEPT !.num = 0] \in Calls
      BY <3>1, NumberType
    <3>. QED  BY <2>4, <2>5, <3>2, ReturnType DEF Types
  <2>6. CASE Digit(Seen(r.c)) /\ call' = [call EXCEPT !.num = new(r)] /\ UNCHANGED at
    <3>1. call' \in Calls /\ call'.op = call.op
      BY <1>0, <2>2, <2>6 DEF Calls
    <3>. QED  BY <1>0, <2>4, <2>6, <3>1 DEF Types
  <2>7. CASE \E ret \in {"error", "true"} : Return(call, ret)
    BY <1>0, <2>4, <2>7, ReturnType DEF Types
  <2>. QED  BY <2>1, <2>5, <2>6, <2>7
<1>. QED  BY <1>2, <1>3, <1>4

(***************************************************************************)
(* And those of a call that writes.                                        *)
(***************************************************************************)
LEMMA TypesWrites ==
  ASSUME Types, Write
  PROVE  Types'
<1>0. /\ input \in Seq(Bytes) /\ ungot \in Seq(Bytes) /\ Len(ungot) <= 1
      /\ call \in Calls /\ call.op \in OpsAt(at) /\ at \in Places /\ call.chunk \in Seq(Bytes)
  BY DEF Types, Calls
<1>1. CASE UNCHANGED <<input, ungot>> /\ \E ret \in {"true", "error"} : Return(call, ret)
  BY <1>0, <1>1, ReturnType DEF Types
<1>2. ASSUME NEW k \in 1 .. Len(call.chunk), UNCHANGED <<ungot, at>>,
             input' = input \o SubSeq(call.chunk, 1, k),
             call' = [call EXCEPT !.chunk = SubSeq(@, k + 1, Len(@))]
      PROVE  Types'
  <2>1. Len(call.chunk) \in Nat /\ \A i \in 1 .. Len(call.chunk) : call.chunk[i] \in Bytes
    BY <1>0, LenProperties, ElementOfSeq
  <2>2. SubSeq(call.chunk, 1, k) \in Seq(Bytes)
    <3>1. 1 \in Int /\ k \in Int /\ \A i \in 1 .. k : call.chunk[i] \in Bytes
      BY <2>1
    <3>. QED  BY <3>1, SubSeqProperties
  <2>3. SubSeq(call.chunk, k + 1, Len(call.chunk)) \in Seq(Bytes)
    <3>1. k + 1 \in Int /\ Len(call.chunk) \in Int /\ \A i \in k + 1 .. Len(call.chunk) : call.chunk[i] \in Bytes
      BY <2>1
    <3>. QED  BY <3>1, SubSeqProperties
  <2>4. input' \in Seq(Bytes)
    BY <1>0, <1>2, <2>2, ConcatProperties
  <2>5. call' \in Calls /\ call'.op = call.op
    BY <1>0, <1>2, <2>3 DEF Calls
  <2>. QED  BY <1>0, <1>2, <2>4, <2>5 DEF Types
<1>. QED  BY <1>1, <1>2 DEF Write

(***************************************************************************)
(* Every step keeps the types.                                             *)
(***************************************************************************)
LEMMA TypesNext ==
  ASSUME Types, WordSoFar, [Next]_vars
  PROVE  Types'
<1>1. CASE Store
  <2>1. at = "word" /\ call.op \in Words
    BY <1>1 DEF Store, Types, OpsAt
  <2>2. On
    BY <2>1 DEF WordSoFar
  <2>. QED  BY <1>1, <2>2, TypesStore
<1>2. CASE UNCHANGED vars
  BY <1>2 DEF vars, Types
<1>. QED
  BY <1>1, <1>2, TypesBeginRead, TypesBeginWrite, TypesWords, TypesLines, TypesScans, TypesWrites DEF Next, Step

-----------------------------------------------------------------------------
(***************************************************************************)
(* A call begins with all of the stream ahead.                             *)
(***************************************************************************)
LEMMA AheadStarts ==
  ASSUME Types, call'.before = Stream, Stream' = Stream
  PROVE  Ahead' /\ Gone' = 0
<1>1. Stream \in Seq(Bytes)
  BY ConcatProperties DEF Stream, Types
<1>2. Len(Stream) \in Nat
  BY <1>1, LenProperties
<1>3. Gone' = 0
  BY <1>2 DEF Gone
<1>4. Follows(Stream, 0, Stream)
  <2>1. SubSeq(Stream, 1, Len(Stream)) = Stream
    BY <1>1, SubSeqFull
  <2>2. 0 \in 0 .. Len(Stream) /\ 0 + 1 = 1
    BY <1>2
  <2>. QED  BY <2>1, <2>2 DEF Follows, From
<1>. QED  BY <1>3, <1>4 DEF Ahead

(***************************************************************************)
(* Steps that leave the stream alone leave as much ahead.                  *)
(***************************************************************************)
LEMMA AheadStays ==
  ASSUME Ahead, call'.before = call.before, call'.op = call.op, Stream' = Stream
  PROVE  Ahead' /\ Gone' = Gone
<1>1. Gone' = Gone
  BY DEF Gone
<1>. QED  BY <1>1 DEF Ahead

(***************************************************************************)
(* Steps that take a byte take the next one.                               *)
(***************************************************************************)
LEMMA AheadMoves ==
  ASSUME Types, Ahead, call.op \in Readers, call'.before = call.before,
         NEW c \in Bytes, NEW u \in Seq(Bytes), Stream = <<c>> \o u, Stream' = u
  PROVE  /\ Ahead' /\ Gone \in Nat /\ Gone' = Gone + 1
         /\ Gone + 1 \in 1 .. Len(call.before) /\ call.before[Gone + 1] = c
<1>1. Stream \in Seq(Bytes) /\ call.before \in Seq(Bytes)
  BY ConcatProperties DEF Stream, Types, Calls
<1>2. Len(Stream) \in Nat /\ Len(call.before) \in Nat
  BY <1>1, LenProperties
<1>3. Follows(call.before, Gone, Stream)
  BY DEF Ahead
<1>4. Gone \in Int
  BY <1>2 DEF Gone
<1> DEFINE g == Gone  b == call.before
<1> HIDE DEF g, b
<1>5. /\ g + 1 \in 1 .. Len(b) /\ b[g + 1] = c
      /\ Follows(b, g + 1, u)
      /\ g + 1 = Len(b) - Len(u)
  <2>1. Follows(b, g, <<c>> \o u)
    BY <1>3 DEF g, b
  <2>2. g \in Int /\ b \in Seq(Bytes)
    BY <1>1, <1>4 DEF g, b
  <2>. QED  BY <2>1, <2>2, Advance
<1>6. Gone' = Gone + 1
  <2>1. Gone' = Len(b) - Len(u)
    BY DEF Gone, b
  <2>. QED  BY <1>5, <2>1 DEF g
<1>7. Ahead'
  <2>1. Follows(call'.before, Gone', Stream')
    BY <1>5, <1>6 DEF g, b
  <2>. QED  BY <2>1 DEF Ahead
<1>8. Gone \in Nat
  BY <1>3 DEF Follows
<1>. QED  BY <1>5, <1>6, <1>7, <1>8 DEF g, b

-----------------------------------------------------------------------------
(***************************************************************************)
(* A byte is either blank or not.                                          *)
(***************************************************************************)
LEMMA EitherBlank == \A c \in Bytes : (c <= Space) <=> ~(c > Space)
BY DEF Bytes, Space

(***************************************************************************)
(* A blank taken before the word is not of it; a byte that is not blank    *)
(* is the next of the word.                                                *)
(***************************************************************************)
LEMMA WordMoves ==
  ASSUME NEW b \in Seq(Bytes), NEW g \in Nat, g + 1 \in 1 .. Len(b), g < WordEnd(b)
  PROVE  /\ b[g + 1] <= Space /\ g < WordAt(b) =>
               /\ g + 1 < WordAt(b) /\ g + 1 < WordEnd(b)
               /\ SubSeq(b, WordAt(b), g + 1) = SubSeq(b, WordAt(b), g)
         /\ b[g + 1] > Space =>
               /\ g + 1 >= WordAt(b) /\ g + 1 < WordEnd(b)
               /\ SubSeq(b, WordAt(b), g + 1) = Append(SubSeq(b, WordAt(b), g), b[g + 1])
               /\ SubSeq(b, WordAt(b), g) \in Seq(Bytes)
<1> DEFINE m == WordAt(b)  e == WordEnd(b)  l == Len(b)
<1>1. l \in Nat /\ b[g + 1] \in Bytes
  BY LenProperties, ElementOfSeq
<1>2. m \in 1 .. l + 1 /\ (m = l + 1 \/ b[m] > Space) /\ \A i \in 1 .. l : i < m => ~(b[i] > Space)
  BY WordAtFacts
<1>3. e \in m .. l + 1 /\ (e = l + 1 \/ b[e] <= Space)
  BY WordEndFacts
<1>4. g + 1 \in 1 .. l /\ g < e
  OBVIOUS
<1> HIDE DEF m, e, l
<1>5. ASSUME b[g + 1] <= Space, g < m
      PROVE  g + 1 < m /\ g + 1 < e /\ SubSeq(b, m, g + 1) = SubSeq(b, m, g)
  <2>1. m # g + 1
    <3> SUFFICES ASSUME m = g + 1 PROVE FALSE
      OBVIOUS
    <3>1. m # l + 1
      BY <1>1, <1>4
    <3>2. b[m] > Space
      BY <1>2, <3>1, Zenon
    <3>. QED  BY <1>1, <1>5, <3>2, EitherBlank, Zenon
  <2>2. g + 1 < m /\ g + 1 < e
    BY <1>1, <1>2, <1>3, <1>5, <2>1
  <2>3. SubSeq(b, m, g + 1) = <<>> /\ SubSeq(b, m, g) = <<>>
    <3>1. m \in Int /\ g \in Int /\ g + 1 \in Int /\ g < m
      BY <1>1, <1>2, <1>5
    <3>. QED  BY <2>2, <3>1, SubSeqEmpty
  <2>. QED  BY <2>2, <2>3
<1>6. ASSUME b[g + 1] > Space
      PROVE  /\ g + 1 >= m /\ g + 1 < e
             /\ SubSeq(b, m, g + 1) = Append(SubSeq(b, m, g), b[g + 1]) /\ SubSeq(b, m, g) \in Seq(Bytes)
  <2>1. g + 1 >= m
    BY <1>1, <1>2, <1>4, <1>6
  <2>2. e # g + 1
    <3> SUFFICES ASSUME e = g + 1 PROVE FALSE
      OBVIOUS
    <3>1. e # l + 1
      BY <1>1, <1>4
    <3>2. b[g + 1] <= Space
      BY <1>3, <3>1, Zenon
    <3>. QED  BY <1>1, <1>6, <3>2, EitherBlank, Zenon
  <2>3. g + 1 < e
    BY <1>1, <1>2, <1>3, <1>4, <2>2
  <2>4. m \in Nat \ {0} /\ g < Len(b) /\ m <= g + 1
    BY <1>1, <1>2, <1>4, <2>1 DEF l
  <2>. QED  BY <2>1, <2>3, <2>4, PieceGrows
<1>. QED  BY <1>5, <1>6 DEF m, e

(***************************************************************************)
(* The word ends where the stream does or a blank is next, and goes on     *)
(* where any other byte is.                                                *)
(***************************************************************************)
LEMMA WordStops ==
  ASSUME NEW b \in Seq(Bytes), NEW g \in Nat, WordAt(b) <= g, g <= Len(b), g < WordEnd(b)
  PROVE  /\ g = Len(b) => WordEnd(b) = g + 1
         /\ g < Len(b) /\ b[g + 1] <= Space => WordEnd(b) = g + 1
         /\ g < Len(b) /\ b[g + 1] > Space => g + 1 < WordEnd(b)
<1> DEFINE m == WordAt(b)  e == WordEnd(b)  l == Len(b)
<1>1. l \in Nat /\ \A i \in 1 .. l : b[i] \in Bytes
  BY LenProperties, ElementOfSeq
<1>2. m \in 1 .. l + 1
  BY WordAtFacts
<1>3. e \in m .. l + 1 /\ (e = l + 1 \/ b[e] <= Space) /\ \A i \in m .. l : i < e => ~(b[i] <= Space)
  BY WordEndFacts
<1>4. m <= g /\ g <= l /\ g < e
  OBVIOUS
<1> HIDE DEF m, e, l
<1>5. g = l => e = g + 1
  BY <1>1, <1>2, <1>3, <1>4
<1>6. g < l /\ b[g + 1] <= Space => e = g + 1
  BY <1>1, <1>2, <1>3, <1>4
<1>7. ASSUME g < l, b[g + 1] > Space PROVE g + 1 < e
  <2> SUFFICES ASSUME e = g + 1 PROVE FALSE
    BY <1>1, <1>2, <1>3, <1>4
  <2>1. e # l + 1 /\ g + 1 \in 1 .. l
    BY <1>1, <1>7
  <2>2. b[g + 1] <= Space
    BY <1>3, <2>1, Zenon
  <2>3. b[g + 1] \in Bytes
    BY <1>1, <2>1, Zenon
  <2>. QED  BY <1>7, <2>2, <2>3, EitherBlank, Zenon
<1>. QED  BY <1>5, <1>6, <1>7 DEF e, l

(***************************************************************************)
(* The word is as long as it is from its beginning to its end.             *)
(***************************************************************************)
LEMMA WordLength ==
  ASSUME NEW b \in Seq(Bytes)
  PROVE  /\ FirstWord(b) \in Seq(Bytes) /\ Len(FirstWord(b)) \in Nat
         /\ Len(FirstWord(b)) = WordEnd(b) - WordAt(b)
         /\ WordAt(b) \in Nat \ {0} /\ WordEnd(b) \in Nat /\ WordAt(b) <= WordEnd(b)
<1> DEFINE m == WordAt(b)  e == WordEnd(b)
<1>1. m \in 1 .. Len(b) + 1 /\ e \in m .. Len(b) + 1 /\ Len(b) \in Nat
  BY WordAtFacts, WordEndFacts, LenProperties
<1> HIDE DEF m, e
<1>2. /\ m \in Int /\ e - 1 \in Int /\ \A i \in m .. e - 1 : i \in 1 .. Len(b)
      /\ m \in Nat \ {0} /\ e \in Nat /\ m <= e
  BY <1>1
<1>3. \A i \in m .. e - 1 : b[i] \in Bytes
  BY <1>2, ElementOfSeq
<1>4. FirstWord(b) = SubSeq(b, m, e - 1)
  BY DEF FirstWord, m, e
<1>5. FirstWord(b) \in Seq(Bytes) /\ Len(FirstWord(b)) = IF m <= e - 1 THEN (e - 1) - m + 1 ELSE 0
  BY <1>2, <1>3, <1>4, SubSeqProperties
<1>6. (IF m <= e - 1 THEN (e - 1) - m + 1 ELSE 0) = e - m
  BY <1>2
<1>7. Len(FirstWord(b)) = e - m /\ e - m \in Nat
  BY <1>2, <1>5, <1>6
<1>. QED  BY <1>2, <1>5, <1>7 DEF m, e

(***************************************************************************)
(* What is taken of the word and what is ahead make up the stream from     *)
(* where the word begins.                                                  *)
(***************************************************************************)
LEMMA WordSplits ==
  ASSUME NEW b \in Seq(Bytes), NEW g, NEW s, Follows(b, g, s), SubSeq(b, WordAt(b), g) # <<>>
  PROVE  From(b, WordAt(b)) = SubSeq(b, WordAt(b), g) \o s
<1>1. g \in 0 .. Len(b) /\ s = SubSeq(b, g + 1, Len(b)) /\ Len(b) \in Nat
  BY LenProperties DEF Follows, From
<1>2. WordAt(b) \in 1 .. Len(b) + 1
  BY WordAtFacts
<1>3. ~(g < WordAt(b))
  <2> SUFFICES ASSUME g < WordAt(b) PROVE FALSE
    OBVIOUS
  <2>1. WordAt(b) \in Int /\ g \in Int
    BY <1>1, <1>2
  <2>. QED  BY <2>1, SubSeqEmpty
<1>4. g \in WordAt(b) - 1 .. Len(b) /\ Len(b) \in g .. Len(b)
  BY <1>1, <1>2, <1>3
<1>5. SubSeq(b, WordAt(b), g) \o SubSeq(b, g + 1, Len(b)) = SubSeq(b, WordAt(b), Len(b))
  BY <1>2, <1>4, ConcatAdjacentSubSeq
<1>. QED  BY <1>1, <1>5 DEF From

(***************************************************************************)
(* A text begins with itself, and one that begins with another still does  *)
(* with more behind it.                                                    *)
(***************************************************************************)
LEMMA PrefixStays ==
  ASSUME NEW p \in Seq(Bytes), NEW s \in Seq(Bytes), NEW t \in Seq(Bytes)
  PROVE  /\ IsPrefix(p, p)
         /\ IsPrefix(p, s) => IsPrefix(p, s \o t)
<1>1. Len(p) \in Nat /\ Len(s) \in Nat /\ Len(t) \in Nat /\ Len(s \o t) = Len(s) + Len(t)
  BY LenProperties, ConcatProperties
<1>2. IsPrefix(p, p)
  BY <1>1 DEF IsPrefix
<1>3. ASSUME IsPrefix(p, s) PROVE IsPrefix(p, s \o t)
  <2>1. Len(p) <= Len(s) /\ SubSeq(p, 1, Len(p)) = SubSeq(s, 1, Len(p))
    BY <1>3 DEF IsPrefix
  <2>2. SubSeq(s \o t, 1, Len(p)) = SubSeq(s, 1, Len(p))
    BY <1>1, <2>1
  <2>. QED  BY <1>1, <2>1, <2>2 DEF IsPrefix
<1>. QED  BY <1>2, <1>3

(***************************************************************************)
(* What is taken of the word is its beginning.                             *)
(***************************************************************************)
LEMMA PartBegins ==
  ASSUME NEW b \in Seq(Bytes), NEW g \in Nat, g <= Len(b), g < WordEnd(b)
  PROVE  SubSeq(FirstWord(b), 1, Len(SubSeq(b, WordAt(b), g))) = SubSeq(b, WordAt(b), g)
<1> DEFINE m == WordAt(b)  e == WordEnd(b)  n == Len(SubSeq(b, m, g))
<1>1. m \in Nat \ {0} /\ e \in Nat /\ m <= e /\ Len(b) \in Nat /\ e <= Len(b) + 1
  <2>1. e \in m .. Len(b) + 1 /\ Len(b) \in Nat /\ m \in Nat \ {0}
    BY WordEndFacts, WordLength, LenProperties
  <2> HIDE DEF m, e
  <2>. QED  BY <2>1
<1>2. FirstWord(b) = SubSeq(b, m, e - 1)
  BY DEF FirstWord
<1>3. g \in Nat /\ g <= Len(b) /\ g < e
  OBVIOUS
<1> HIDE DEF m, e
<1>4. CASE g < m
  <2>1. SubSeq(b, m, g) = <<>>
    BY <1>1, <1>3, <1>4, SubSeqEmpty
  <2>2. SubSeq(FirstWord(b), 1, 0) = <<>>
    BY SubSeqEmpty
  <2>. QED  BY <2>1, <2>2 DEF m
<1>5. CASE ~(g < m)
  <2>1. \A i \in m .. g : b[i] \in Bytes
    <3>1. \A i \in m .. g : i \in 1 .. Len(b)
      BY <1>1, <1>3
    <3>. QED  BY <3>1, ElementOfSeq
  <2>2. n = g - m + 1
    <3>1. n = IF m <= g THEN g - m + 1 ELSE 0
      BY <1>1, <1>3, <2>1, SubSeqProperties
    <3>. QED  BY <1>1, <1>3, <1>5, <3>1
  <2>3. SubSeq(SubSeq(b, m, e - 1), 1, g - m + 1) = SubSeq(b, m, g)
    <3>1. b \in Seq(Bytes) /\ m >= 1 /\ m <= g /\ g <= e - 1 /\ e - 1 <= Len(b)
      BY <1>1, <1>3, <1>5
    <3>. QED  BY <1>1, <1>3, <3>1
  <2>. QED  BY <1>2, <2>2, <2>3 DEF m
<1>. QED  BY <1>4, <1>5

(***************************************************************************)
(* What the first buffer took of a word is a text.                         *)
(***************************************************************************)
LEMMA CutType ==
  ASSUME NEW b \in Seq(Bytes), NEW had \in Seq(Bytes), NEW k \in Nat,
         k = 1 \/ Len(FirstWord(b)) >= k
  PROVE  had \o SubSeq(FirstWord(b), 1, k - 1) \o <<NUL>> \in Seq(Bytes)
<1> DEFINE word == FirstWord(b)
<1>1. word \in Seq(Bytes) /\ Len(word) \in Nat
  BY WordLength
<1>2. k = 1 \/ Len(word) >= k
  OBVIOUS
<1> HIDE DEF word
<1>3. SubSeq(word, 1, k - 1) \in Seq(Bytes)
  <2>1. \A i \in 1 .. k - 1 : i \in 1 .. Len(word)
    BY <1>1, <1>2
  <2>2. \A i \in 1 .. k - 1 : word[i] \in Bytes
    BY <1>1, <2>1, ElementOfSeq
  <2>. QED  BY <2>2, SubSeqProperties
<1>4. <<NUL>> \in Seq(Bytes)
  BY DEF NUL, Bytes
<1>. QED  BY <1>3, <1>4, ConcatProperties DEF word

(***************************************************************************)
(* A call that returns at the end of the word has the word.                *)
(***************************************************************************)
LEMMA WordReturns ==
  ASSUME Types', Ahead', call'.op \in Words, call'.ret = "true", Gone' = WordEnd(call'.before) - 1,
         Bare(Text)' = call'.had \o Part', (Torn \/ Fresh)', call'.op = "fgets" => Fresh',
         call'.room >= 2, Len(call'.chunk) < call'.room
  PROVE  WordsWhole'
<1> DEFINE b == call'.before  g == Gone'  word == FirstWord(b)
<1>1. b \in Seq(Bytes) /\ call'.chunk \in Seq(Bytes) /\ call'.held \in Seq(Bytes) /\ call'.first \in Nat
  BY DEF Types, Calls
<1>2. Follows(b, g, Stream')
  BY DEF Ahead, Readers
<1>3. Part' = word
  BY DEF Part, FirstWord
<1>4. Stream' = From(b, WordEnd(b))
  <2>1. WordEnd(b) \in Int
    <3>1. WordEnd(b) \in WordAt(b) .. Len(b) + 1
      BY <1>1, WordEndFacts
    <3>. QED  BY <3>1
  <2>2. g + 1 = WordEnd(b)
    BY <2>1
  <2> HIDE DEF b, g
  <2>. QED  BY <1>2, <2>2 DEF Follows
<1>5. IF Len(word) < call'.first /\ call'.first # 1 THEN Text' = call'.had \o word ELSE IsPrefix(Cut', Text')
  <2>1. Len(word) \in Nat /\ call'.room \in Nat
    BY <1>1, WordLength DEF Types, Calls
  <2>2. CASE Fresh'
    <3>1. Text' = call'.had \o word /\ Len(word) < call'.first /\ call'.first >= 2
      BY <1>3, <2>2 DEF Fresh, Text
    <3>2. call'.first # 1
      BY <1>1, <3>1
    <3>. QED  BY <3>1, <3>2
  <2>3. CASE Torn'
    <3>1. ~(Len(word) < call'.first /\ call'.first # 1)
      BY <1>1, <2>1, <2>3 DEF Torn, Short
    <3>2. Cut' \in Seq(Bytes)
      <4>1. call'.had \in Seq(Bytes) /\ (call'.first = 1 \/ Len(FirstWord(call'.before)) >= call'.first)
        BY <2>3 DEF Torn, Short, Types, Calls
      <4>. QED  BY <1>1, <4>1, CutType DEF Cut
    <3>3. IsPrefix(Cut', call'.held \o call'.chunk)
      BY <1>1, <2>3, <3>2, PrefixStays DEF Torn
    <3>. QED  BY <3>1, <3>3 DEF Text
  <2>. QED  BY <2>2, <2>3
<1>6. call'.op = "fgets" /\ call'.room > 1 /\ call'.chunk # <<>> => From(b, WordAt(b)) = call'.chunk \o Stream'
  <2> SUFFICES ASSUME call'.op = "fgets", call'.chunk # <<>> PROVE From(b, WordAt(b)) = call'.chunk \o Stream'
    OBVIOUS
  <2>1. call'.chunk = SubSeq(b, WordAt(b), g)
    BY DEF Fresh, Part
  <2>2. SubSeq(b, WordAt(b), g) # <<>>
    BY <2>1
  <2> HIDE DEF b, g
  <2>3. From(b, WordAt(b)) = SubSeq(b, WordAt(b), g) \o Stream'
    BY <1>1, <1>2, <2>2, WordSplits
  <2>. QED  BY <2>1, <2>3
<1>7. Bare(Text)' = call'.had \o word
  BY <1>3
<1>. QED  BY <1>4, <1>5, <1>6, <1>7 DEF WordsWhole

(***************************************************************************)
(* One that stops before it has lost nothing.                              *)
(***************************************************************************)
LEMMA WordLeft ==
  ASSUME Types', Ahead', call'.op \in Words, call'.ret # "true",
         call'.ret = "false" =>
            IF call'.room < 2 THEN Stream' = call'.before
            ELSE Len(call'.chunk) = call'.room - 1 /\ Len(FirstWord(call'.before)) >= call'.room,
         call'.op = "fgets" => call'.chunk = <<>> \/ call'.chunk = Part'
  PROVE  WordsWhole'
<1> DEFINE b == call'.before  g == Gone'
<1>1. b \in Seq(Bytes)
  BY DEF Types, Calls
<1>2. Follows(b, g, Stream')
  BY DEF Ahead, Readers
<1>3. call'.op = "fgets" /\ call'.room > 1 /\ call'.chunk # <<>> => From(b, WordAt(b)) = call'.chunk \o Stream'
  <2> SUFFICES ASSUME call'.op = "fgets", call'.chunk # <<>> PROVE From(b, WordAt(b)) = call'.chunk \o Stream'
    OBVIOUS
  <2>1. call'.chunk = SubSeq(b, WordAt(b), g)
    BY DEF Part
  <2>2. SubSeq(b, WordAt(b), g) # <<>>
    BY <2>1
  <2> HIDE DEF b, g
  <2>3. From(b, WordAt(b)) = SubSeq(b, WordAt(b), g) \o Stream'
    BY <1>1, <1>2, <2>2, WordSplits
  <2>. QED  BY <2>1, <2>3
<1>. QED  BY <1>3 DEF WordsWhole

-----------------------------------------------------------------------------
(***************************************************************************)
(* A call that begins to read a word has taken none of it.                 *)
(***************************************************************************)
LEMMA WordStarts ==
  ASSUME Types, NEW op \in Words, NEW held \in {<<>>, << 97 >>}, NEW space \in Nat,
         op = "fgets" \/ space = 0 => held = <<>>,
         Start("blanks", Call(op, held, space, 0))
  PROVE  (Ahead /\ WordSoFar)'
<1>1. /\ call'.op = op /\ call'.held = held /\ call'.room = space /\ call'.chunk = <<>>
      /\ call'.had = held /\ call'.first = space /\ call'.before = Stream
      /\ at' = "blanks" /\ Stream' = Stream
  BY DEF Start, Call, Stream
<1>2. Ahead' /\ Gone' = 0
  BY <1>1, AheadStarts
<1>3. Stream \in Seq(Bytes) /\ held \in Seq(Bytes)
  <2>1. <<>> \in Seq(Bytes) /\ <<97>> \in Seq(Bytes)
    BY EmptySeq DEF Bytes
  <2>. QED  BY <2>1, ConcatProperties DEF Stream, Types
<1>4. 0 < WordAt(Stream) /\ 0 < WordEnd(Stream) /\ WordAt(Stream) \in Int
  <2>1. WordAt(Stream) \in 1 .. Len(Stream) + 1
    BY <1>3, WordAtFacts
  <2>2. WordEnd(Stream) \in WordAt(Stream) .. Len(Stream) + 1
    BY <1>3, WordEndFacts
  <2>3. Len(Stream) \in Nat
    BY <1>3, LenProperties
  <2>. QED  BY <2>1, <2>2, <2>3
<1>5. Part' = <<>>
  <2>1. SubSeq(Stream, WordAt(Stream), 0) = <<>>
    BY <1>4, SubSeqEmpty
  <2>. QED  BY <1>1, <1>2, <2>1 DEF Part
<1>6. Bare(Text)' = call'.had \o Part'
  <2>1. Bare(<<>>) = <<>> /\ Bare(<<97>>) = <<97>>
    <3>1. Append(<<>>, 97) = <<97>> /\ 97 \in Bytes /\ 97 # NUL /\ <<>> \in Seq(Bytes)
      BY EmptySeq DEF Bytes, NUL
    <3>2. Bare(<<>>) = <<>>
      BY BareGrows
    <3>3. Bare(Append(<<>>, 97)) = Append(Bare(<<>>), 97)
      BY <3>1, BareGrows
    <3>. QED  BY <3>1, <3>2, <3>3
  <2>2. Text' = held \o <<>> /\ held \o <<>> = held
    BY <1>1, <1>3, ConcatEmptySeq DEF Text
  <2>3. Bare(held) = held
    BY <2>1
  <2>. QED  BY <1>1, <1>5, <2>2, <2>3
<1>7. Fresh'
  BY <1>1, <1>5 DEF Fresh
<1>. QED  BY <1>1, <1>2, <1>4, <1>6, <1>7 DEF WordSoFar

(***************************************************************************)
(* So are the beginnings of fgets, fscans and s_fscan_into.                *)
(***************************************************************************)
LEMMA WordsBegin ==
  ASSUME Types, FGets \/ FScans \/ SFscan
  PROVE  (Ahead /\ WordSoFar)' /\ call'.op \in Words /\ at' = "blanks"
<1>0. Caps \subseteq Nat /\ ScanCap \in Nat
  BY SizesAssumption
<1>1. ASSUME NEW op \in Words, NEW held, NEW space, Start("blanks", Call(op, held, space, 0))
      PROVE  call'.op \in Words /\ at' = "blanks"
  BY <1>1 DEF Start, Call
<1>2. CASE FGets
  <2>1. PICK cap \in Caps : Start("blanks", Call("fgets", <<>>, cap, 0))
    BY <1>2 DEF FGets
  <2>2. cap \in Nat /\ "fgets" \in Words
    BY <1>0 DEF Words
  <2>. QED  BY <1>1, <2>1, <2>2, WordStarts
<1>3. CASE FScans
  <2>1. Start("blanks", Call("fscans", <<>>, ScanCap, 0)) /\ "fscans" \in Words
    BY <1>3 DEF FScans, Words
  <2>. QED  BY <1>0, <1>1, <2>1, WordStarts
<1>4. CASE SFscan
  <2>1. PICK cap \in Caps, text \in {<<>>, <<97>>} :
           Len(text) <= cap /\ Start("blanks", Call("s_fscan", text, IF Len(text) = cap THEN cap ELSE cap - Len(text), 0))
    BY <1>4 DEF SFscan
  <2>2. text \in Seq(Bytes) /\ "s_fscan" \in Words
    <3>1. <<>> \in Seq(Bytes) /\ <<97>> \in Seq(Bytes)
      BY EmptySeq DEF Bytes
    <3>. QED  BY <3>1 DEF Words
  <2>3. Len(text) \in Nat /\ cap \in Nat
    BY <1>0, <2>2, LenProperties
  <2>4. /\ (IF Len(text) = cap THEN cap ELSE cap - Len(text)) \in Nat
        /\ (IF Len(text) = cap THEN cap ELSE cap - Len(text)) = 0 => text = <<>>
    BY <2>1, <2>2, <2>3, EmptySeq
  <2>. QED  BY <1>1, <2>1, <2>2, <2>4, WordStarts
<1>. QED  BY <1>2, <1>3, <1>4

(***************************************************************************)
(* A blank that is passed is before the word.                              *)
(***************************************************************************)
LEMMA WordsSkip ==
  ASSUME Types, Ahead, WordSoFar, Skip, call.op \in Words
  PROVE  (Ahead /\ WordSoFar)'
<1>1. PICK r \in Reads : Blank(Seen(r.c)) /\ Taken(r) /\ UNCHANGED <<at, call>>
  BY DEF Skip, Passed
<1>2. Seen(r.c) = r.c
  BY DEF Seen, Words, Numbers
<1>3. r.c # Nothing /\ r.c <= Space
  BY <1>1, <1>2 DEF Blank
<1>4. r.c \in Bytes /\ r.in \in Seq(Bytes) /\ Stream = <<r.c>> \o r.in
  BY <1>3, ReadFacts
<1>5. ~On
  <2>1. On => r.c > Space
    BY ReadFacts
  <2>. QED  BY <1>3, <1>4, <2>1, EitherBlank
<1>6. Stream' = r.in /\ ungot' = <<>>
  BY <1>1, TakenFacts
<1>7. call' = call /\ at' = at /\ at = "blanks" /\ call.op \in Readers /\ call.before \in Seq(Bytes) /\ call.room >= 2
  BY <1>1 DEF Skip, Readers, Types, Calls
<1>8. /\ Ahead' /\ Gone \in Nat /\ Gone' = Gone + 1
      /\ Gone + 1 \in 1 .. Len(call.before) /\ call.before[Gone + 1] = r.c
  BY <1>4, <1>6, <1>7, AheadMoves
<1>9. Gone < WordEnd(call.before) /\ Gone < WordAt(call.before)
  BY <1>5, <1>7 DEF WordSoFar
<1>10. /\ Gone + 1 < WordAt(call.before) /\ Gone + 1 < WordEnd(call.before)
       /\ SubSeq(call.before, WordAt(call.before), Gone + 1) = Part
  BY <1>3, <1>7, <1>8, <1>9, WordMoves DEF Part
<1>11. Part' = Part
  BY <1>7, <1>8, <1>10 DEF Part
<1>12. /\ Bare(Text) = call.had \o Part /\ call.chunk = <<>> /\ (Torn \/ Fresh)
       /\ call.first = 0 => call.had = <<>>
       /\ call.op = "fgets" => Fresh /\ call.had = <<>>
  BY <1>7 DEF WordSoFar
<1>13. Text' = Text /\ Torn' = Torn /\ Fresh' = Fresh
  BY <1>7, <1>11 DEF Text, Torn, Short, Cut, Fresh
<1>14. call.room \in Nat
  BY DEF Types, Calls
<1>. QED  BY <1>7, <1>8, <1>10, <1>11, <1>12, <1>13, <1>14 DEF WordSoFar

(***************************************************************************)
(* A buffer with no room for a byte has lost nothing either.               *)
(***************************************************************************)
LEMMA WordsNoRoom ==
  ASSUME Types, Ahead, WordSoFar, NoRoom, Types'
  PROVE  (Ahead /\ WordSoFar /\ WordsWhole)' /\ call'.op = call.op /\ at' \in {"idle", "grow"}
<1>1. /\ Filled(<<>>, FALSE) /\ call.room < 2 /\ at = "blanks" /\ call.op \in Words
      /\ Stream' = Stream /\ On' = On /\ call.chunk = <<>>
  BY DEF NoRoom, Stream, On, WordSoFar
<1>2. call \in Calls /\ call.room \in Nat /\ call.before \in Seq(Bytes)
  BY DEF Types, Calls
<1>3. /\ Gone < WordEnd(call.before) /\ (Gone < WordAt(call.before) \/ On)
      /\ Bare(Text) = call.had \o Part /\ (Torn \/ Fresh)
      /\ call.first = 0 => call.had = <<>>
      /\ call.op = "fgets" => Fresh /\ call.had = <<>> /\ Gone = 0
  BY <1>1 DEF WordSoFar
<1>4. CASE call.op = "fgets"
  <2>1. at' = "idle" /\ call' = [[call EXCEPT !.chunk = <<>>] EXCEPT !.ret = "false"]
    BY <1>1, <1>4 DEF Filled, Return
  <2>2. /\ call'.op = call.op /\ call'.before = call.before /\ call'.ret = "false" /\ call'.room = call.room
        /\ call'.chunk = <<>>
    BY <1>2, <2>1 DEF Calls
  <2>3. Ahead'
    BY <1>1, <2>2, AheadStays
  <2>4. Stream' = call'.before
    <3>1. Follows(call.before, Gone, Stream) /\ Gone = 0
      BY <1>1, <1>3, <1>4 DEF Ahead, Readers
    <3>2. Stream = SubSeq(call.before, 1, Len(call.before))
      BY <3>1 DEF Follows, From
    <3>. QED  BY <1>1, <1>2, <2>2, <3>2, SubSeqFull
  <2>5. WordsWhole'
    BY <1>1, <2>2, <2>3, <2>4, WordLeft
  <2>6. WordSoFar'
    BY <2>1 DEF WordSoFar
  <2>. QED  BY <2>1, <2>2, <2>3, <2>5, <2>6
<1>5. CASE call.op # "fgets"
  <2>1. at' = "grow" /\ call' = [call EXCEPT !.chunk = <<>>]
    BY <1>1, <1>5 DEF Filled
  <2>2. call' = call
    BY <1>1, <1>2, <2>1 DEF Calls
  <2>3. Ahead' /\ Gone' = Gone
    BY <1>1, <2>2, AheadStays
  <2>4. Short
    <3> SUFFICES ASSUME Fresh PROVE Short
      BY <1>3 DEF Torn
    <3>1. call.first \in Nat /\ call.first < 2
      BY <1>1, <1>2 DEF Fresh
    <3>2. Len(FirstWord(call.before)) \in Nat
      BY <1>2, WordLength
    <3>. QED  BY <3>1, <3>2 DEF Short
  <2>5. Text' = Text /\ Part' = Part /\ Short' = Short /\ Torn' = Torn
    BY <2>2, <2>3 DEF Text, Part, Short, Torn, Cut
  <2>6. Fresh' = Fresh
    BY <2>2, <2>5 DEF Fresh
  <2>7. Len(call.chunk) + 1 = call.room \/ (call.room = 0 /\ call.chunk = <<>>)
    <3>1. Len(call.chunk) = 0
      BY <1>1
    <3>. QED  BY <1>1, <1>2, <3>1
  <2>8. WordSoFar'
    BY <1>1, <1>3, <1>5, <2>1, <2>2, <2>3, <2>4, <2>5, <2>6, <2>7 DEF WordSoFar
  <2>9. WordsWhole'
    BY <2>1 DEF WordsWhole, Done
  <2>. QED  BY <2>1, <2>2, <2>3, <2>8, <2>9
<1>. QED  BY <1>4, <1>5

(***************************************************************************)
(* A longer buffer has the same word in it, and a NUL more, if the old one *)
(* had room for it.                                                        *)
(***************************************************************************)
LEMMA WordsGrow ==
  ASSUME Types, Ahead, WordSoFar, Grow, Types'
  PROVE  (Ahead /\ WordSoFar /\ WordsWhole)' /\ call'.op = call.op /\ at' \in {"idle", "blanks"}
<1> DEFINE full == call.held \o call.chunk \o (IF call.room = 0 THEN <<>> ELSE <<NUL>>)
<1>1. /\ \/ call' = [call EXCEPT !.held = full, !.chunk = <<>>, !.room = Len(full)] /\ at' = "blanks"
         \/ Return([call EXCEPT !.held = <<>>, !.chunk = <<>>], "error")
      /\ at = "grow" /\ Stream' = Stream /\ On' = On
  BY DEF Grow, Stream, On
<1>2. /\ call \in Calls /\ call.held \in Seq(Bytes) /\ call.chunk \in Seq(Bytes) /\ Text \in Seq(Bytes)
      /\ call.op \in Words /\ call.op # "fgets"
  <2>1. call \in Calls /\ call.op \in OpsAt("grow")
    BY <1>1 DEF Types
  <2>2. call.op \in Words /\ call.op # "fgets"
    BY <2>1 DEF OpsAt
  <2>3. call.held \in Seq(Bytes) /\ call.chunk \in Seq(Bytes)
    BY <2>1 DEF Calls
  <2>. QED  BY <2>1, <2>2, <2>3, ConcatProperties DEF Text
<1>3. /\ Gone < WordEnd(call.before) /\ (Gone < WordAt(call.before) \/ On)
      /\ Bare(Text) = call.had \o Part /\ Short /\ (Torn \/ Fresh)
      /\ call.first = 0 => call.had = <<>>
      /\ Len(call.chunk) + 1 = call.room \/ (call.room = 0 /\ call.chunk = <<>>)
  BY <1>1, <1>2 DEF WordSoFar
<1>4. full \in Seq(Bytes) /\ Bare(full) = Bare(Text)
  <2>1. CASE call.room = 0
    <3>1. full = Text \o <<>>
      BY <2>1 DEF Text
    <3>. QED  BY <1>2, <3>1, ConcatEmptySeq
  <2>2. CASE call.room # 0
    <3>1. full = Text \o <<NUL>>
      BY <2>2 DEF Text
    <3>2. NUL \in Bytes
      BY DEF NUL, Bytes
    <3>3. full = Append(Text, NUL) /\ Append(Text, NUL) \in Seq(Bytes)
      BY <1>2, <3>1, <3>2, AppendIsConcat, AppendProperties
    <3>4. Bare(Append(Text, NUL)) = Bare(Text)
      BY <1>2, <3>2, BareGrows
    <3>. QED  BY <3>3, <3>4
  <2>. QED  BY <2>1, <2>2
<1>5. ASSUME Torn PROVE IsPrefix(Cut, full)
  <2> DEFINE nul == IF call.room = 0 THEN <<>> ELSE <<NUL>>
  <2>1. full = Text \o nul /\ nul \in Seq(Bytes)
    <3>1. <<>> \in Seq(Bytes) /\ <<NUL>> \in Seq(Bytes)
      BY EmptySeq DEF NUL, Bytes
    <3>. QED  BY <3>1 DEF Text
  <2> HIDE DEF full, nul
  <2>2. Cut \in Seq(Bytes) /\ IsPrefix(Cut, call.held)
    <3>1. /\ call.before \in Seq(Bytes) /\ call.had \in Seq(Bytes) /\ call.first \in Nat
          /\ call.first = 1 \/ Len(FirstWord(call.before)) >= call.first
      BY <1>2, <1>3 DEF Calls, Short
    <3>2. Cut \in Seq(Bytes)
      BY <3>1, CutType DEF Cut
    <3>. QED  BY <1>5, <3>2 DEF Torn
  <2>3. IsPrefix(Cut, Text)
    BY <1>2, <2>2, PrefixStays DEF Text
  <2>. QED  BY <1>2, <2>1, <2>2, <2>3, PrefixStays
<1>6. ASSUME Fresh, call.first # 0 PROVE IsPrefix(Cut, full)
  <2>1. call.before \in Seq(Bytes) /\ call.had \in Seq(Bytes) /\ call.first \in Nat /\ call.room = call.first
        /\ call.held = call.had /\ call.chunk = Part
    BY <1>2, <1>6 DEF Calls, Fresh
  <2>2. Gone \in Nat /\ Gone <= Len(call.before)
    <3>1. Gone \in 0 .. Len(call.before) /\ Len(call.before) \in Nat
      BY <1>2, <2>1, LenProperties DEF Ahead, Readers, Follows
    <3>. QED  BY <3>1
  <2>3. SubSeq(FirstWord(call.before), 1, Len(Part)) = Part
    BY <1>3, <2>1, <2>2, PartBegins DEF Part
  <2>4. Len(Part) = call.first - 1
    <3>1. Len(call.chunk) \in Nat
      BY <1>2, LenProperties
    <3>. QED  BY <1>3, <1>6, <2>1, <3>1
  <2>5. full = call.had \o Part \o <<NUL>>
    BY <1>6, <2>1
  <2>6. full = Cut
    BY <2>3, <2>4, <2>5 DEF Cut
  <2>. QED  BY <1>4, <2>6, PrefixStays
<1>7. ASSUME Fresh, call.first = 0 PROVE full = <<>> /\ Part = <<>> /\ call.had = <<>>
  <2>1. call.room = 0 /\ call.held = call.had /\ call.had = <<>> /\ call.chunk = Part
    BY <1>3, <1>7 DEF Fresh
  <2>2. call.chunk = <<>>
    <3>1. Len(call.chunk) \in Nat
      BY <1>2, LenProperties
    <3>. QED  BY <1>3, <2>1, <3>1
  <2>3. full = <<>> \o <<>> \o <<>>
    BY <2>1, <2>2
  <2>. QED  BY <2>1, <2>2, <2>3
<1> HIDE DEF full
<1>8. CASE call' = [call EXCEPT !.held = full, !.chunk = <<>>, !.room = Len(full)] /\ at' = "blanks"
  <2>1. /\ call'.op = call.op /\ call'.before = call.before /\ call'.had = call.had /\ call'.first = call.first
        /\ call'.held = full /\ call'.chunk = <<>>
    BY <1>2, <1>8 DEF Calls
  <2>2. Ahead' /\ Gone' = Gone
    BY <1>1, <2>1, AheadStays
  <2>3. Part' = Part /\ Short' = Short /\ Cut' = Cut
    BY <2>1, <2>2 DEF Part, Short, Cut
  <2>4. Text' = full
    BY <1>4, <2>1, ConcatEmptySeq DEF Text
  <2>5. Torn' \/ Fresh'
    <3>1. CASE IsPrefix(Cut, full)
      <4>1. IsPrefix(Cut', call'.held)
        BY <2>1, <2>3, <3>1
      <4>. QED  BY <1>3, <2>3, <4>1 DEF Torn
    <3>2. CASE Fresh /\ call.first = 0
      <4>1. call'.room = Len(full)
        BY <1>2, <1>8 DEF Calls
      <4>2. call'.held = call'.had /\ call'.room = call'.first /\ call'.chunk = Part'
        BY <1>7, <2>1, <2>3, <3>2, <4>1
      <4>. QED  BY <4>2 DEF Fresh
    <3>. QED  BY <1>3, <1>5, <1>6, <3>1, <3>2
  <2>6. WordSoFar'
    BY <1>1, <1>2, <1>3, <1>4, <1>8, <2>1, <2>2, <2>3, <2>4, <2>5 DEF WordSoFar
  <2>7. WordsWhole'
    BY <1>8 DEF WordsWhole, Done
  <2>. QED  BY <1>8, <2>1, <2>2, <2>6, <2>7
<1>9. CASE Return([call EXCEPT !.held = <<>>, !.chunk = <<>>], "error")
  <2>1. at' = "idle" /\ call'.op = call.op /\ call'.before = call.before /\ call'.ret = "error" /\ call'.chunk = <<>>
    BY <1>2, <1>9 DEF Return, Calls
  <2>2. Ahead'
    BY <1>1, <2>1, AheadStays
  <2>3. WordsWhole'
    BY <1>2, <2>1, <2>2, WordLeft
  <2>4. WordSoFar'
    BY <2>1 DEF WordSoFar
  <2>. QED  BY <2>1, <2>2, <2>3, <2>4
<1>. QED  BY <1>1, <1>8, <1>9

(***************************************************************************)
(* What a call that fails keeps.                                           *)
(***************************************************************************)
LEMMA FailedKeeps ==
  ASSUME Types
  PROVE  Failed.op = call.op /\ Failed.before = call.before /\ (Failed.chunk = <<>> \/ Failed.chunk = call.chunk)
<1>1. call \in Calls
  BY DEF Types
<1>. QED  BY <1>1 DEF Failed, Calls

(***************************************************************************)
(* The first byte of the word is peeked at, or the stream ends before it.  *)
(***************************************************************************)
LEMMA WordsPeek ==
  ASSUME Types, Ahead, WordSoFar, Begin, Types'
  PROVE  (Ahead /\ WordSoFar /\ WordsWhole)' /\ call'.op = call.op /\ at' \in {"idle", "word"}
<1>1. PICK r \in Reads :
          /\ ~Blank(r.c) /\ Peeked(r)
          /\ IF r.err THEN Return(Failed, "error")
             ELSE IF r.c = Nothing THEN Filled(<<>>, TRUE)
             ELSE at' = "word" /\ UNCHANGED call
  BY DEF Begin
<1>2. /\ at = "blanks" /\ call.op \in Words /\ call.room >= 2 /\ call.op \in Readers
      /\ call \in Calls /\ call.room \in Nat /\ call.before \in Seq(Bytes)
  BY DEF Begin, Types, Calls, Readers
<1>3. /\ Gone < WordEnd(call.before) /\ (Gone < WordAt(call.before) \/ On)
      /\ Bare(Text) = call.had \o Part /\ (Torn \/ Fresh) /\ call.chunk = <<>>
      /\ call.first = 0 => call.had = <<>>
      /\ call.op = "fgets" => Fresh /\ call.had = <<>>
  BY <1>2 DEF WordSoFar
<1>4. /\ Stream' = Stream
      /\ On' <=> r.c # Nothing /\ r.c > Space
  BY <1>1, PeekedFacts
<1>5. CASE Return(Failed, "error")
  <2>1. at' = "idle" /\ call' = [Failed EXCEPT !.ret = "error"]
    BY <1>5 DEF Return
  <2>2. Failed \in Calls /\ Failed.op = call.op /\ Failed.before = call.before /\ Failed.chunk = <<>>
    BY <1>3, FailedType, FailedKeeps
  <2>3. call'.op = call.op /\ call'.before = call.before /\ call'.ret = "error" /\ call'.chunk = <<>>
    BY <2>1, <2>2 DEF Calls
  <2>4. Ahead'
    BY <1>4, <2>3, AheadStays
  <2>5. WordsWhole'
    BY <1>2, <2>3, <2>4, WordLeft
  <2>6. WordSoFar'
    BY <2>1 DEF WordSoFar
  <2>. QED  BY <2>1, <2>3, <2>4, <2>5, <2>6
<1>6. CASE ~r.err /\ r.c = Nothing /\ Filled(<<>>, TRUE)
  <2>1. at' = "idle" /\ call' = [[call EXCEPT !.chunk = <<>>] EXCEPT !.ret = "true"]
    BY <1>6 DEF Filled, Return
  <2>2. call' = [call EXCEPT !.ret = "true"]
    BY <1>2, <1>3, <2>1 DEF Calls
  <2>3. /\ call'.op = call.op /\ call'.before = call.before /\ call'.ret = "true" /\ call'.chunk = call.chunk
        /\ call'.held = call.held /\ call'.had = call.had /\ call'.room = call.room /\ call'.first = call.first
    BY <1>2, <2>2 DEF Calls
  <2>4. Ahead' /\ Gone' = Gone
    BY <1>4, <2>3, AheadStays
  <2>5. Part' = Part /\ Text' = Text /\ Torn' = Torn
    BY <2>3, <2>4 DEF Part, Text, Torn, Short, Cut
  <2>6. Fresh' = Fresh
    BY <2>3, <2>5 DEF Fresh
  <2>7. Stream = <<>> /\ ~On
    BY <1>6, ReadFacts DEF On
  <2>8. Gone = WordEnd(call.before) - 1
    <3>1. Gone = Len(call.before) /\ Len(call.before) \in Nat
      BY <1>2, <2>7, LenProperties DEF Gone
    <3>2. Gone < WordAt(call.before)
      BY <1>3, <2>7
    <3>3. WordAt(call.before) \in 1 .. Len(call.before) + 1
      BY <1>2, WordAtFacts
    <3>4. WordEnd(call.before) \in WordAt(call.before) .. Len(call.before) + 1
      BY <1>2, WordEndFacts
    <3>. QED  BY <3>1, <3>2, <3>3, <3>4
  <2>9. call'.room >= 2 /\ Len(call'.chunk) < call'.room
    BY <1>2, <1>3, <2>3
  <2>10. WordsWhole'
    BY <1>2, <1>3, <2>3, <2>4, <2>5, <2>6, <2>8, <2>9, WordReturns
  <2>11. WordSoFar'
    BY <2>1 DEF WordSoFar
  <2>. QED  BY <2>1, <2>3, <2>4, <2>10, <2>11
<1>7. CASE r.c # Nothing /\ at' = "word" /\ UNCHANGED call
  <2>1. On'
    <3>1. r.c \in Bytes
      BY <1>7, ReadFacts
    <3>. QED  BY <1>1, <1>4, <1>7, <3>1, EitherBlank DEF Blank
  <2>2. Ahead' /\ Gone' = Gone
    BY <1>4, <1>7, AheadStays
  <2>3. Part' = Part /\ Text' = Text /\ Torn' = Torn
    BY <1>7, <2>2 DEF Part, Text, Torn, Short, Cut
  <2>4. Fresh' = Fresh
    BY <1>7, <2>3 DEF Fresh
  <2>5. Len(call.chunk) < call.room - 1
    <3>1. Len(call.chunk) = 0
      BY <1>3
    <3>. QED  BY <1>2, <3>1
  <2>6. WordSoFar'
    BY <1>2, <1>3, <1>7, <2>1, <2>2, <2>3, <2>4, <2>5 DEF WordSoFar
  <2>7. WordsWhole'
    BY <1>7 DEF WordsWhole, Done
  <2>. QED  BY <1>7, <2>2, <2>6, <2>7
<1>. QED  BY <1>1, <1>5, <1>6, <1>7

(***************************************************************************)
(* A byte appended to the second of two texts is appended to both.         *)
(***************************************************************************)
LEMMA AppendBehind ==
  ASSUME NEW s \in Seq(Bytes), NEW t \in Seq(Bytes), NEW c \in Bytes
  PROVE  s \o Append(t, c) = Append(s \o t, c)
<1>1. <<c>> \in Seq(Bytes) /\ s \o t \in Seq(Bytes)
  BY ConcatProperties
<1>2. Append(t, c) = t \o <<c>> /\ Append(s \o t, c) = (s \o t) \o <<c>>
  BY <1>1, AppendIsConcat
<1>. QED  BY <1>1, <1>2, ConcatAssociative

(***************************************************************************)
(* A byte is behind the first of two texts or before the second.           *)
(***************************************************************************)
LEMMA AppendBetween ==
  ASSUME NEW s \in Seq(Bytes), NEW t \in Seq(Bytes), NEW c \in Bytes
  PROVE  Append(s, c) \o t = s \o (<<c>> \o t)
<1>1. <<c>> \in Seq(Bytes)
  OBVIOUS
<1>2. Append(s, c) = s \o <<c>>
  BY AppendIsConcat
<1>. QED  BY <1>1, <1>2, ConcatAssociative

(***************************************************************************)
(* The byte that is stored is the next of the word.                        *)
(***************************************************************************)
LEMMA Stored ==
  ASSUME Types, Ahead, WordSoFar, Store, call'.op = call.op, call'.before = call.before
  PROVE  LET b == call.before
             chunk == Append(call.chunk, ungot[1]) IN
         /\ Ahead' /\ Stream' = input /\ input \in Seq(Bytes)
         /\ Gone \in Nat /\ Gone' = Gone + 1 /\ Gone' \in 1 .. Len(b)
         /\ WordAt(b) <= Gone' /\ Gone' < WordEnd(b)
         /\ chunk \in Seq(Bytes) /\ Len(chunk) = Len(call.chunk) + 1 /\ Part' = Append(Part, ungot[1])
         /\ call.held \o chunk \in Seq(Bytes) /\ Bare(call.held \o chunk) = call.had \o Part'
         /\ Fresh => chunk = Part'
<1> DEFINE b == call.before  u == ungot[1]  chunk == Append(call.chunk, u)
<1>1. /\ at = "word" /\ call.op \in Words /\ call.op \in Readers
      /\ b \in Seq(Bytes) /\ call.chunk \in Seq(Bytes) /\ call.held \in Seq(Bytes) /\ call.had \in Seq(Bytes)
      /\ input \in Seq(Bytes)
  BY DEF Store, Types, Calls, OpsAt, Readers
<1>2. On /\ Gone < WordEnd(b) /\ Bare(Text) = call.had \o Part
  BY <1>1 DEF WordSoFar
<1>3. u \in Bytes /\ u > Space /\ Stream = <<u>> \o input
  <2>1. [c |-> u, in |-> input, err |-> FALSE] \in Reads
    BY <1>2 DEF On, Reads
  <2>2. u # Nothing => u \in Bytes /\ Stream = <<u>> \o input
    BY <2>1, ReadFacts
  <2>3. u # Nothing /\ u > Space
    BY <1>2, <2>1, ReadFacts
  <2>. QED  BY <2>2, <2>3
<1>4. Stream' = input
  <2>1. \/ ungot' = <<>> /\ input' = input
        \/ input # <<>> /\ ungot' = <<Head(input)>> /\ input' = Tail(input)
    BY DEF Store
  <2>2. CASE ungot' = <<>> /\ input' = input
    BY <1>1, <2>2, ConcatEmptySeq DEF Stream
  <2>3. CASE input # <<>> /\ ungot' = <<Head(input)>> /\ input' = Tail(input)
    <3>1. Stream' = <<Head(input)>> \o Tail(input)
      BY <2>3 DEF Stream
    <3>. QED  BY <1>1, <2>3, <3>1, HeadThenTail
  <2>. QED  BY <2>1, <2>2, <2>3
<1>5. /\ Ahead' /\ Gone \in Nat /\ Gone' = Gone + 1
      /\ Gone + 1 \in 1 .. Len(b) /\ b[Gone + 1] = u
  BY <1>1, <1>3, <1>4, AheadMoves
<1>6. /\ Gone + 1 >= WordAt(b) /\ Gone + 1 < WordEnd(b)
      /\ SubSeq(b, WordAt(b), Gone + 1) = Append(Part, u) /\ Part \in Seq(Bytes)
  BY <1>1, <1>2, <1>3, <1>5, WordMoves DEF Part
<1>7. Part' = Append(Part, u)
  BY <1>5, <1>6 DEF Part
<1>8. chunk \in Seq(Bytes) /\ Len(chunk) = Len(call.chunk) + 1
  BY <1>1, <1>3, AppendProperties
<1>9. call.held \o chunk \in Seq(Bytes) /\ Bare(call.held \o chunk) = call.had \o Part'
  <2>1. call.held \o chunk = Append(Text, u) /\ Text \in Seq(Bytes)
    BY <1>1, <1>3, AppendBehind, ConcatProperties DEF Text
  <2>2. u # NUL
    BY <1>3 DEF Space, NUL
  <2>3. Bare(Append(Text, u)) = Append(Bare(Text), u)
    BY <1>3, <2>1, <2>2, BareGrows
  <2>4. call.had \o Part' = Append(call.had \o Part, u)
    BY <1>1, <1>3, <1>6, <1>7, AppendBehind
  <2>5. call.held \o chunk \in Seq(Bytes)
    BY <1>1, <1>8, ConcatProperties
  <2>. QED  BY <1>2, <2>1, <2>3, <2>4, <2>5
<1>10. Fresh => chunk = Part'
  BY <1>7 DEF Fresh
<1>11. WordAt(b) <= Gone' /\ Gone' < WordEnd(b)
  <2>1. WordAt(b) \in Nat
    BY <1>1, WordLength
  <2>. QED  BY <1>5, <1>6, <2>1
<1>. QED  BY <1>1, <1>4, <1>5, <1>7, <1>8, <1>9, <1>10, <1>11

(***************************************************************************)
(* The word goes on, ends, or needs a longer buffer.                       *)
(***************************************************************************)
LEMMA WordsStore ==
  ASSUME Types, Ahead, WordSoFar, Store, Types'
  PROVE  (Ahead /\ WordSoFar /\ WordsWhole)' /\ call'.op = call.op /\ at' \in {"idle", "word", "grow"}
<1> DEFINE b == call.before  chunk == Append(call.chunk, ungot[1])
<1>1. /\ at = "word" /\ call.op \in Words /\ call.op \in Readers /\ call \in Calls
      /\ b \in Seq(Bytes) /\ call.chunk \in Seq(Bytes) /\ call.room \in Nat /\ call.first \in Nat
  BY DEF Store, Types, Calls, OpsAt, Readers
<1>2. /\ Torn \/ Fresh
      /\ call.first = 0 => call.had = <<>>
      /\ call.op = "fgets" => Fresh /\ call.had = <<>>
      /\ Len(call.chunk) < call.room - 1
  BY <1>1 DEF WordSoFar
<1>3. \/ input = <<>> /\ ungot' = <<>> /\ Ended(chunk, Nothing)
      \/ input # <<>> /\ ungot' = <<Head(input)>> /\ Ended(chunk, Head(input))
      \/ Return(IF call.op = "fgets" THEN [call EXCEPT !.chunk = chunk] ELSE Failed, "error")
  BY DEF Store
<1> HIDE DEF chunk
<1>4. ASSUME call'.op = call.op, call'.before = call.before
      PROVE  /\ Ahead' /\ Stream' = input /\ input \in Seq(Bytes)
             /\ Gone' \in Nat /\ Gone' <= Len(b)
             /\ WordAt(b) <= Gone' /\ Gone' < WordEnd(b)
             /\ chunk \in Seq(Bytes) /\ Len(chunk) = Len(call.chunk) + 1
             /\ Bare(call.held \o chunk) = call.had \o Part'
             /\ Fresh => chunk = Part'
  <2>1. Gone' \in 1 .. Len(b) /\ Len(b) \in Nat
    BY <1>1, <1>4, Stored, LenProperties
  <2>2. Gone' \in Nat /\ Gone' <= Len(b)
    BY <2>1
  <2>. QED  BY <1>4, <2>2, Stored DEF chunk
<1>5. ASSUME call'.op = call.op, call'.before = call.before, input = <<>>
      PROVE  WordEnd(b) = Gone' + 1
  <2>1. Gone' = Len(b)
    <3>1. Stream' = <<>> /\ Len(<<>>) = 0 /\ Len(b) \in Nat
      BY <1>1, <1>4, <1>5, LenProperties
    <3>. QED  BY <1>5, <3>1 DEF Gone
  <2>. QED  BY <1>1, <1>4, <1>5, <2>1, WordStops
<1>6. ASSUME call'.op = call.op, call'.before = call.before, input # <<>>
      PROVE  /\ Head(input) <= Space => WordEnd(b) = Gone' + 1
             /\ ~(Head(input) <= Space) => Head(input) > Space /\ Gone' + 1 < WordEnd(b)
  <2>1. PICK c \in Bytes, t \in Seq(Bytes) : c = Head(input) /\ input = <<c>> \o t
    BY <1>4, <1>6, HeadThenTail
  <2>2. Follows(b, Gone', input)
    BY <1>1, <1>4, <1>6 DEF Ahead
  <2>3. Gone' \in Int /\ Follows(b, Gone', <<c>> \o t)
    BY <1>4, <1>6, <2>1, <2>2
  <2>4. Gone' + 1 \in 1 .. Len(b) /\ b[Gone' + 1] = Head(input)
    BY <1>1, <2>1, <2>3, Advance
  <2>5. Gone' < Len(b)
    <3>1. Len(b) \in Nat
      BY <1>1, LenProperties
    <3>. QED  BY <2>3, <2>4, <3>1
  <2>6. /\ b[Gone' + 1] <= Space => WordEnd(b) = Gone' + 1
        /\ b[Gone' + 1] > Space => Gone' + 1 < WordEnd(b)
    BY <1>1, <1>4, <1>6, <2>5, WordStops
  <2>. QED  BY <2>1, <2>4, <2>6, EitherBlank
\* The word is whole.
<1>7. ASSUME Filled(chunk, TRUE), \/ input = <<>>
                                  \/ input # <<>> /\ Head(input) <= Space
      PROVE  (Ahead /\ WordSoFar /\ WordsWhole)' /\ call'.op = call.op /\ at' \in {"idle", "word", "grow"}
  <2>1. at' = "idle" /\ call' = [[call EXCEPT !.chunk = chunk] EXCEPT !.ret = "true"]
    BY <1>7 DEF Filled, Return
  <2>2. /\ call'.op = call.op /\ call'.before = call.before /\ call'.ret = "true" /\ call'.chunk = chunk
        /\ call'.held = call.held /\ call'.had = call.had /\ call'.room = call.room /\ call'.first = call.first
    BY <1>1, <2>1 DEF Calls
  <2>3. Ahead' /\ WordEnd(b) = Gone' + 1 /\ Gone' \in Nat
    BY <1>4, <1>5, <1>6, <1>7, <2>2
  <2>4. Gone' = WordEnd(call'.before) - 1
    <3>1. \A n \in Nat : n = (n + 1) - 1
      OBVIOUS
    <3>. QED  BY <2>2, <2>3, <3>1, Zenon
  <2>5. Bare(Text)' = call'.had \o Part'
    BY <1>4, <2>2 DEF Text
  <2>6. Fresh => Fresh'
    BY <1>4, <2>2 DEF Fresh
  <2>7. Torn' = Torn
    BY <2>2 DEF Torn, Short, Cut
  <2>8. call'.room >= 2 /\ Len(call'.chunk) < call'.room
    <3>1. Len(chunk) = Len(call.chunk) + 1 /\ Len(call.chunk) \in Nat
      BY <1>1, <1>4, <2>2, LenProperties
    <3>. QED  BY <1>1, <1>2, <2>2, <3>1
  <2>9. WordsWhole'
    BY <1>1, <1>2, <2>2, <2>3, <2>4, <2>5, <2>6, <2>7, <2>8, WordReturns
  <2>10. WordSoFar'
    BY <2>1 DEF WordSoFar
  <2>. QED  BY <2>1, <2>2, <2>3, <2>9, <2>10
\* The buffer is full.
<1>8. ASSUME Filled(chunk, FALSE), input # <<>>, ~(Head(input) <= Space), ungot' = <<Head(input)>>,
             Len(chunk) = call.room - 1
      PROVE  (Ahead /\ WordSoFar /\ WordsWhole)' /\ call'.op = call.op /\ at' \in {"idle", "word", "grow"}
  <2>1. \/ /\ call.op = "fgets" /\ at' = "idle"
           /\ call' = [[call EXCEPT !.chunk = chunk] EXCEPT !.ret = "false"]
        \/ call.op # "fgets" /\ at' = "grow" /\ call' = [call EXCEPT !.chunk = chunk]
    BY <1>8 DEF Filled, Return
  <2>2. /\ call'.op = call.op /\ call'.before = call.before /\ call'.chunk = chunk
        /\ call'.held = call.held /\ call'.had = call.had /\ call'.room = call.room /\ call'.first = call.first
    BY <1>1, <2>1 DEF Calls
  <2>3. Ahead' /\ Gone' \in Nat /\ Gone' + 1 < WordEnd(b) /\ Gone' < WordEnd(b) /\ WordAt(b) <= Gone'
    BY <1>4, <1>6, <1>8, <2>2
  <2>4. On'
    BY <1>6, <1>8, <2>2 DEF On
  <2>5. Fresh => Len(FirstWord(b)) >= call.room
    <3> SUFFICES ASSUME Fresh PROVE Len(FirstWord(b)) >= call.room
      OBVIOUS
    <3>1. Len(FirstWord(b)) = WordEnd(b) - WordAt(b) /\ WordAt(b) \in Nat \ {0} /\ WordEnd(b) \in Nat
      BY <1>1, WordLength
    <3>2. Len(chunk) = Gone' - WordAt(b) + 1
      <4>1. chunk = SubSeq(b, WordAt(b), Gone')
        BY <1>4, <2>2 DEF Part
      <4>2. \A i \in WordAt(b) .. Gone' : b[i] \in Bytes
        <5>1. \A i \in WordAt(b) .. Gone' : i \in 1 .. Len(b)
          <6>1. Gone' <= Len(b) /\ Len(b) \in Nat
            BY <1>1, <1>4, <2>2, LenProperties
          <6>. QED  BY <2>3, <3>1, <6>1
        <5>. QED  BY <1>1, <5>1, ElementOfSeq
      <4>3. WordAt(b) \in Int /\ Gone' \in Int
        BY <2>3, <3>1
      <4>4. Len(chunk) = IF WordAt(b) <= Gone' THEN Gone' - WordAt(b) + 1 ELSE 0
        BY <4>1, <4>2, <4>3, SubSeqProperties
      <4>. QED  BY <2>3, <4>4
    <3>. QED  BY <1>1, <1>8, <2>3, <3>1, <3>2
  <2>6. CASE call.op = "fgets"
    <3>1. at' = "idle" /\ call'.ret = "false"
      BY <1>1, <2>1, <2>6 DEF Calls
    <3>2. call'.room >= 2
      <4>1. Len(chunk) = Len(call.chunk) + 1 /\ Len(call.chunk) \in Nat
        BY <1>1, <1>4, <2>2, LenProperties
      <4>. QED  BY <1>1, <1>8, <2>2, <4>1
    <3>3. Fresh /\ chunk = Part'
      BY <1>2, <1>4, <2>2, <2>6
    <3>4. ~(call'.room < 2)
      BY <1>1, <2>2, <3>2
    <3>5. WordsWhole'
      BY <1>1, <1>8, <2>2, <2>3, <2>5, <3>1, <3>3, <3>4, WordLeft
    <3>6. WordSoFar'
      BY <3>1 DEF WordSoFar
    <3>. QED  BY <2>2, <2>3, <3>1, <3>5, <3>6
  <2>7. CASE call.op # "fgets"
    <3>1. at' = "grow"
      BY <2>1, <2>7
    <3>2. Short' /\ Torn' = Torn
      BY <1>2, <2>2, <2>5 DEF Torn, Short, Cut, Fresh
    <3>3. Bare(Text)' = call'.had \o Part' /\ (Fresh => Fresh')
      BY <1>4, <2>2 DEF Text, Fresh
    <3>4. Len(call'.chunk) + 1 = call'.room
      <4>1. Len(chunk) \in Nat
        BY <1>4, <2>2, LenProperties
      <4>. QED  BY <1>1, <1>8, <2>2, <4>1
    <3>5. WordSoFar'
      BY <1>2, <2>2, <2>3, <2>4, <2>7, <3>1, <3>2, <3>3, <3>4 DEF WordSoFar
    <3>6. WordsWhole'
      BY <3>1 DEF WordsWhole, Done
    <3>. QED  BY <2>2, <2>3, <3>1, <3>5, <3>6
  <2>. QED  BY <2>6, <2>7
\* The word goes on.
<1>9. ASSUME call' = [call EXCEPT !.chunk = chunk], UNCHANGED at,
             input # <<>>, ~(Head(input) <= Space), ungot' = <<Head(input)>>, Len(chunk) # call.room - 1
      PROVE  (Ahead /\ WordSoFar /\ WordsWhole)' /\ call'.op = call.op /\ at' \in {"idle", "word", "grow"}
  <2>1. /\ call'.op = call.op /\ call'.before = call.before /\ call'.chunk = chunk
        /\ call'.held = call.held /\ call'.had = call.had /\ call'.room = call.room /\ call'.first = call.first
    BY <1>1, <1>9 DEF Calls
  <2>2. Ahead' /\ Gone' \in Nat /\ Gone' < WordEnd(b)
    BY <1>4, <2>1
  <2>3. On'
    BY <1>6, <1>9, <2>1 DEF On
  <2>4. Bare(Text)' = call'.had \o Part'
    BY <1>4, <2>1 DEF Text
  <2>5. Fresh => Fresh'
    BY <1>4, <2>1 DEF Fresh
  <2>6. Torn' = Torn
    BY <2>1 DEF Torn, Short, Cut
  <2>7. Len(chunk) < call.room - 1
    <3>1. Len(chunk) = Len(call.chunk) + 1 /\ Len(call.chunk) \in Nat
      BY <1>1, <1>4, <2>1, LenProperties
    <3>. QED  BY <1>1, <1>2, <1>9, <3>1
  <2>8. call'.op = "fgets" => (call'.room < 2 => Gone' = 0)
    <3>1. Len(call.chunk) \in Nat
      BY <1>1, LenProperties
    <3>2. ~(call.room < 2)
      BY <1>1, <1>2, <3>1
    <3>. QED  BY <2>1, <3>2
  <2>9. at' = "word"
    BY <1>1, <1>9
  <2>10. WordSoFar'
    BY <1>2, <2>1, <2>2, <2>3, <2>4, <2>5, <2>6, <2>7, <2>8, <2>9 DEF WordSoFar
  <2>11. WordsWhole'
    BY <2>9 DEF WordsWhole, Done
  <2>. QED  BY <2>1, <2>2, <2>9, <2>10, <2>11
\* The read fails.
<1>10. CASE Return(IF call.op = "fgets" THEN [call EXCEPT !.chunk = chunk] ELSE Failed, "error")
  <2>1. at' = "idle"
    BY <1>10 DEF Return
  <2>2. CASE call.op = "fgets"
    <3>1. call' = [[call EXCEPT !.chunk = chunk] EXCEPT !.ret = "error"]
      BY <1>10, <2>2 DEF Return
    <3>2. call'.op = call.op /\ call'.before = call.before /\ call'.ret = "error" /\ call'.chunk = chunk
      BY <1>1, <3>1 DEF Calls
    <3>3. Ahead' /\ chunk = Part'
      BY <1>2, <1>4, <2>2, <3>2
    <3>4. WordsWhole'
      BY <1>1, <3>2, <3>3, WordLeft
    <3>. QED  BY <2>1, <3>2, <3>3, <3>4 DEF WordSoFar
  <2>3. CASE call.op # "fgets"
    <3>1. call' = [Failed EXCEPT !.ret = "error"]
      BY <1>10, <2>3 DEF Return
    <3>2. call'.op = call.op /\ call'.before = call.before /\ call'.ret = "error"
      <4>1. Failed \in Calls /\ Failed.op = call.op /\ Failed.before = call.before
        BY FailedType, FailedKeeps
      <4>. QED  BY <3>1, <4>1 DEF Calls
    <3>3. Ahead'
      BY <1>4, <3>2
    <3>4. WordsWhole'
      BY <1>1, <2>3, <3>2, <3>3, WordLeft
    <3>. QED  BY <2>1, <3>2, <3>3, <3>4 DEF WordSoFar
  <2>. QED  BY <2>2, <2>3
<1>11. CASE input = <<>> /\ ungot' = <<>> /\ Ended(chunk, Nothing)
  <2>1. Filled(chunk, TRUE)
    <3>1. Nothing <= Space
      BY DEF Nothing, Space
    <3>. QED  BY <1>11, <3>1, Zenon DEF Ended
  <2>. QED  BY <1>7, <1>11, <2>1
<1>12. CASE input # <<>> /\ ungot' = <<Head(input)>> /\ Ended(chunk, Head(input))
  <2>1. CASE Head(input) <= Space
    <3>1. Filled(chunk, TRUE)
      BY <1>12, <2>1 DEF Ended
    <3>. QED  BY <1>7, <1>12, <2>1, <3>1
  <2>2. CASE ~(Head(input) <= Space) /\ Len(chunk) = call.room - 1
    <3>1. Filled(chunk, FALSE)
      BY <1>12, <2>2 DEF Ended
    <3>. QED  BY <1>8, <1>12, <2>2, <3>1
  <2>3. CASE ~(Head(input) <= Space) /\ Len(chunk) # call.room - 1
    <3>1. call' = [call EXCEPT !.chunk = chunk] /\ UNCHANGED at
      BY <1>12, <2>3 DEF Ended
    <3>. QED  BY <1>9, <1>12, <2>3, <3>1
  <2>. QED  BY <2>1, <2>2, <2>3
<1>. QED  BY <1>3, <1>10, <1>11, <1>12

-----------------------------------------------------------------------------
(***************************************************************************)
(* What is said of other calls says nothing of one that reads a word.      *)
(***************************************************************************)
LEMMA OnlyWords ==
  ASSUME Types', call'.op \in Words
  PROVE  (LineSoFar /\ ScanSoFar /\ WriteSoFar /\ LinesWhole /\ NumbersExact)'
<1>1. call'.op \in OpsAt(at')
  BY DEF Types
<1>2. at' \notin {"line", "minus", "digits", "write"} /\ call'.op \notin Numbers
  BY <1>1 DEF OpsAt, Words, Numbers, Writers
<1>3. call'.op \notin {"fgetline", "fgetc"} /\ call'.op \notin {"fgetline"} /\ call'.op \notin {"puts"} /\ call'.op \notin {"fprint"}
  BY DEF Words
<1>. QED  BY <1>2, <1>3 DEF LineSoFar, ScanSoFar, WriteSoFar, LinesWhole, NumbersExact, ScannedExact, PrintedExact, Done

(***************************************************************************)
(* Nor of one that reads a line or a byte.                                 *)
(***************************************************************************)
LEMMA OnlyLines ==
  ASSUME Types', call'.op \in {"fgetline", "fgetc"}
  PROVE  (WordSoFar /\ ScanSoFar /\ WriteSoFar /\ WordsWhole /\ NumbersExact)'
<1>1. call'.op \in OpsAt(at')
  BY DEF Types
<1>2. at' \notin {"minus", "digits", "write"} /\ call'.op \notin Numbers /\ call'.op \notin Words
  BY <1>1 DEF OpsAt, Words, Numbers, Writers
<1>3. call'.op \notin {"fprint"}
  OBVIOUS
<1>. QED  BY <1>2, <1>3 DEF WordSoFar, ScanSoFar, WriteSoFar, WordsWhole, NumbersExact, ScannedExact, PrintedExact, Done

(***************************************************************************)
(* Nor of a scan.                                                          *)
(***************************************************************************)
LEMMA OnlyScans ==
  ASSUME Types', call'.op \in Numbers
  PROVE  (WordSoFar /\ LineSoFar /\ WriteSoFar /\ TextIntact /\ PrintedExact)'
<1>1. call'.op \in OpsAt(at')
  BY DEF Types
<1>2. at' \notin {"line", "write"} /\ call'.op \notin Words
  BY <1>1 DEF OpsAt, Words, Numbers, Writers
<1>3. call'.op \notin {"fgetline", "fgetc"} /\ call'.op \notin {"fgetline"} /\ call'.op \notin {"puts"} /\ call'.op \notin {"fprint"}
  BY DEF Numbers
<1>. QED  BY <1>2, <1>3 DEF WordSoFar, LineSoFar, WriteSoFar, TextIntact, WordsWhole, LinesWhole, PrintedExact, Done

(***************************************************************************)
(* Nor of one that writes.                                                 *)
(***************************************************************************)
LEMMA OnlyWrites ==
  ASSUME Types', call'.op \in Writers
  PROVE  (Ahead /\ WordSoFar /\ LineSoFar /\ ScanSoFar /\ WordsWhole /\ ScannedExact)'
<1>1. call'.op \in OpsAt(at')
  BY DEF Types
<1>2. at' \notin {"line", "minus", "digits"} /\ call'.op \notin Words /\ call'.op \notin Numbers /\ call'.op \notin Readers
  BY <1>1 DEF OpsAt, Words, Numbers, Writers, Readers
<1>. QED  BY <1>2 DEF Ahead, WordSoFar, LineSoFar, ScanSoFar, WordsWhole, ScannedExact, Done

-----------------------------------------------------------------------------
(***************************************************************************)
(* fgetc loses no byte.                                                    *)
(***************************************************************************)
LEMMA OneByte ==
  ASSUME Types, FGetc, Types'
  PROVE  (Ahead /\ LineSoFar /\ LinesWhole)' /\ call'.op = "fgetc"
<1>1. PICK r \in Reads :
        /\ Taken(r)
        /\ call' = [Call("fgetc", <<>>, 1, 0) EXCEPT !.chunk = IF r.c = Nothing THEN <<>> ELSE <<r.c>>,
                                                     !.ret = IF r.err THEN "error" ELSE "true"]
  BY DEF FGetc
<1>2. /\ call'.op = "fgetc" /\ call'.before = Stream /\ at' = "idle"
      /\ call'.chunk = IF r.c = Nothing THEN <<>> ELSE <<r.c>>
  BY <1>1 DEF FGetc, Call
<1>3. Stream' = r.in /\ Stream \in Seq(Bytes) /\ r.in \in Seq(Bytes)
  BY <1>1, ReadFacts, TakenFacts
<1>4. call'.before = call'.chunk \o Stream'
  <2>1. CASE r.c = Nothing
    BY <1>2, <1>3, <2>1, ReadFacts, ConcatEmptySeq
  <2>2. CASE r.c # Nothing
    BY <1>2, <1>3, <2>2, ReadFacts
  <2>. QED  BY <2>1, <2>2
<1>5. Ahead'
  <2>1. CASE r.c = Nothing
    <3>1. Stream' = Stream
      BY <1>3, <2>1, ReadFacts
    <3>. QED  BY <1>2, <3>1, AheadStarts
  <2>2. CASE r.c # Nothing
    <3>1. PICK c \in Bytes, u \in Seq(Bytes) : u = r.in /\ Stream = <<c>> \o u
      BY <1>3, <2>2, ReadFacts
    <3>2. Follows(Stream, 0, Stream)
      <4>1. SubSeq(Stream, 1, Len(Stream)) = Stream
        BY <1>3, SubSeqFull
      <4>2. 0 \in 0 .. Len(Stream) /\ 0 + 1 = 1
        BY <1>3, LenProperties
      <4>. QED  BY <4>1, <4>2 DEF Follows, From
    <3>3. PICK g \in Int : Follows(Stream, g, <<c>> \o u)
      BY <3>1, <3>2
    <3>4. Follows(Stream, g + 1, u) /\ g + 1 = Len(Stream) - Len(u)
      BY <1>3, <3>3, Advance
    <3>5. Gone' = g + 1
      BY <1>2, <1>3, <3>1, <3>4 DEF Gone
    <3>. QED  BY <1>2, <1>3, <3>1, <3>4, <3>5 DEF Ahead
  <2>. QED  BY <2>1, <2>2
<1>6. LinesWhole' /\ LineSoFar'
  BY <1>2, <1>4 DEF LinesWhole, LineSoFar, Done
<1>. QED  BY <1>2, <1>5, <1>6

(***************************************************************************)
(* A line is what was taken, up to its newline, or to the end of the       *)
(* buffer or the stream.                                                   *)
(***************************************************************************)
LEMMA LinesStart ==
  ASSUME Types, FGetline, Types'
  PROVE  (Ahead /\ LineSoFar /\ LinesWhole)' /\ call'.op = "fgetline"
<1>1. PICK cap \in Caps : Start("line", Call("fgetline", <<>>, cap, 0))
  BY DEF FGetline
<1>2. call'.op = "fgetline" /\ call'.before = Stream /\ at' = "line" /\ call'.chunk = <<>> /\ Stream' = Stream
  BY <1>1 DEF Start, Call, Stream
<1>3. Ahead'
  BY <1>2, AheadStarts
<1>4. Stream = <<>> \o Stream
  <2>1. Stream \in Seq(Bytes)
    BY ConcatProperties DEF Stream, Types
  <2>. QED  BY <2>1, ConcatEmptySeq
<1>5. LineSoFar' /\ LinesWhole'
  BY <1>2, <1>4 DEF LineSoFar, LinesWhole, Done
<1>. QED  BY <1>2, <1>3, <1>5

(***************************************************************************)
(* The buffer is full.                                                     *)
(***************************************************************************)
LEMMA LinesFull ==
  ASSUME Types, Ahead, LineSoFar, LineFull, Types'
  PROVE  (Ahead /\ LineSoFar /\ LinesWhole)' /\ call'.op = "fgetline"
<1>1. /\ at = "line" /\ call.op = "fgetline" /\ call \in Calls /\ call.room \in Nat /\ call.chunk \in Seq(Bytes)
      /\ Len(call.chunk) + 1 >= call.room /\ Len(call.chunk) \in Nat
  <2>1. at = "line" /\ call.op \in OpsAt("line") /\ call \in Calls /\ Len(call.chunk) + 1 >= call.room
    BY DEF LineFull, Types
  <2>2. call.op = "fgetline" /\ call.room \in Nat /\ call.chunk \in Seq(Bytes)
    BY <2>1 DEF OpsAt, Calls
  <2>. QED  BY <2>1, <2>2, LenProperties
<1>2. at' = "idle" /\ call' = [call EXCEPT !.ret = "false"] /\ Stream' = Stream
  BY DEF LineFull, Return, Stream
<1>3. /\ call'.op = "fgetline" /\ call'.before = call.before /\ call'.chunk = call.chunk /\ call'.ret = "false"
      /\ call'.room = call.room
  BY <1>1, <1>2 DEF Calls
<1>4. /\ call.before = call.chunk \o Stream
      /\ \A i \in DOMAIN call.chunk : call.chunk[i] # Newline
      /\ call.chunk = <<>> \/ Len(call.chunk) < call.room
  BY <1>1 DEF LineSoFar
<1>5. Len(call.chunk) + 1 = call.room \/ call.room = 0
  <2>1. CASE Len(call.chunk) < call.room
    BY <1>1, <2>1
  <2>2. CASE call.chunk = <<>>
    <3>1. Len(call.chunk) = 0
      BY <2>2
    <3>. QED  BY <1>1, <3>1
  <2>. QED  BY <1>4, <2>1, <2>2
<1>6. Ahead'
  BY <1>1, <1>2, <1>3, AheadStays
<1>7. LineSoFar' /\ LinesWhole'
  BY <1>2, <1>3, <1>4, <1>5 DEF LineSoFar, LinesWhole, Done
<1>. QED  BY <1>3, <1>6, <1>7

(***************************************************************************)
(* A byte more, or no more.                                                *)
(***************************************************************************)
LEMMA LinesByte ==
  ASSUME Types, Ahead, LineSoFar, LineByte, Types'
  PROVE  (Ahead /\ LineSoFar /\ LinesWhole)' /\ call'.op = "fgetline"
<1> DEFINE line(c) == [call EXCEPT !.chunk = Append(@, c)]
<1>1. PICK r \in Reads :
        /\ Taken(r)
        /\ IF r.c = Nothing THEN Return(call, IF r.err THEN "error" ELSE "true")
           ELSE IF r.c = Newline THEN Return(line(r.c), "true")
           ELSE call' = line(r.c) /\ UNCHANGED at
  BY DEF LineByte
<1>2. /\ at = "line" /\ call.op = "fgetline" /\ call \in Calls /\ call.room \in Nat /\ call.chunk \in Seq(Bytes)
      /\ Len(call.chunk) + 1 < call.room /\ Len(call.chunk) \in Nat /\ call.op \in Readers
  <2>1. at = "line" /\ call.op \in OpsAt("line") /\ call \in Calls /\ Len(call.chunk) + 1 < call.room
    BY DEF LineByte, Types
  <2>2. call.op = "fgetline" /\ call.room \in Nat /\ call.chunk \in Seq(Bytes)
    BY <2>1 DEF OpsAt, Calls
  <2>. QED  BY <2>1, <2>2, LenProperties DEF Readers
<1>3. /\ call.before = call.chunk \o Stream
      /\ \A i \in DOMAIN call.chunk : call.chunk[i] # Newline
  BY <1>2 DEF LineSoFar
<1>4. Stream' = r.in /\ r.in \in Seq(Bytes) /\ Stream \in Seq(Bytes)
  BY <1>1, ReadFacts, TakenFacts
<1>5. CASE r.c = Nothing
  <2>1. at' = "idle" /\ call' = [call EXCEPT !.ret = IF r.err THEN "error" ELSE "true"]
    BY <1>1, <1>5 DEF Return
  <2>2. /\ call'.op = call.op /\ call'.before = call.before /\ call'.chunk = call.chunk
        /\ call'.ret = IF r.err THEN "error" ELSE "true"
    BY <1>2, <2>1 DEF Calls
  <2>3. Stream' = Stream /\ (~r.err => Stream = <<>>) /\ r.err \in BOOLEAN
    BY <1>4, <1>5, ReadFacts
  <2>4. Ahead'
    BY <2>2, <2>3, AheadStays
  <2>5. call'.ret # "false" /\ (call'.ret = "true" => Stream' = <<>>)
    BY <2>2, <2>3
  <2>6. LineSoFar' /\ LinesWhole'
    BY <1>2, <1>3, <2>1, <2>2, <2>3, <2>5, Zenon DEF LineSoFar, LinesWhole, Done
  <2>. QED  BY <1>2, <2>2, <2>4, <2>6
<1>6. CASE r.c # Nothing
  <2>0. PICK c \in Bytes, u \in Seq(Bytes) : c = r.c /\ u = r.in /\ Stream = <<c>> \o u
    BY <1>4, <1>6, ReadFacts
  <2> DEFINE chunk == Append(call.chunk, c)
  <2>1. Stream' = u
    BY <1>4, <2>0
  <2>2. /\ chunk \in Seq(Bytes) /\ Len(chunk) = Len(call.chunk) + 1 /\ chunk # <<>>
        /\ \A i \in 1 .. Len(call.chunk) : chunk[i] = call.chunk[i]
        /\ chunk[Len(chunk)] = c
    <3>1. /\ chunk \in Seq(Bytes) /\ Len(chunk) = Len(call.chunk) + 1 /\ chunk # <<>>
          /\ \A i \in 1 .. Len(call.chunk) : chunk[i] = call.chunk[i]
          /\ chunk[Len(call.chunk) + 1] = c
      BY <1>2, AppendProperties
    <3>. QED  BY <3>1
  <2>3. call.before = chunk \o u
    <3>1. chunk \o u = call.chunk \o (<<c>> \o u)
      BY <1>2, AppendBetween
    <3>. QED  BY <1>3, <2>0, <3>1
  <2>4. \A i \in DOMAIN chunk : chunk[i] = Newline => i = Len(chunk) /\ c = Newline
    <3> SUFFICES ASSUME NEW i \in DOMAIN chunk, chunk[i] = Newline PROVE i = Len(chunk) /\ c = Newline
      OBVIOUS
    <3>1. i \in 1 .. Len(chunk) /\ DOMAIN call.chunk = 1 .. Len(call.chunk)
      BY <1>2, <2>2, LenProperties
    <3>2. i \notin 1 .. Len(call.chunk)
      BY <1>3, <2>2, <3>1
    <3>3. i = Len(chunk)
      BY <1>2, <2>2, <3>1, <3>2
    <3>. QED  BY <2>2, <3>3
  <2>5. \/ c = Newline /\ Return(line(c), "true")
        \/ c # Newline /\ call' = line(c) /\ UNCHANGED at
    BY <1>1, <1>6, <2>0
  <2>6. line(c) = [call EXCEPT !.chunk = chunk]
    OBVIOUS
  <2> HIDE DEF line, chunk
  <2>7. CASE c = Newline /\ Return(line(c), "true")
    <3>1. at' = "idle" /\ call' = [[call EXCEPT !.chunk = chunk] EXCEPT !.ret = "true"]
      BY <2>6, <2>7 DEF Return
    <3>2. call'.op = call.op /\ call'.before = call.before /\ call'.chunk = chunk /\ call'.ret = "true"
      BY <1>2, <3>1 DEF Calls
    <3>3. Ahead'
      BY <1>2, <2>0, <2>1, <3>2, AheadMoves
    <3>4. Last(chunk) = Newline
      BY <2>2, <2>7 DEF Last
    <3>5. LineSoFar' /\ LinesWhole'
      BY <1>2, <2>1, <2>3, <2>4, <3>1, <3>2, <3>4 DEF LineSoFar, LinesWhole, Done
    <3>. QED  BY <1>2, <3>2, <3>3, <3>5
  <2>8. CASE c # Newline /\ call' = line(c) /\ UNCHANGED at
    <3>1. call'.op = call.op /\ call'.before = call.before /\ call'.chunk = chunk /\ call'.room = call.room
      BY <1>2, <2>6, <2>8 DEF Calls
    <3>2. Ahead'
      BY <1>2, <2>0, <2>1, <3>1, AheadMoves
    <3>3. Len(chunk) < call.room
      BY <1>2, <2>2
    <3>4. LineSoFar' /\ LinesWhole'
      BY <1>2, <2>1, <2>3, <2>4, <2>8, <3>1, <3>3 DEF LineSoFar, LinesWhole, Done
    <3>. QED  BY <1>2, <3>1, <3>2, <3>4
  <2>. QED  BY <2>5, <2>7, <2>8
<1>. QED  BY <1>5, <1>6

-----------------------------------------------------------------------------
(***************************************************************************)
(* Two texts put together can be cut apart again.                          *)
(***************************************************************************)
LEMMA CutApart ==
  ASSUME NEW s \in Seq(Bytes), NEW t \in Seq(Bytes), t # <<>>
  PROVE  SubSeq(s \o t, 1, Len(s)) = s /\ From(s \o t, Len(s) + 1) = t
<1>1. /\ Len(s) \in Nat /\ Len(t) \in Nat \ {0} /\ s \o t \in Seq(Bytes) /\ Len(s \o t) = Len(s) + Len(t)
  BY LenProperties, EmptySeq, ConcatProperties
<1>2. SubSeq(s \o t, 1, Len(s)) = s
  <2>1. CASE Len(s) = 0
    <3>1. s = <<>>
      BY <2>1, EmptySeq
    <3>2. SubSeq(s \o t, 1, 0) = <<>>
      BY SubSeqEmpty
    <3>. QED  BY <2>1, <3>1, <3>2
  <2>2. CASE Len(s) # 0
    <3>1. 1 \in 1 .. Len(s) /\ Len(s) \in 1 .. Len(s)
      BY <1>1, <2>2
    <3>. QED  BY <3>1, SubSeqOfConcat1, SubSeqFull
  <2>. QED  BY <2>1, <2>2
<1>3. SubSeq(s \o t, Len(s) + 1, Len(s) + Len(t)) = SubSeq(t, 1, Len(t))
  <2>1. /\ Len(s) + 1 \in Len(s) + 1 .. Len(s) + Len(t) /\ Len(s) + Len(t) \in Len(s) + 1 .. Len(s) + Len(t)
        /\ (Len(s) + 1) - Len(s) = 1 /\ (Len(s) + Len(t)) - Len(s) = Len(t)
    BY <1>1
  <2>. QED  BY <2>1, SubSeqOfConcat2
<1>. QED  BY <1>1, <1>2, <1>3, SubSeqFull DEF From

(***************************************************************************)
(* What is printed in a base is read as the number again.                  *)
(***************************************************************************)
LEMMA PrintedIs ==
  ASSUME NEW base \in {2, 10, 16}, NEW n \in Int
  PROVE  Signed(base, Printed(base, n)) = n
<1>1. CASE n < 0
  <2>1. 0 - n \in Nat
    BY <1>1
  <2>2. /\ Digits(base, 0 - n) \in Seq(Bytes) /\ Value(base, Digits(base, 0 - n)) = 0 - n
    BY <2>1, DigitsFacts
  <2> DEFINE d == Digits(base, 0 - n)  p == <<Minus>> \o d
  <2>3. Printed(base, n) = p
    BY <1>1 DEF Printed
  <2> HIDE DEF d
  <2>4. <<Minus>> \in Seq(Bytes) /\ <<Minus>> # <<>> /\ Len(<<Minus>>) = 1 /\ <<Minus>>[1] = Minus /\ d \in Seq(Bytes)
    BY <2>2 DEF Minus, Bytes, d
  <2>5. p \in Seq(Bytes) /\ p # <<>> /\ p[1] = Minus /\ Len(p) = 1 + Len(d)
    <3>1. p \in Seq(Bytes) /\ Len(p) = 1 + Len(d) /\ Len(d) \in Nat
      BY <2>4, ConcatProperties, LenProperties
    <3>2. p # <<>>
      BY <2>4, ConcatEqualIffEmpty
    <3>3. \A i \in 1 .. Len(<<Minus>>) + Len(d) : p[i] = IF i <= Len(<<Minus>>) THEN <<Minus>>[i] ELSE d[i - Len(<<Minus>>)]
      BY <2>4, ConcatProperties
    <3>4. 1 \in 1 .. Len(<<Minus>>) + Len(d) /\ 1 <= Len(<<Minus>>)
      BY <2>4, <3>1
    <3>5. p[1] = Minus
      BY <2>4, <3>3, <3>4, Zenon
    <3>. QED  BY <3>1, <3>2, <3>5
  <2>6. Tail(p) = d
    <3>1. d # <<>>
      <4>1. Digits(base, 0 - n) # <<>>
        BY <2>1, DigitsFacts
      <4>. QED  BY <4>1 DEF d
    <3>2. From(p, Len(<<Minus>>) + 1) = d
      BY <2>4, <3>1, CutApart
    <3>3. Tail(p) = SubSeq(p, 2, Len(p))
      BY <2>5, TailIsSubSeq
    <3>4. Len(<<Minus>>) + 1 = 2
      BY <2>4
    <3>. QED  BY <3>2, <3>3, <3>4 DEF From
  <2>7. Signed(base, p) = 0 - Value(base, d)
    BY <2>5, <2>6, Zenon DEF Signed
  <2>8. 0 - (0 - n) = n
    OBVIOUS
  <2>. QED  BY <2>2, <2>3, <2>7, <2>8, Zenon DEF d
<1>2. CASE ~(n < 0)
  <2>1. n \in Nat
    BY <1>2
  <2>2. Digits(base, n)[1] # Minus /\ Value(base, Digits(base, n)) = n
    BY <2>1, DigitsFacts
  <2>3. Printed(base, n) = Digits(base, n)
    BY <1>2 DEF Printed
  <2>. QED  BY <2>2, <2>3, Zenon DEF Signed
<1>. QED  BY <1>1, <1>2

(***************************************************************************)
(* A call that writes begins with all it has to say.                       *)
(***************************************************************************)
LEMMA WritesStart ==
  ASSUME Types, FPrint \/ Puts, Types'
  PROVE  (WriteSoFar /\ LinesWhole /\ PrintedExact)' /\ call'.op \in Writers
<1>1. CASE FPrint
  <2>1. PICK base \in {2, 10, 16}, n \in 0 - Half .. 2 * Half - 1 :
           Start("write", [Call("fprint", <<>>, base, n) EXCEPT !.chunk = Printed(base, n)])
    BY <1>1 DEF FPrint
  <2>2. /\ at' = "write" /\ Stream' = Stream /\ call'.op = "fprint" /\ call'.chunk = Printed(base, n)
        /\ call'.room = base /\ call'.num = n /\ call'.before = Stream
    BY <2>1 DEF Start, Call, Stream
  <2>3. Said' = Printed(base, n)
    BY <2>2 DEF Said
  <2>. QED  BY <2>2, <2>3 DEF WriteSoFar, LinesWhole, PrintedExact, Done, Writers
<1>2. CASE Puts
  <2>1. PICK line \in Lines : Start("write", [Call("puts", line, 0, 0) EXCEPT !.chunk = Append(line, Newline)])
    BY <1>2 DEF Puts
  <2>2. /\ at' = "write" /\ Stream' = Stream /\ call'.op = "puts" /\ call'.chunk = Append(line, Newline)
        /\ call'.had = line /\ call'.before = Stream
    BY <2>1 DEF Start, Call, Stream
  <2>3. Said' = Append(line, Newline)
    BY <2>2 DEF Said
  <2>. QED  BY <2>2, <2>3 DEF WriteSoFar, LinesWhole, PrintedExact, Done, Writers
<1>. QED  BY <1>1, <1>2

\* Two ways of putting four texts together.
AllTheSame(s, t, x, y) == (s \o (t \o x)) \o y = (s \o t) \o (x \o y)

(***************************************************************************)
(* Four texts together, in whatever order they are put so.                 *)
(***************************************************************************)
LEMMA FourTogether ==
  ASSUME NEW s \in Seq(Bytes), NEW t \in Seq(Bytes), NEW x \in Seq(Bytes), NEW y \in Seq(Bytes)
  PROVE  AllTheSame(s, t, x, y)
<1>1. s \o (t \o x) = (s \o t) \o x
  BY ConcatAssociative, SMTT(30)
<1>2. PICK w \in Seq(Bytes) : w = s \o t
  BY ConcatProperties
<1>3. (w \o x) \o y = w \o (x \o y)
  BY ConcatAssociative, SMTT(30)
<1>. QED  BY <1>1, <1>2, <1>3, Zenon DEF AllTheSame

(***************************************************************************)
(* What is written is behind the stream, and the rest still to write.      *)
(***************************************************************************)
LEMMA WritesSome ==
  ASSUME NEW s \in Seq(Bytes), NEW t \in Seq(Bytes), NEW d \in Seq(Bytes), NEW k \in 1 .. Len(d)
  PROVE  (s \o (t \o SubSeq(d, 1, k))) \o SubSeq(d, k + 1, Len(d)) = (s \o t) \o d
<1>1. Len(d) \in Nat /\ \A i \in 1 .. Len(d) : d[i] \in Bytes
  BY LenProperties, ElementOfSeq
<1>2. SubSeq(d, 1, k) \in Seq(Bytes) /\ SubSeq(d, k + 1, Len(d)) \in Seq(Bytes)
  <2>1. 1 \in Int /\ k \in Int /\ \A i \in 1 .. k : d[i] \in Bytes
    BY <1>1
  <2>2. k + 1 \in Int /\ Len(d) \in Int /\ \A i \in k + 1 .. Len(d) : d[i] \in Bytes
    BY <1>1
  <2>. QED  BY <2>1, <2>2, SubSeqProperties
<1>3. SubSeq(d, 1, k) \o SubSeq(d, k + 1, Len(d)) = d
  <2>1. 1 \in 1 .. Len(d) + 1 /\ k \in 1 - 1 .. Len(d) /\ Len(d) \in k .. Len(d)
    BY <1>1
  <2>. QED  BY <2>1, ConcatAdjacentSubSeq, SubSeqFull
<1>4. PICK x \in Seq(Bytes), y \in Seq(Bytes) : x = SubSeq(d, 1, k) /\ y = SubSeq(d, k + 1, Len(d))
  BY <1>2
<1>5. (s \o (t \o x)) \o y = (s \o t) \o (x \o y)
  <2>1. AllTheSame(s, t, x, y)
    BY <1>4, FourTogether, Zenon
  <2>. QED  BY <2>1 DEF AllTheSame
<1>. QED  BY <1>3, <1>4, <1>5

(***************************************************************************)
(* A call that writes says what it said, if it returns true.               *)
(***************************************************************************)
LEMMA WritesStep ==
  ASSUME Types, WriteSoFar, Write, Types'
  PROVE  (WriteSoFar /\ LinesWhole /\ PrintedExact)' /\ call'.op \in Writers
<1>1. /\ call \in Calls /\ call.op \in Writers /\ call.chunk \in Seq(Bytes) /\ call.before \in Seq(Bytes)
      /\ call.had \in Seq(Bytes) /\ call.num \in Int /\ at = "write"
      /\ input \in Seq(Bytes) /\ ungot \in Seq(Bytes) /\ Stream \in Seq(Bytes)
  <2>1. call \in Calls /\ call.op \in OpsAt("write") /\ at = "write" /\ input \in Seq(Bytes) /\ ungot \in Seq(Bytes)
    BY DEF Write, Types
  <2>2. call.op \in Writers
    BY <2>1 DEF OpsAt
  <2>3. call.chunk \in Seq(Bytes) /\ call.before \in Seq(Bytes) /\ call.had \in Seq(Bytes) /\ call.num \in Int
    BY <2>1 DEF Calls
  <2>. QED  BY <2>1, <2>2, <2>3, ConcatProperties DEF Stream
<1>2. /\ Stream \o call.chunk = call.before \o Said
      /\ call.op = "fprint" => call.room \in {2, 10, 16} /\ call.num \in 0 - Half .. 2 * Half - 1
  BY <1>1 DEF WriteSoFar
<1>3. CASE call.chunk = <<>> /\ UNCHANGED <<input, ungot>> /\ Return(call, "true")
  <2>1. at' = "idle" /\ call' = [call EXCEPT !.ret = "true"] /\ Stream' = Stream
    BY <1>3 DEF Return, Stream
  <2>2. /\ call'.op = call.op /\ call'.before = call.before /\ call'.had = call.had /\ call'.room = call.room
        /\ call'.num = call.num
    BY <1>1, <2>1 DEF Calls
  <2>3. Stream = call.before \o Said
    BY <1>1, <1>2, <1>3, ConcatEmptySeq
  <2>4. LinesWhole'
    <3>1. call.op = "puts" => Stream = call.before \o call.had \o <<Newline>>
      <4> HAVE call.op = "puts"
      <4>1. Said = Append(call.had, Newline) /\ Newline \in Bytes
        BY DEF Said, Newline, Bytes
      <4>2. Append(call.before \o call.had, Newline) = (call.before \o call.had) \o <<Newline>>
        <5>1. call.before \o call.had \in Seq(Bytes)
          BY <1>1, ConcatProperties
        <5>. QED  BY <4>1, <5>1, AppendIsConcat
      <4>3. call.before \o Append(call.had, Newline) = Append(call.before \o call.had, Newline)
        BY <1>1, <4>1, AppendBehind
      <4>. QED  BY <2>3, <4>1, <4>2, <4>3
    <3>. QED  BY <1>1, <2>1, <2>2, <3>1 DEF LinesWhole, Done, Writers
  <2>5. PrintedExact'
    <3> SUFFICES ASSUME call.op = "fprint"
                 PROVE  /\ SubSeq(Stream, 1, Len(call.before)) = call.before
                        /\ Signed(call.room, From(Stream, Len(call.before) + 1)) = call.num
      BY <2>1, <2>2 DEF PrintedExact, Done
    <3>1. Said = Printed(call.room, call.num) /\ call.room \in {2, 10, 16}
      BY <1>2 DEF Said
    <3>2. Printed(call.room, call.num) \in Seq(Bytes) /\ Printed(call.room, call.num) # <<>>
      BY <1>1, <3>1, PrintedType
    <3>3. SubSeq(Stream, 1, Len(call.before)) = call.before /\ From(Stream, Len(call.before) + 1) = Printed(call.room, call.num)
      BY <1>1, <2>3, <3>1, <3>2, CutApart
    <3>. QED  BY <1>1, <3>1, <3>3, PrintedIs
  <2>. QED  BY <1>1, <2>1, <2>2, <2>4, <2>5 DEF WriteSoFar
<1>4. ASSUME NEW k \in 1 .. Len(call.chunk), UNCHANGED <<ungot, at>>,
             input' = input \o SubSeq(call.chunk, 1, k),
             call' = [call EXCEPT !.chunk = SubSeq(@, k + 1, Len(@))]
      PROVE  (WriteSoFar /\ LinesWhole /\ PrintedExact)' /\ call'.op \in Writers
  <2>1. /\ call'.op = call.op /\ call'.before = call.before /\ call'.had = call.had /\ call'.room = call.room
        /\ call'.num = call.num /\ call'.chunk = SubSeq(call.chunk, k + 1, Len(call.chunk))
    BY <1>1, <1>4 DEF Calls
  <2>2. Stream' = ungot \o (input \o SubSeq(call.chunk, 1, k))
    BY <1>4 DEF Stream
  <2>3. Stream' \o call'.chunk = Stream \o call.chunk
    <3>1. PICK d \in Seq(Bytes) : d = call.chunk
      BY <1>1
    <3>0. k \in 1 .. Len(d) /\ ungot \in Seq(Bytes) /\ input \in Seq(Bytes)
      BY <1>1, <1>4, <3>1
    <3>2. (ungot \o (input \o SubSeq(d, 1, k))) \o SubSeq(d, k + 1, Len(d)) = (ungot \o input) \o d
      BY <3>0, WritesSome, ZenonT(60)
    <3>. QED  BY <2>1, <2>2, <3>1, <3>2 DEF Stream
  <2>4. Said' = Said
    BY <2>1 DEF Said
  <2>5. at' = "write"
    BY <1>1, <1>4
  <2>. QED  BY <1>1, <1>2, <2>1, <2>3, <2>4, <2>5 DEF WriteSoFar, LinesWhole, PrintedExact, Done
<1>5. CASE Return(call, "error")
  <2>1. at' = "idle" /\ call' = [call EXCEPT !.ret = "error"]
    BY <1>5 DEF Return
  <2>2. call'.op = call.op /\ call'.ret = "error"
    BY <1>1, <2>1 DEF Calls
  <2>. QED  BY <1>1, <2>1, <2>2 DEF WriteSoFar, LinesWhole, PrintedExact, Done, Writers
<1>. QED  BY <1>3, <1>4, <1>5 DEF Write

-----------------------------------------------------------------------------
(***************************************************************************)
(* A digit more: ten times the number and the digit, on the side of zero   *)
(* where the sign is.                                                      *)
(***************************************************************************)
LEMMA SignedGrows ==
  ASSUME NEW t \in Seq(Bytes), NEW c \in Bytes, Digit(c)
  PROVE  /\ Signed(10, t) \in Int
         /\ Signed(10, Append(t, c)) = 10 * Signed(10, t) + (IF t # <<>> /\ t[1] = Minus THEN 48 - c ELSE c - 48)
<1>0. c # Minus /\ Worth(c) = c - 48 /\ c \in Int /\ 10 \in Nat
  BY DEF Digit, Minus, Worth
<1>1. Append(t, c) \in Seq(Bytes) /\ Append(t, c) # <<>> /\ Value(10, t) \in Int
  BY <1>0, AppendProperties, ValueGrows, ZenonT(60)
<1>2. CASE t # <<>> /\ t[1] = Minus
  <2>1. Len(t) \in Nat \ {0}
    BY <1>2, EmptySeq
  <2>2. Append(t, c)[1] = t[1]
    <3>1. 1 \in 1 .. Len(t)
      BY <2>1
    <3>. QED  BY <3>1, AppendProperties
  <2>3. Tail(Append(t, c)) = Append(Tail(t), c)
    BY <1>2, HeadTailAppend
  <2>4. Tail(t) \in Seq(Bytes)
    BY <1>2, HeadTailProperties
  <2>5. Value(10, Tail(t)) \in Int /\ Value(10, Append(Tail(t), c)) = 10 * Value(10, Tail(t)) + Worth(c)
    BY <1>0, <2>4, ValueGrows
  <2>6. Signed(10, t) = 0 - Value(10, Tail(t)) /\ Signed(10, Append(t, c)) = 0 - Value(10, Append(Tail(t), c))
    BY <1>1, <1>2, <2>2, <2>3 DEF Signed
  <2> DEFINE v == Value(10, Tail(t))
  <2> HIDE DEF v
  <2>7. v \in Int /\ Signed(10, t) = 0 - v /\ Signed(10, Append(t, c)) = 0 - (10 * v + (c - 48))
    BY <1>0, <2>5, <2>6 DEF v
  <2>8. 0 - (10 * v + (c - 48)) = 10 * (0 - v) + (48 - c)
    BY <1>0, <2>7
  <2>. QED  BY <1>2, <2>7, <2>8
<1>3. CASE ~(t # <<>> /\ t[1] = Minus)
  <2>1. Append(t, c)[1] # Minus
    <3>1. CASE t = <<>>
      <4>1. Append(t, c)[1] = c
        BY <3>1
      <4>. QED  BY <1>0, <4>1
    <3>2. CASE t # <<>>
      <4>1. Len(t) \in Nat \ {0}
        BY <3>2, EmptySeq
      <4>2. 1 \in 1 .. Len(t)
        BY <4>1
      <4>3. Append(t, c)[1] = t[1]
        BY <4>2, AppendProperties
      <4>. QED  BY <1>3, <3>2, <4>3
    <3>. QED  BY <3>1, <3>2
  <2>2. Value(10, Append(t, c)) = 10 * Value(10, t) + Worth(c)
    BY <1>0, ValueGrows
  <2>3. Signed(10, t) = Value(10, t) /\ Signed(10, Append(t, c)) = Value(10, Append(t, c))
    BY <1>3, <2>1, Zenon DEF Signed
  <2>. QED  BY <1>0, <1>1, <1>3, <2>2, <2>3
<1>. QED  BY <1>2, <1>3

(***************************************************************************)
(* Without a digit it is zero.                                             *)
(***************************************************************************)
LEMMA SignedNothing == Signed(10, <<>>) = 0 /\ Signed(10, <<Minus>>) = 0
<1>1. Value(10, <<>>) = 0
  <2>1. 10 \in Nat
    OBVIOUS
  <2>. QED  BY <2>1, ValueGrows
<1>2. Tail(<<Minus>>) = <<>> /\ <<Minus>> # <<>> /\ <<Minus>>[1] = Minus
  OBVIOUS
<1>3. Signed(10, <<>>) = 0
  BY <1>1 DEF Signed
<1>4. Signed(10, <<Minus>>) = 0
  BY <1>1, <1>2 DEF Signed
<1>. QED  BY <1>3, <1>4

(***************************************************************************)
(* How fscan sees a byte: the end of the file at its end and at a 255.     *)
(***************************************************************************)
LEMMA SeenFacts ==
  ASSUME call.op \in Numbers
  PROVE  /\ Seen(Nothing) = Nothing
         /\ \A c \in Bytes :
               /\ Seen(c) = Nothing <=> c = 255
               /\ Blank(Seen(c)) <=> ~(c \in Space + 1 .. 127 \/ c = 255)
               /\ Digit(Seen(c)) => Seen(c) = c /\ Digit(c)
               /\ Seen(c) = Minus => c = Minus
BY DEF Seen, Nothing, Bytes, Blank, Space, Digit, Minus

(***************************************************************************)
(* A scan begins before the blanks.                                        *)
(***************************************************************************)
LEMMA ScansStart ==
  ASSUME Types, FScan, Types'
  PROVE  (Ahead /\ ScanSoFar /\ ScannedExact)' /\ call'.op \in Numbers
<1>1. PICK op \in Numbers : Start("blanks", Call(op, <<>>, 0, 0))
  BY DEF FScan
<1>2. /\ call'.op = op /\ call'.num = 0 /\ call'.neg = FALSE /\ call'.before = Stream
      /\ at' = "blanks" /\ Stream' = Stream
  BY <1>1 DEF Start, Call, Stream
<1>3. Ahead' /\ Gone' = 0
  BY <1>2, AheadStarts
<1>4. 0 <= Blanks(Stream)
  <2>1. Stream \in Seq(Bytes)
    BY ConcatProperties DEF Stream, Types
  <2>2. Blanks(Stream) \in 0 .. Len(Stream) /\ Len(Stream) \in Nat
    BY <2>1, BlanksFacts, LenProperties
  <2>. QED  BY <2>2
<1>5. ScanSoFar'
  BY <1>2, <1>3, <1>4 DEF ScanSoFar
<1>6. ScannedExact'
  BY <1>2 DEF ScannedExact, Done
<1>. QED  BY <1>2, <1>3, <1>5, <1>6

(***************************************************************************)
(* The blanks are before the first byte that is not one.                   *)
(***************************************************************************)
LEMMA BlanksMove ==
  ASSUME NEW b \in Seq(Bytes), NEW g \in Nat, g + 1 \in 1 .. Len(b), g <= Blanks(b)
  PROVE  /\ ~(b[g + 1] \in Space + 1 .. 127 \/ b[g + 1] = 255) => g + 1 <= Blanks(b)
         /\ b[g + 1] \in Space + 1 .. 127 \/ b[g + 1] = 255 => g = Blanks(b)
<1> DEFINE k == Blanks(b)  Sees(c) == c \in Space + 1 .. 127 \/ c = 255
<1>1. k \in 0 .. Len(b) /\ (k = Len(b) \/ Sees(b[k + 1])) /\ \A i \in 1 .. Len(b) : i <= k => ~Sees(b[i])
  BY BlanksFacts
<1>2. Len(b) \in Nat /\ g <= k /\ g + 1 \in 1 .. Len(b)
  BY LenProperties
<1> HIDE DEF k, Sees
<1>3. ~Sees(b[g + 1]) => g + 1 <= k
  <2> SUFFICES ASSUME ~(g + 1 <= k) PROVE Sees(b[g + 1])
    OBVIOUS
  <2>1. g = k /\ k # Len(b)
    BY <1>1, <1>2
  <2>. QED  BY <1>1, <2>1
<1>4. Sees(b[g + 1]) => g = k
  <2> SUFFICES ASSUME g # k PROVE ~Sees(b[g + 1])
    OBVIOUS
  <2>1. g + 1 <= k
    BY <1>1, <1>2
  <2>. QED  BY <1>1, <1>2, <2>1
<1>. QED  BY <1>3, <1>4 DEF k, Sees

(***************************************************************************)
(* A blank that is passed is before the number.                            *)
(***************************************************************************)
LEMMA ScansSkip ==
  ASSUME Types, Ahead, ScanSoFar, Skip, call.op \in Numbers
  PROVE  (Ahead /\ ScanSoFar /\ ScannedExact)' /\ call' = call /\ at' = "blanks"
<1>1. PICK r \in Reads : Blank(Seen(r.c)) /\ Taken(r) /\ UNCHANGED <<at, call>>
  BY DEF Skip, Passed
<1>2. r.c # Nothing
  BY <1>1, SeenFacts DEF Blank
<1>3. /\ at = "blanks" /\ call' = call /\ at' = at /\ call.op \in Readers /\ call.before \in Seq(Bytes)
      /\ Gone <= Blanks(call.before) /\ call.num = 0 /\ ~call.neg
  BY <1>1 DEF Skip, Types, Calls, ScanSoFar, Readers
<1>4. PICK c \in Bytes, u \in Seq(Bytes) : c = r.c /\ u = r.in /\ Stream = <<c>> \o u
  BY <1>2, ReadFacts
<1>5. Stream' = u
  BY <1>1, <1>4, TakenFacts
<1>6. /\ Ahead' /\ Gone \in Nat /\ Gone' = Gone + 1
      /\ Gone + 1 \in 1 .. Len(call.before) /\ call.before[Gone + 1] = c
  BY <1>3, <1>4, <1>5, AheadMoves
<1>7. ~(c \in Space + 1 .. 127 \/ c = 255)
  BY <1>1, <1>4, SeenFacts
<1>8. Gone + 1 <= Blanks(call.before)
  <2>1. ~(call.before[Gone + 1] \in Space + 1 .. 127 \/ call.before[Gone + 1] = 255)
    BY <1>6, <1>7
  <2>. QED  BY <1>3, <1>6, <2>1, BlanksMove
<1>9. ScanSoFar' /\ ScannedExact'
  BY <1>3, <1>6, <1>8 DEF ScanSoFar, ScannedExact, Done
<1>. QED  BY <1>3, <1>6, <1>9

(***************************************************************************)
(* A scan that finds no number has lost nothing but blanks and a minus.    *)
(***************************************************************************)
LEMMA ScanStops ==
  ASSUME Types', Ahead', call'.op \in Numbers, call'.ret \notin {"true", "ERR_OVERFLOW"},
         call'.ret = "ERR_PARSE" => Scanned' = <<>> \/ Scanned' = <<Minus>>,
         call'.ret = "ERR_EOF" => Stream' = <<>> \/ Stream'[1] = 255
  PROVE  ScannedExact'
<1>1. From(call'.before, Gone' + 1) = Stream'
  BY DEF Ahead, Readers, Follows
<1>. QED  BY <1>1, Zenon DEF ScannedExact, Scanned, Gone

\* Whether an integer of a scan of a kind holds n.
Holds(op, n) == IF op = "fscanu" THEN n < 2 * Half ELSE n \in 0 - Half .. Half - 1

(***************************************************************************)
(* One that does has the number of the digits it took.                     *)
(***************************************************************************)
LEMMA ScanReturns ==
  ASSUME Types', Ahead', call'.op \in Numbers, call'.ret \in {"true", "ERR_OVERFLOW"},
         NEW t \in Seq(Bytes), Numeral(t), Scanned' = t \/ Scanned' = Append(t, 255),
         call'.ret = "true" /\ Holds(call'.op, Signed(10, t)) => call'.num = Signed(10, t),
         call'.ret = "ERR_OVERFLOW" => ~Holds(call'.op, Signed(10, t))
  PROVE  ScannedExact'
<1> DEFINE taken == Scanned'
           token == IF taken # <<>> /\ Last(taken) = 255 THEN Front(taken) ELSE taken
<1>1. From(call'.before, Gone' + 1) = Stream'
  BY DEF Ahead, Readers, Follows
<1>2. token = t
  <2>1. CASE taken = t
    <3>1. taken # <<>> => Last(taken) # 255
      <4> SUFFICES ASSUME t # <<>> PROVE t[Len(t)] # 255
        BY <2>1 DEF Last
      <4>1. Len(t) \in Nat \ {0} /\ DOMAIN t = 1 .. Len(t)
        BY EmptySeq, LenProperties
      <4>2. Len(t) \in DOMAIN t
        BY <4>1
      <4>3. Digit(t[Len(t)]) \/ t[Len(t)] = Minus
        BY <4>2 DEF Numeral
      <4>. QED  BY <4>3 DEF Digit, Minus
    <3>. QED  BY <2>1, <3>1
  <2>2. CASE taken = Append(t, 255)
    <3>1. /\ taken # <<>> /\ taken \in Seq(Bytes) /\ Len(taken) = Len(t) + 1 /\ Len(t) \in Nat
          /\ taken[Len(t) + 1] = 255
      <4>1. 255 \in Bytes
        BY DEF Bytes
      <4>. QED  BY <2>2, <4>1, AppendProperties, LenProperties
    <3>2. Last(taken) = 255
      BY <3>1 DEF Last
    <3>3. Front(taken) = t
      <4>1. Front(taken) = SubSeq(taken, 1, Len(t))
        <5>1. Len(taken) - 1 = Len(t)
          BY <3>1
        <5>. QED  BY <5>1 DEF Front
      <4>2. Append(t, 255) = t \o <<255>> /\ <<255>> \in Seq(Bytes) /\ <<255>> # <<>>
        BY AppendIsConcat DEF Bytes
      <4>3. SubSeq(t \o <<255>>, 1, Len(t)) = t
        BY <4>2, CutApart
      <4>. QED  BY <2>2, <4>1, <4>2, <4>3
    <3>. QED  BY <3>1, <3>2, <3>3
  <2>. QED  BY <2>1, <2>2
<1>3. SubSeq(call'.before, Blanks(call'.before) + 1, Len(call'.before) - Len(Stream')) = taken
  BY DEF Scanned, Gone
<1>4. From(call'.before, Len(call'.before) - Len(Stream') + 1) = Stream'
  BY <1>1 DEF Gone
<1> HIDE DEF taken
<1>5. \A i \in DOMAIN t : Digit(t[i]) \/ (i = 1 /\ t[i] = Minus)
  BY DEF Numeral
<1>6. (IF taken # <<>> /\ Last(taken) = 255 THEN Front(taken) ELSE taken) = t
  BY <1>2
<1>7. call'.ret # "ERR_PARSE" /\ call'.ret # "ERR_EOF"
  OBVIOUS
<1>. QED  BY <1>3, <1>4, <1>5, <1>6, <1>7, ZenonT(60) DEF ScannedExact, Fits, Holds

(***************************************************************************)
(* What is scanned grows by a byte taken behind the blanks.                *)
(***************************************************************************)
LEMMA ScannedGrows ==
  ASSUME NEW b \in Seq(Bytes), NEW g \in Nat, g + 1 \in 1 .. Len(b), g >= Blanks(b)
  PROVE  /\ SubSeq(b, Blanks(b) + 1, g) \in Seq(Bytes)
         /\ SubSeq(b, Blanks(b) + 1, g + 1) = Append(SubSeq(b, Blanks(b) + 1, g), b[g + 1])
<1>1. Blanks(b) \in 0 .. Len(b) /\ Len(b) \in Nat
  BY BlanksFacts, LenProperties
<1> DEFINE m == Blanks(b) + 1
<1>2. m \in Nat \ {0} /\ g < Len(b) /\ m <= g + 1
  BY <1>1
<1> HIDE DEF m
<1>3. SubSeq(b, m, g + 1) = Append(SubSeq(b, m, g), b[g + 1]) /\ SubSeq(b, m, g) \in Seq(Bytes)
  BY <1>2, PieceGrows
<1>. QED  BY <1>3 DEF m

(***************************************************************************)
(* Nothing is scanned before them.                                         *)
(***************************************************************************)
LEMMA ScannedNothing ==
  ASSUME NEW b \in Seq(Bytes), NEW g \in Int, g <= Blanks(b)
  PROVE  SubSeq(b, Blanks(b) + 1, g) = <<>>
<1>1. Blanks(b) \in 0 .. Len(b) /\ Len(b) \in Nat
  BY BlanksFacts, LenProperties
<1>2. Blanks(b) + 1 \in Int /\ g < Blanks(b) + 1
  BY <1>1
<1>. QED  BY <1>2, SubSeqEmpty

(***************************************************************************)
(* The first byte behind the blanks: a sign, a digit, or no number.        *)
(***************************************************************************)
LEMMA ScansSign ==
  ASSUME Types, Ahead, ScanSoFar, Sign, Types'
  PROVE  (Ahead /\ ScanSoFar /\ ScannedExact)' /\ call'.op = call.op
<1>1. PICK r \in Reads :
        /\ ~Blank(Seen(r.c))
        /\ IF Seen(r.c) = Minus /\ call.op = "fscan"
           THEN /\ Taken(r)
                /\ at' = "minus" /\ call' = [call EXCEPT !.neg = TRUE]
           ELSE /\ Peeked(r)
                /\ IF r.err THEN Return(call, "error")
                   ELSE IF Seen(r.c) = Nothing THEN Return(call, "ERR_EOF")
                   ELSE IF ~Digit(Seen(r.c)) THEN Return(call, "ERR_PARSE")
                   ELSE at' = "digits" /\ UNCHANGED call
  BY DEF Sign
<1> DEFINE b == call.before
<1>2. /\ at = "blanks" /\ call.op \in Numbers /\ call.op \in Readers /\ call \in Calls /\ b \in Seq(Bytes)
      /\ Gone <= Blanks(b) /\ call.num = 0 /\ call.neg = FALSE
  BY DEF Sign, Types, Calls, ScanSoFar, Readers
<1>3. Gone \in Int /\ Stream \in Seq(Bytes)
  <2>1. Stream \in Seq(Bytes)
    BY ConcatProperties DEF Stream, Types
  <2>. QED  BY <1>2, <2>1, LenProperties DEF Gone
<1>4. Scanned = <<>>
  BY <1>2, <1>3, ScannedNothing DEF Scanned
<1>5. ASSUME NEW c \in Bytes, NEW u \in Seq(Bytes), Stream = <<c>> \o u, c \in Space + 1 .. 127
      PROVE  Gone = Blanks(b) /\ Gone \in Nat /\ Gone + 1 \in 1 .. Len(b) /\ b[Gone + 1] = c
  <2>1. Follows(b, Gone, <<c>> \o u)
    BY <1>2, <1>5 DEF Ahead
  <2>2. PICK g \in Int : g = Gone
    BY <1>3
  <2>3. g + 1 \in 1 .. Len(b) /\ b[g + 1] = c
    <3>1. Follows(b, g, <<c>> \o u)
      BY <2>1, <2>2
    <3>. QED  BY <1>2, <3>1, Advance
  <2>4. g \in Nat /\ g <= Blanks(b)
    BY <1>2, <2>2, <2>3
  <2>5. b[g + 1] \in Space + 1 .. 127
    BY <1>5, <2>3
  <2>6. g = Blanks(b)
    BY <1>2, <2>3, <2>4, <2>5, BlanksMove
  <2>. QED  BY <2>2, <2>3, <2>4, <2>6
<1> HIDE DEF b
\* A minus.
<1>6. CASE Seen(r.c) = Minus /\ call.op = "fscan" /\ Taken(r) /\ at' = "minus" /\ call' = [call EXCEPT !.neg = TRUE]
  <2>1. r.c # Nothing
    BY <1>2, <1>6, SeenFacts DEF Nothing, Minus
  <2>2. PICK c \in Bytes, u \in Seq(Bytes) : c = r.c /\ u = r.in /\ Stream = <<c>> \o u
    BY <2>1, ReadFacts
  <2>3. c = Minus /\ c \in Space + 1 .. 127
    <3>1. c = Minus
      BY <1>2, <1>6, <2>2, SeenFacts
    <3>. QED  BY <3>1 DEF Minus, Space
  <2>4. Stream' = u
    BY <1>6, <2>2, TakenFacts
  <2>5. call'.op = call.op /\ call'.before = b /\ call'.num = 0 /\ call'.neg = TRUE
    BY <1>2, <1>6 DEF Calls, b
  <2>6. Ahead' /\ Gone' = Gone + 1
    BY <1>2, <2>2, <2>4, <2>5, AheadMoves DEF b
  <2>7. Gone = Blanks(b) /\ Gone \in Nat /\ Gone + 1 \in 1 .. Len(b) /\ b[Gone + 1] = Minus
    BY <1>5, <2>2, <2>3
  <2>8. Scanned' = <<Minus>>
    <3>1. SubSeq(b, Blanks(b) + 1, Gone + 1) = Append(SubSeq(b, Blanks(b) + 1, Gone), b[Gone + 1])
      <4>1. Gone >= Blanks(b)
        BY <2>7
      <4>2. b \in Seq(Bytes)
        BY <1>2
      <4>. QED  BY <2>7, <4>1, <4>2, ScannedGrows
    <3>2. SubSeq(b, Blanks(b) + 1, Gone) = <<>>
      BY <1>4 DEF Scanned, b
    <3>3. Scanned' = SubSeq(b, Blanks(b) + 1, Gone + 1)
      BY <2>5, <2>6 DEF Scanned
    <3>4. Append(<<>>, Minus) = <<Minus>>
      OBVIOUS
    <3>. QED  BY <2>7, <3>1, <3>2, <3>3, <3>4, Zenon
  <2>9. ScanSoFar' /\ ScannedExact'
    BY <1>6, <2>5, <2>8 DEF ScanSoFar, ScannedExact, Done
  <2>. QED  BY <2>5, <2>6, <2>9
\* No number.
<1>7. ASSUME Peeked(r), NEW ret \in {"error", "ERR_EOF", "ERR_PARSE"}, Return(call, ret),
             ret = "ERR_EOF" => ~r.err /\ Seen(r.c) = Nothing
      PROVE  (Ahead /\ ScanSoFar /\ ScannedExact)' /\ call'.op = call.op
  <2>1. at' = "idle" /\ call' = [call EXCEPT !.ret = ret]
    BY <1>7 DEF Return
  <2>2. call'.op = call.op /\ call'.before = b /\ call'.ret = ret
    BY <1>2, <2>1 DEF Calls, b
  <2>3. Stream' = Stream
    BY <1>7, PeekedFacts
  <2>4. Ahead' /\ Gone' = Gone
    BY <2>2, <2>3, AheadStays DEF b
  <2>5. Scanned' = <<>>
    BY <1>4, <2>2, <2>4 DEF Scanned, b
  <2>6. ret = "ERR_EOF" => Stream = <<>> \/ Stream[1] = 255
    <3> HAVE ret = "ERR_EOF"
    <3>1. CASE r.c = Nothing
      BY <1>7, <3>1, ReadFacts
    <3>2. CASE r.c # Nothing
      <4>1. PICK c \in Bytes, u \in Seq(Bytes) : c = r.c /\ Stream = <<c>> \o u
        BY <3>2, ReadFacts
      <4>2. c = 255
        BY <1>2, <1>7, <4>1, SeenFacts
      <4>3. PICK g \in Int : Follows(b, g, <<c>> \o u) /\ g = Gone
        BY <1>2, <1>3, <4>1 DEF Ahead, b
      <4>4. (<<c>> \o u)[1] = c
        <5>1. <<c>> \in Seq(Bytes) /\ Len(<<c>>) = 1 /\ <<c>>[1] = c /\ Len(u) \in Nat
          BY <4>1, LenProperties
        <5>2. \A i \in 1 .. Len(<<c>>) + Len(u) : (<<c>> \o u)[i] = IF i <= Len(<<c>>) THEN <<c>>[i] ELSE u[i - Len(<<c>>)]
          BY <4>1, <5>1, ConcatProperties
        <5>3. 1 \in 1 .. Len(<<c>>) + Len(u) /\ 1 <= Len(<<c>>)
          BY <5>1
        <5>. QED  BY <5>1, <5>2, <5>3, Zenon
      <4>. QED  BY <4>1, <4>2, <4>4
    <3>. QED  BY <3>1, <3>2
  <2>7. ScannedExact'
    BY <1>2, <1>7, <2>2, <2>3, <2>4, <2>5, <2>6, ScanStops
  <2>8. ScanSoFar'
    BY <2>1 DEF ScanSoFar
  <2>. QED  BY <2>2, <2>4, <2>7, <2>8
\* A digit.
<1>8. CASE Peeked(r) /\ ~r.err /\ Seen(r.c) # Nothing /\ Digit(Seen(r.c)) /\ at' = "digits" /\ UNCHANGED call
  <2>1. r.c # Nothing
    BY <1>2, <1>8, SeenFacts
  <2>2. PICK c \in Bytes, u \in Seq(Bytes) : c = r.c /\ Stream = <<c>> \o u
    BY <2>1, ReadFacts
  <2>3. c \in Space + 1 .. 127
    <3>1. Digit(c)
      BY <1>2, <1>8, <2>2, SeenFacts
    <3>. QED  BY <3>1 DEF Digit, Space
  <2>4. Gone = Blanks(b)
    BY <1>5, <2>2, <2>3
  <2>5. Stream' = Stream
    BY <1>8, PeekedFacts
  <2>6. Ahead' /\ Gone' = Gone
    BY <1>8, <2>5, AheadStays
  <2>7. Scanned' = <<>>
    BY <1>4, <1>8, <2>6 DEF Scanned
  <2>8. /\ Gone' >= Blanks(b) /\ Numeral(<<>>) /\ call'.neg = FALSE /\ call'.num = 0 /\ call'.before = b
        /\ Signed(10, <<>>) = 0
    <3>1. Gone' >= Blanks(b)
      BY <1>3, <2>4, <2>6
    <3>. QED  BY <1>2, <1>8, <3>1, SignedNothing DEF Numeral, b
  <2>9. ScanSoFar'
    BY <1>8, <2>7, <2>8 DEF ScanSoFar
  <2>10. ScannedExact'
    BY <1>8 DEF ScannedExact, Done
  <2>. QED  BY <1>8, <2>6, <2>9, <2>10
<1>. QED
  <2>1. CASE Seen(r.c) = Minus /\ call.op = "fscan"
    BY <1>1, <1>6, <2>1
  <2>2. CASE ~(Seen(r.c) = Minus /\ call.op = "fscan")
    BY <1>1, <1>7, <1>8, <2>2
  <2>. QED  BY <2>1, <2>2

(***************************************************************************)
(* Behind a minus is a digit, or no number.                                *)
(***************************************************************************)
LEMMA ScansAfterMinus ==
  ASSUME Types, Ahead, ScanSoFar, AfterMinus, Types'
  PROVE  (Ahead /\ ScanSoFar /\ ScannedExact)' /\ call'.op = call.op
<1>1. PICK r \in Reads : Peeked(r) /\ IF Digit(r.c) THEN at' = "digits" /\ UNCHANGED call ELSE Return(call, "ERR_PARSE")
  BY DEF AfterMinus
<1>2. /\ at = "minus" /\ call.op = "fscan" /\ call.op \in Numbers /\ call \in Calls
      /\ Scanned = <<Minus>> /\ call.num = 0 /\ call.neg = TRUE
  <2>1. at = "minus" /\ call.op \in OpsAt("minus") /\ call \in Calls
    BY DEF AfterMinus, Types
  <2>2. call.op = "fscan" /\ call.op \in Numbers
    BY <2>1 DEF OpsAt, Numbers
  <2>3. Scanned = <<Minus>> /\ call.num = 0 /\ call.neg
    BY <2>1 DEF ScanSoFar
  <2>4. call.neg = TRUE
    BY <2>1, <2>3 DEF Calls
  <2>. QED  BY <2>1, <2>2, <2>3, <2>4
<1>3. Stream' = Stream
  BY <1>1, PeekedFacts
<1>4. call'.op = call.op /\ call'.before = call.before /\ call'.num = call.num /\ call'.neg = call.neg
  BY <1>1, <1>2 DEF Return, Calls
<1>5. Ahead' /\ Gone' = Gone
  BY <1>3, <1>4, AheadStays
<1>6. Scanned' = <<Minus>>
  BY <1>2, <1>4, <1>5 DEF Scanned
<1>7. CASE at' = "digits" /\ UNCHANGED call
  <2>1. Gone' >= Blanks(call'.before)
    <3>1. Gone \in Int /\ call.before \in Seq(Bytes)
      <4>1. Stream \in Seq(Bytes) /\ call.before \in Seq(Bytes)
        BY <1>2, ConcatProperties DEF Stream, Types, Calls
      <4>. QED  BY <4>1, LenProperties DEF Gone
    <3>2. ~(Gone <= Blanks(call.before))
      <4> SUFFICES ASSUME Gone <= Blanks(call.before) PROVE FALSE
        OBVIOUS
      <4>1. Scanned = <<>>
        BY <3>1, ScannedNothing DEF Scanned
      <4>. QED  BY <1>2, <4>1
    <3>3. Blanks(call.before) \in Int
      <4>1. Blanks(call.before) \in 0 .. Len(call.before)
        BY <3>1, BlanksFacts
      <4>. QED  BY <4>1
    <3>4. Gone >= Blanks(call.before)
      BY <3>1, <3>2, <3>3
    <3>. QED  BY <1>4, <1>5, <3>4
  <2>2. Numeral(<<Minus>>) /\ <<Minus>> # <<>> /\ <<Minus>>[1] = Minus /\ Signed(10, <<Minus>>) = 0
    <3>1. Numeral(<<Minus>>)
      BY DEF Numeral
    <3>. QED  BY <3>1, SignedNothing
  <2>3. ScanSoFar'
    BY <1>2, <1>4, <1>6, <1>7, <2>1, <2>2 DEF ScanSoFar
  <2>4. ScannedExact'
    BY <1>7 DEF ScannedExact, Done
  <2>. QED  BY <1>4, <1>5, <2>3, <2>4
<1>8. CASE Return(call, "ERR_PARSE")
  <2>1. at' = "idle" /\ call'.ret = "ERR_PARSE"
    BY <1>2, <1>8 DEF Return, Calls
  <2>2. ScannedExact'
    BY <1>2, <1>4, <1>5, <1>6, <2>1, ScanStops
  <2>. QED  BY <1>4, <1>5, <2>1, <2>2 DEF ScanSoFar
<1>. QED  BY <1>1, <1>7, <1>8

(***************************************************************************)
(* What an integer holds is kept as it is, and if it holds a number with a *)
(* digit more it held the number before, which is nearer to zero.          *)
(***************************************************************************)
LEMMA HoldsFacts ==
  ASSUME call \in Calls, call.neg => call.op = "fscan", call.op \in Numbers,
         NEW n \in Int, NEW d \in 0 .. 9,
         IF call.neg THEN n <= 0 ELSE n >= 0
  PROVE  LET m == 10 * n + (IF call.neg THEN 0 - d ELSE d) IN
         /\ IF call.neg THEN m <= n /\ m <= 0 ELSE m >= n /\ m >= 0
         /\ Holds(call.op, m) => Holds(call.op, n) /\ Wrapped(m) = m
<1> DEFINE m == 10 * n + (IF call.neg THEN 0 - d ELSE d)
<1>1. Half \in Nat \ {0}
  BY SizesAssumption
<1>2. m \in Int /\ IF call.neg THEN m <= n /\ m <= 0 ELSE m >= n /\ m >= 0
  OBVIOUS
<1> HIDE DEF m
<1>3. ASSUME Holds(call.op, m) PROVE Holds(call.op, n)
  BY <1>1, <1>2, <1>3 DEF Holds
<1>4. ASSUME Holds(call.op, m) PROVE Wrapped(m) = m
  <2>1. CASE call.op = "fscanu"
    <3>1. m \in 0 .. 2 * Half - 1
      BY <1>1, <1>2, <1>4, <2>1 DEF Holds
    <3>2. \A h \in Nat \ {0}, k \in Nat : k \in 0 .. h - 1 => k % h = k
      OBVIOUS
    <3>3. m % (2 * Half) = m
      <4>1. 2 * Half \in Nat \ {0} /\ m \in Nat
        BY <1>1, <3>1
      <4>. QED  BY <3>1, <3>2, <4>1
    <3>. QED  BY <2>1, <3>3 DEF Wrapped
  <2>2. CASE call.op # "fscanu"
    <3>1. m + Half \in 0 .. 2 * Half - 1
      BY <1>1, <1>2, <1>4, <2>2 DEF Holds
    <3>2. \A h \in Nat \ {0}, k \in Nat : k \in 0 .. h - 1 => k % h = k
      OBVIOUS
    <3>3. (m + Half) % (2 * Half) = m + Half
      <4>1. 2 * Half \in Nat \ {0} /\ m + Half \in Nat
        BY <1>1, <3>1
      <4>. QED  BY <3>1, <3>2, <4>1
    <3>4. (m + Half) - Half = m
      BY <1>1, <1>2
    <3>. QED  BY <2>2, <3>3, <3>4 DEF Wrapped
  <2>. QED  BY <2>1, <2>2
<1>. QED  BY <1>2, <1>3, <1>4 DEF m

(***************************************************************************)
(* A numeral with a digit more is one, with the same sign.                 *)
(***************************************************************************)
LEMMA NumeralGrows ==
  ASSUME NEW t \in Seq(Bytes), NEW c \in Bytes, Digit(c), Numeral(t)
  PROVE  /\ Append(t, c) \in Seq(Bytes) /\ Numeral(Append(t, c)) /\ Append(t, c) # <<>>
         /\ Append(t, c)[1] = Minus <=> t # <<>> /\ t[1] = Minus
<1> DEFINE s == Append(t, c)
<1>1. /\ s \in Seq(Bytes) /\ s # <<>> /\ Len(s) = Len(t) + 1 /\ Len(t) \in Nat
      /\ \A i \in 1 .. Len(t) : s[i] = t[i]
      /\ s[Len(t) + 1] = c
  BY AppendProperties, LenProperties
<1> HIDE DEF s
<1>2. DOMAIN s = 1 .. Len(t) + 1 /\ DOMAIN t = 1 .. Len(t)
  BY <1>1, LenProperties
<1>3. c # Minus
  BY DEF Digit, Minus
<1>4. Numeral(s)
  <2> SUFFICES ASSUME NEW i \in DOMAIN s PROVE Digit(s[i]) \/ (i = 1 /\ s[i] = Minus)
    BY DEF Numeral
  <2>1. CASE i \in 1 .. Len(t)
    <3>1. Digit(t[i]) \/ (i = 1 /\ t[i] = Minus)
      BY <1>2, <2>1 DEF Numeral
    <3>. QED  BY <1>1, <2>1, <3>1
  <2>2. CASE i = Len(t) + 1
    BY <1>1, <2>2
  <2>. QED  BY <1>1, <1>2, <2>1, <2>2
<1>5. s[1] = Minus <=> t # <<>> /\ t[1] = Minus
  <2>1. CASE t = <<>>
    <3>1. Len(t) + 1 = 1
      BY <2>1
    <3>. QED  BY <1>1, <1>3, <2>1, <3>1
  <2>2. CASE t # <<>>
    <3>1. Len(t) \in Nat \ {0}
      BY <2>2, EmptySeq
    <3>2. 1 \in 1 .. Len(t)
      BY <3>1
    <3>. QED  BY <1>1, <2>2, <3>2
  <2>. QED  BY <2>1, <2>2
<1>. QED  BY <1>1, <1>4, <1>5 DEF s

(***************************************************************************)
(* A digit more, unless no integer holds the number, or the end of it.     *)
(***************************************************************************)
LEMMA ScansNumber ==
  ASSUME Types, Ahead, ScanSoFar, Number, Types'
  PROVE  (Ahead /\ ScanSoFar /\ ScannedExact)' /\ call'.op = call.op
<1> DEFINE exact(c) == 10 * call.num + (IF call.neg THEN 48 - c ELSE c - 48)
<1>1. PICK r \in Reads :
        IF Digit(Seen(r.c))
        THEN /\ Taken(r)
             /\ \/ Overflow(Wrapped(exact(Seen(r.c)))) /\ Return([call EXCEPT !.num = 0], "ERR_OVERFLOW")
                \/ /\ ~Overflow(Wrapped(exact(Seen(r.c)))) \/ (call.op = "fscan" /\ Wrapped(exact(Seen(r.c))) # exact(Seen(r.c)))
                   /\ call' = [call EXCEPT !.num = Wrapped(exact(Seen(r.c)))] /\ UNCHANGED at
        ELSE /\ IF Seen(r.c) = Nothing THEN Taken(r) ELSE Peeked(r)
             /\ Return(call, IF r.err THEN "error" ELSE "true")
  BY DEF Number
<1> DEFINE b == call.before
<1>2. /\ at = "digits" /\ call.op \in Numbers /\ call.op \in Readers /\ call \in Calls /\ b \in Seq(Bytes)
      /\ call.num \in Int /\ call.neg \in BOOLEAN
  <2>1. at = "digits" /\ call.op \in OpsAt("digits") /\ call \in Calls
    BY DEF Number, Types
  <2>2. call.op \in Numbers /\ call.op \in Readers
    BY <2>1 DEF OpsAt, Readers
  <2>3. b \in Seq(Bytes) /\ call.num \in Int /\ call.neg \in BOOLEAN
    BY <2>1 DEF Calls
  <2>. QED  BY <2>1, <2>2, <2>3
<1>3. /\ Gone >= Blanks(b) /\ Numeral(Scanned)
      /\ call.neg <=> Scanned # <<>> /\ Scanned[1] = Minus
      /\ call.neg => call.op = "fscan"
      /\ IF call.neg THEN Signed(10, Scanned) <= 0 ELSE Signed(10, Scanned) >= 0
      /\ Holds(call.op, Signed(10, Scanned)) => call.num = Signed(10, Scanned)
  BY <1>2 DEF ScanSoFar, Fits, Holds
<1>4. Gone \in 0 .. Len(b)
  BY <1>2 DEF Ahead, Follows
<1>5. PICK t \in Seq(Bytes) : t = Scanned
  <2>1. Gone \in Nat /\ Len(b) \in Nat /\ Blanks(b) \in 0 .. Len(b)
    BY <1>2, <1>4, LenProperties, BlanksFacts
  <2>2. Blanks(b) + 1 \in Int /\ Gone \in Int /\ \A i \in Blanks(b) + 1 .. Gone : i \in 1 .. Len(b)
    BY <1>4, <2>1
  <2>3. \A i \in Blanks(b) + 1 .. Gone : b[i] \in Bytes
    BY <1>2, <2>2, ElementOfSeq
  <2>4. SubSeq(b, Blanks(b) + 1, Gone) \in Seq(Bytes)
    BY <2>2, <2>3, SubSeqProperties
  <2>. QED  BY <2>4 DEF Scanned
<1>6. ASSUME NEW c \in Bytes, NEW u \in Seq(Bytes), Stream = <<c>> \o u, Stream' = u,
             call'.before = b, call'.op = call.op
      PROVE  Ahead' /\ Gone' \in Nat /\ Gone' >= Blanks(b) /\ Scanned' = Append(t, c)
  <2>1. Ahead' /\ Gone \in Nat /\ Gone' = Gone + 1 /\ Gone + 1 \in 1 .. Len(b) /\ b[Gone + 1] = c
    BY <1>2, <1>6, AheadMoves
  <2>2. Blanks(b) \in Int
    <3>1. Blanks(b) \in 0 .. Len(b)
      BY <1>2, BlanksFacts
    <3>. QED  BY <3>1
  <2>3. SubSeq(b, Blanks(b) + 1, Gone + 1) = Append(SubSeq(b, Blanks(b) + 1, Gone), b[Gone + 1])
    BY <1>2, <1>3, <2>1, ScannedGrows
  <2>4. Scanned' = SubSeq(b, Blanks(b) + 1, Gone + 1)
    BY <1>6, <2>1 DEF Scanned
  <2>5. Gone' \in Nat /\ Gone' >= Blanks(b)
    BY <1>3, <2>1, <2>2
  <2>. QED  BY <1>5, <2>1, <2>3, <2>4, <2>5 DEF Scanned
<1> HIDE DEF b, exact
\* A digit.
<1>7. CASE Digit(Seen(r.c))
  <2>1. r.c # Nothing
    BY <1>2, <1>7, SeenFacts DEF Digit, Nothing
  <2>2. PICK c \in Bytes, u \in Seq(Bytes) : c = r.c /\ u = r.in /\ Stream = <<c>> \o u
    BY <2>1, ReadFacts
  <2>3. Digit(c) /\ Seen(r.c) = c
    BY <1>2, <1>7, <2>2, SeenFacts
  <2>4. Stream' = u
    BY <1>1, <1>7, <2>2, TakenFacts
  <2> DEFINE d == c - 48
             n == Signed(10, t)
             m == Signed(10, Append(t, c))
             new == Wrapped(exact(c))
  <2>5. d \in 0 .. 9 /\ c \in Int /\ 48 - c = 0 - d
    BY <2>3 DEF Digit
  <2>6. n \in Int /\ m = 10 * n + (IF call.neg THEN 0 - d ELSE d)
    <3>1. Signed(10, t) \in Int /\ Signed(10, Append(t, c)) = 10 * Signed(10, t) + (IF t # <<>> /\ t[1] = Minus THEN 48 - c ELSE c - 48)
      BY <2>3, SignedGrows
    <3>2. (t # <<>> /\ t[1] = Minus) <=> call.neg
      BY <1>3, <1>5
    <3>. QED  BY <2>5, <3>1, <3>2
  <2>7. exact(c) = 10 * call.num + (IF call.neg THEN 0 - d ELSE d)
    BY <2>5 DEF exact
  <2> HIDE DEF d, n, m, new
  <2>8. IF call.neg THEN n <= 0 ELSE n >= 0
    BY <1>3, <1>5 DEF n
  <2>9. /\ IF call.neg THEN m <= n /\ m <= 0 ELSE m >= n /\ m >= 0
        /\ Holds(call.op, m) => Holds(call.op, n) /\ Wrapped(m) = m
    BY <1>2, <1>3, <2>5, <2>6, <2>8, HoldsFacts
  <2>10. Holds(call.op, m) => new = m /\ call.num = n
    <3> HAVE Holds(call.op, m)
    <3>1. call.num = n
      BY <1>3, <1>5, <2>9 DEF n
    <3>2. exact(c) = m
      BY <2>6, <2>7, <3>1
    <3>. QED  BY <2>9, <3>1, <3>2 DEF new
  <2>11. Numeral(Append(t, c)) /\ Append(t, c) \in Seq(Bytes) /\ Append(t, c) # <<>> /\ (Append(t, c)[1] = Minus <=> call.neg)
    BY <1>3, <1>5, <2>3, NumeralGrows
  <2>12. \/ Overflow(new) /\ Return([call EXCEPT !.num = 0], "ERR_OVERFLOW")
         \/ call' = [call EXCEPT !.num = new] /\ UNCHANGED at
    BY <1>1, <1>7, <2>3 DEF new
  <2>13. CASE Overflow(new) /\ Return([call EXCEPT !.num = 0], "ERR_OVERFLOW")
    <3>1. at' = "idle" /\ call'.op = call.op /\ call'.before = b /\ call'.ret = "ERR_OVERFLOW"
      BY <1>2, <2>13 DEF Return, Calls, b
    <3>2. Ahead' /\ Scanned' = Append(t, c)
      BY <1>6, <2>2, <2>4, <3>1
    <3>3. ~Holds(call.op, m)
      <4> SUFFICES ASSUME Holds(call.op, m) PROVE FALSE
        OBVIOUS
      <4>1. m \in Int
        BY <2>5, <2>6
      <4>. QED  BY <2>6, <2>9, <2>10, <2>13, <4>1 DEF Overflow
    <3>4. ~Holds(call'.op, Signed(10, Append(t, c)))
      BY <3>1, <3>3 DEF m
    <3>5. ScannedExact'
      BY <1>2, <2>11, <3>1, <3>2, <3>4, ScanReturns
    <3>. QED  BY <3>1, <3>2, <3>5 DEF ScanSoFar
  <2>14. CASE call' = [call EXCEPT !.num = new] /\ UNCHANGED at
    <3>1. call'.op = call.op /\ call'.before = b /\ call'.num = new /\ call'.neg = call.neg /\ at' = "digits"
      BY <1>2, <2>14 DEF Calls, b
    <3>2. Ahead' /\ Scanned' = Append(t, c) /\ Gone' >= Blanks(b)
      BY <1>6, <2>2, <2>4, <3>1
    <3>3. IF call.neg THEN Signed(10, Append(t, c)) <= 0 ELSE Signed(10, Append(t, c)) >= 0
      BY <2>9 DEF m
    <3>4. Holds(call.op, Signed(10, Append(t, c))) => new = Signed(10, Append(t, c))
      BY <2>10 DEF m
    <3>5. ScanSoFar'
      BY <1>3, <2>11, <3>1, <3>2, <3>3, <3>4 DEF ScanSoFar, Fits, Holds
    <3>6. ScannedExact'
      BY <3>1 DEF ScannedExact, Done
    <3>. QED  BY <3>1, <3>2, <3>5, <3>6
  <2>. QED  BY <2>12, <2>13, <2>14
\* No more digits.
<1>8. CASE ~Digit(Seen(r.c))
  <2>1. at' = "idle" /\ call' = [call EXCEPT !.ret = IF r.err THEN "error" ELSE "true"]
    BY <1>1, <1>8 DEF Return
  <2>2. call'.op = call.op /\ call'.before = b /\ call'.num = call.num /\ call'.ret = IF r.err THEN "error" ELSE "true"
    BY <1>2, <2>1 DEF Calls, b
  <2>3. Ahead' /\ (Scanned' = t \/ Scanned' = Append(t, 255))
    <3>1. CASE Stream' = Stream
      <4>1. Ahead' /\ Gone' = Gone
        BY <2>2, <3>1, AheadStays DEF b
      <4>2. Scanned' = Scanned
        BY <2>2, <4>1 DEF Scanned, b
      <4>. QED  BY <1>5, <4>1, <4>2
    <3>2. CASE Seen(r.c) = Nothing /\ r.c # Nothing /\ Taken(r)
      <4>1. PICK c \in Bytes, u \in Seq(Bytes) : c = r.c /\ u = r.in /\ Stream = <<c>> \o u
        BY <3>2, ReadFacts
      <4>2. c = 255
        BY <1>2, <3>2, <4>1, SeenFacts
      <4>3. Stream' = u
        BY <3>2, <4>1, TakenFacts
      <4>4. Ahead' /\ Scanned' = Append(t, c)
        BY <1>6, <2>2, <4>1, <4>3
      <4>. QED  BY <4>2, <4>4
    <3>3. CASE r.c = Nothing /\ Taken(r)
      <4>1. Stream' = Stream
        BY <3>3, ReadFacts, TakenFacts
      <4>. QED  BY <3>1, <4>1
    <3>4. CASE Peeked(r)
      BY <3>1, <3>4, PeekedFacts
    <3>. QED  BY <1>1, <1>8, <3>2, <3>3, <3>4
  <2>4. Numeral(t) /\ (Holds(call'.op, Signed(10, t)) => call'.num = Signed(10, t))
    BY <1>3, <1>5, <2>2
  <2>5. ScannedExact'
    <3>1. CASE r.err
      <4>1. call'.ret = "error"
        BY <2>2, <3>1
      <4>. QED  BY <1>2, <2>2, <2>3, <4>1, ScanStops
    <3>2. CASE ~r.err
      <4>1. call'.ret = "true"
        BY <2>2, <3>2
      <4>. QED  BY <1>2, <2>2, <2>3, <2>4, <4>1, ScanReturns
    <3>. QED  BY <3>1, <3>2
  <2>. QED  BY <2>1, <2>2, <2>3, <2>5 DEF ScanSoFar
<1>. QED  BY <1>7, <1>8

-----------------------------------------------------------------------------
(***************************************************************************)
(* The invariant holds at first.                                           *)
(***************************************************************************)
LEMMA InvInit == Init => IInv
<1> HAVE Init
<1>1. Types
  BY TypesInit
<1>2. at = "idle" /\ call.op = "none" /\ call.before = Stream
  BY DEF Init, Call
<1>3. Ahead
  <2>1. Stream \in Seq(Bytes)
    BY <1>1, ConcatProperties DEF Stream, Types
  <2>2. Len(Stream) \in Nat /\ SubSeq(Stream, 1, Len(Stream)) = Stream
    BY <2>1, LenProperties, SubSeqFull
  <2>3. Gone = 0
    BY <1>2, <2>2 DEF Gone
  <2>4. 0 \in 0 .. Len(Stream) /\ 0 + 1 = 1
    BY <2>2
  <2>. QED  BY <1>2, <2>2, <2>3, <2>4 DEF Ahead, Follows, From
<1>4. WordSoFar /\ LineSoFar /\ ScanSoFar /\ WriteSoFar
  BY <1>2 DEF WordSoFar, LineSoFar, ScanSoFar, WriteSoFar
<1>5. TextIntact /\ NumbersExact
  BY <1>2 DEF TextIntact, WordsWhole, LinesWhole, NumbersExact, ScannedExact, PrintedExact, Done, Words, Numbers
<1>. QED  BY <1>1, <1>3, <1>4, <1>5 DEF IInv

(***************************************************************************)
(* The steps of the calls that read words preserve it.                     *)
(***************************************************************************)
LEMMA InvWords ==
  ASSUME IInv, \/ FGets \/ FScans \/ SFscan
               \/ NoRoom \/ (Skip /\ call.op \in Words) \/ Begin \/ Store \/ Grow
  PROVE  IInv'
<1>1. Types /\ Ahead /\ WordSoFar
  BY DEF IInv
<1>2. Types'
  BY <1>1, TypesNext DEF Next, Step
<1>3. (Ahead /\ WordSoFar /\ WordsWhole)' /\ call'.op \in Words
  <2>1. CASE FGets \/ FScans \/ SFscan
    <3>1. (Ahead /\ WordSoFar)' /\ call'.op \in Words /\ at' = "blanks"
      BY <1>1, <2>1, WordsBegin
    <3>. QED  BY <3>1 DEF WordsWhole, Done
  <2>2. CASE NoRoom
    <3>1. call.op \in Words
      BY <2>2 DEF NoRoom
    <3>. QED  BY <1>1, <1>2, <2>2, <3>1, WordsNoRoom
  <2>3. CASE Skip /\ call.op \in Words
    <3>1. call' = call /\ at' = "blanks"
      BY <2>3 DEF Skip
    <3>2. (Ahead /\ WordSoFar)'
      BY <1>1, <2>3, WordsSkip
    <3>. QED  BY <2>3, <3>1, <3>2 DEF WordsWhole, Done
  <2>4. CASE Begin
    <3>1. call.op \in Words
      BY <2>4 DEF Begin
    <3>. QED  BY <1>1, <1>2, <2>4, <3>1, WordsPeek
  <2>5. CASE Store
    <3>1. call.op \in Words
      BY <1>1, <2>5 DEF Store, Types, OpsAt
    <3>. QED  BY <1>1, <1>2, <2>5, <3>1, WordsStore
  <2>6. CASE Grow
    <3>1. call.op \in Words
      BY <1>1, <2>6 DEF Grow, Types, OpsAt
    <3>. QED  BY <1>1, <1>2, <2>6, <3>1, WordsGrow
  <2>. QED  BY <2>1, <2>2, <2>3, <2>4, <2>5, <2>6
<1>. QED  BY <1>2, <1>3, OnlyWords DEF IInv, TextIntact

(***************************************************************************)
(* So do those of the calls that read lines and bytes.                     *)
(***************************************************************************)
LEMMA InvLines ==
  ASSUME IInv, FGetc \/ FGetline \/ LineFull \/ LineByte
  PROVE  IInv'
<1>1. Types /\ Ahead /\ LineSoFar /\ WordSoFar
  BY DEF IInv
<1>2. Types'
  BY <1>1, TypesNext DEF Next, Step
<1>3. (Ahead /\ LineSoFar /\ LinesWhole)' /\ call'.op \in {"fgetline", "fgetc"}
  BY <1>1, <1>2, OneByte, LinesStart, LinesFull, LinesByte
<1>. QED  BY <1>2, <1>3, OnlyLines DEF IInv, TextIntact

(***************************************************************************)
(* And of the scans.                                                       *)
(***************************************************************************)
LEMMA InvScans ==
  ASSUME IInv, FScan \/ (Skip /\ call.op \in Numbers) \/ Sign \/ AfterMinus \/ Number
  PROVE  IInv'
<1>1. Types /\ Ahead /\ ScanSoFar /\ WordSoFar
  BY DEF IInv
<1>2. Types'
  BY <1>1, TypesNext DEF Next, Step
<1>3. Sign \/ AfterMinus \/ Number => call.op \in Numbers
  BY <1>1 DEF Sign, AfterMinus, Number, Types, OpsAt, Numbers
<1>4. (Ahead /\ ScanSoFar /\ ScannedExact)' /\ call'.op \in Numbers
  <2>1. CASE FScan
    BY <1>1, <1>2, <2>1, ScansStart
  <2>2. CASE Skip /\ call.op \in Numbers
    BY <1>1, <2>2, ScansSkip
  <2>3. CASE Sign
    BY <1>1, <1>2, <1>3, <2>3, ScansSign
  <2>4. CASE AfterMinus
    BY <1>1, <1>2, <1>3, <2>4, ScansAfterMinus
  <2>5. CASE Number
    BY <1>1, <1>2, <1>3, <2>5, ScansNumber
  <2>. QED  BY <2>1, <2>2, <2>3, <2>4, <2>5
<1>. QED  BY <1>2, <1>4, OnlyScans DEF IInv, NumbersExact

(***************************************************************************)
(* And of the calls that write.                                            *)
(***************************************************************************)
LEMMA InvWrites ==
  ASSUME IInv, FPrint \/ Puts \/ Write
  PROVE  IInv'
<1>1. Types /\ WriteSoFar /\ WordSoFar
  BY DEF IInv
<1>2. Types'
  BY <1>1, TypesNext DEF Next, Step
<1>3. (WriteSoFar /\ LinesWhole /\ PrintedExact)' /\ call'.op \in Writers
  BY <1>1, <1>2, WritesStart, WritesStep
<1>. QED  BY <1>2, <1>3, OnlyWrites DEF IInv, TextIntact, NumbersExact

(***************************************************************************)
(* And a step that changes nothing.                                        *)
(***************************************************************************)
LEMMA InvStutters ==
  ASSUME IInv, UNCHANGED vars
  PROVE  IInv'
<1>1. input' = input /\ ungot' = ungot /\ at' = at /\ call' = call
  BY DEF vars
<1>2. Stream' = Stream /\ Gone' = Gone /\ Part' = Part /\ Scanned' = Scanned /\ On' = On
      /\ Short' = Short /\ Cut' = Cut /\ Text' = Text /\ Said' = Said
  BY <1>1 DEF Stream, Gone, Part, Scanned, On, Short, Cut, Text, Said
<1>3. Fresh' = Fresh /\ Torn' = Torn
  BY <1>1, <1>2 DEF Fresh, Torn
<1>4. Types' /\ Ahead' /\ LineSoFar' /\ WriteSoFar'
  BY <1>1, <1>2 DEF IInv, Types, Ahead, LineSoFar, WriteSoFar
<1>5. WordSoFar'
  BY <1>1, <1>2, <1>3 DEF IInv, WordSoFar
<1>6. ScanSoFar'
  BY <1>1, <1>2 DEF IInv, ScanSoFar, Fits
<1>7. TextIntact'
  BY <1>1, <1>2 DEF IInv, TextIntact, WordsWhole, LinesWhole, Done
<1>8. NumbersExact'
  <2>1. ScannedExact'
    BY <1>1, <1>2, ZenonT(60) DEF IInv, NumbersExact, ScannedExact, Done, Fits
  <2>2. PrintedExact'
    BY <1>1, <1>2, Zenon DEF IInv, NumbersExact, PrintedExact, Done
  <2>. QED  BY <2>1, <2>2 DEF NumbersExact
<1>. QED  BY <1>4, <1>5, <1>6, <1>7, <1>8 DEF IInv

(***************************************************************************)
(* Every step preserves the invariant.                                     *)
(***************************************************************************)
LEMMA InvNext == IInv /\ [Next]_vars => IInv'
<1> SUFFICES ASSUME IInv, [Next]_vars PROVE IInv'
  OBVIOUS
<1>1. CASE Skip
  <2>1. call.op \in Words \cup Numbers
    BY <1>1 DEF IInv, Types, Skip, OpsAt
  <2>. QED  BY <1>1, <2>1, InvWords, InvScans
<1>2. CASE UNCHANGED vars
  BY <1>2, InvStutters
<1>. QED  BY <1>1, <1>2, InvWords, InvLines, InvScans, InvWrites DEF Next, Step

-----------------------------------------------------------------------------
(***************************************************************************)
(* A call is one of those that can be where it is, has taken the beginning *)
(* of the stream there was, and has made of it what it should have.        *)
(***************************************************************************)
THEOREM TextInvariant == Spec => []IInv
<1>1. Init => IInv
  BY InvInit
<1>2. IInv /\ [Next]_vars => IInv'
  BY InvNext
<1>. QED  BY <1>1, <1>2, PTL DEF Spec

(***************************************************************************)
(* fgets, fscans and s_fscan_into give the first word as it is when their  *)
(* first buffer has room for it, and else with a NUL inside where that     *)
(* buffer was full; they leave what follows it. fgetline is true for a     *)
(* line that a newline or the end of the file ends, and false for one that *)
(* did not fit. Neither loses a byte, nor does fgetc, and a line puts says *)
(* it wrote is in the pipe. For all inputs, lines, capacities and reads    *)
(* and writes that are short or fail.                                      *)
(***************************************************************************)
THEOREM TextArrives == Spec => []TextIntact
<1>1. IInv => TextIntact
  BY DEF IInv
<1>. QED  BY <1>1, TextInvariant, PTL

(***************************************************************************)
(* A scan gives the number whose digits it took, if an integer holds it,   *)
(* and says overflow only if none does; what the fprint functions print,   *)
(* in any base, is the number.  For all inputs and sizes of an integer.    *)
(***************************************************************************)
THEOREM NumbersArrive == Spec => []NumbersExact
<1>1. IInv => NumbersExact
  BY DEF IInv
<1>. QED  BY <1>1, TextInvariant, PTL
=============================================================================
