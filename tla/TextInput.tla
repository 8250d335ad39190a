----------------------------- MODULE TextInput ------------------------------
(***************************************************************************)
(* Text through a FILE: words, lines and numbers read (fgets, fgetline,    *)
(* fscans, s_fscan_into, the fscan family), and numbers and lines written  *)
(* (the fprint family, puts).  One thread writes to one end of a pipe and  *)
(* reads at the other, through a file with room for one pushed-back byte.  *)
(* A step is one read or one write and what follows it.  Any of them may   *)
(* fail, and a write may take less than it is given.  A call that cannot   *)
(* even have its first buffer only says so: no step.                       *)
(***************************************************************************)
EXTENDS Integers, Sequences, SequencesExt

CONSTANTS
    Half,       \* half as many as there are values of an integer
    Inputs,     \* what the pipe may hold at first
    Lines,      \* what puts is given
    Caps,       \* capacities of the buffers of fgets, fgetline and Strings
    ScanCap,    \* the first buffer of fscans
    MaxLeft     \* bound: bytes left in the pipe when something is written

ASSUME InputsAssumption == Inputs \subseteq Seq(0 .. 255) /\ Lines \subseteq Seq(0 .. 255)
ASSUME SizesAssumption == Half \in Nat \ {0} /\ Caps \subseteq Nat /\ ScanCap \in Nat \ {0, 1} /\ MaxLeft \in Nat

VARIABLES
    input,      \* what the pipe holds
    ungot,      \* the byte pushed back, if there is one
    at,         \* where the running call is, or "idle"
    call        \* the call, or the last one: see Call

vars == <<input, ungot, at, call>>

Nothing == -1
NUL == 0
Newline == 10
Space == 32
Minus == 45

Stream == ungot \o input

\* op, the space its fgets fills and what is in it (chunk), what is in the
\* buffer before that (held), a number, its sign, and what the call returned.
\* History: the text a String had, its first space, and the stream before.
Call(op, held, space, num) ==
    [op |-> op, held |-> held, room |-> space, chunk |-> <<>>, num |-> num, neg |-> FALSE, ret |-> "none",
     had |-> held, first |-> space, before |-> Stream]

Init ==
    /\ input \in Inputs /\ ungot = <<>>
    /\ at = "idle" /\ call = Call("none", <<>>, 0, 0)

\* read of one byte: it is taken from the file, or Nothing is at its end.
Reads ==
    IF ungot # <<>> THEN {[c |-> ungot[1], in |-> input, err |-> FALSE]}
    ELSE {[c |-> Nothing, in |-> input, err |-> TRUE],
          IF input = <<>> THEN [c |-> Nothing, in |-> input, err |-> FALSE]
                          ELSE [c |-> Head(input), in |-> Tail(input), err |-> FALSE]}

\* A byte is taken for good, or pushed back.
Taken(r) == input' = r.in /\ ungot' = <<>>
Peeked(r) == input' = r.in /\ ungot' = IF r.c = Nothing THEN <<>> ELSE <<r.c>>

Numbers == {"fscan", "fscanu"}

\* fscan has bytes in a char, where 255 is -1 as at the end of the file, and
\* all others from 128 are less than a space.
Seen(c) == IF call.op \in Numbers /\ c > 127 THEN c - 256 ELSE c

Digit(c) == c \in 48 .. 57

Start(where, c) == at = "idle" /\ at' = where /\ call' = c /\ UNCHANGED <<input, ungot>>
Return(c, ret) == at' = "idle" /\ call' = [c EXCEPT !.ret = ret]

-----------------------------------------------------------------------------
FGetc ==
    /\ at = "idle" /\ UNCHANGED at
    /\ \E r \in Reads :
          /\ Taken(r)
          /\ call' = [Call("fgetc", <<>>, 1, 0) EXCEPT !.chunk = IF r.c = Nothing THEN <<>> ELSE <<r.c>>,
                                                       !.ret = IF r.err THEN "error" ELSE "true"]

FGets == \E cap \in Caps : Start("blanks", Call("fgets", <<>>, cap, 0))

FScans == Start("blanks", Call("fscans", <<>>, ScanCap, 0))

\* A full String grows by its capacity first.  s_fscan begins with an empty one.
SFscan ==
    \E cap \in Caps, text \in {<<>>, <<97>>} :
       /\ Len(text) <= cap
       /\ Start("blanks", Call("s_fscan", text, IF Len(text) = cap THEN cap ELSE cap - Len(text), 0))

\* An error: fgets leaves what it read in its buffer, fscans frees it, and a
\* String's length does not include it.
Failed ==
    CASE call.op = "fscans" -> [call EXCEPT !.held = <<>>, !.chunk = <<>>]
      [] call.op = "s_fscan" -> [call EXCEPT !.chunk = <<>>]
      [] OTHER -> call

\* What follows fgets in its callers: if it has not read the whole word, more room.
Filled(chunk, whole) ==
    IF whole \/ call.op = "fgets" THEN Return([call EXCEPT !.chunk = chunk], IF whole THEN "true" ELSE "false")
    ELSE at' = "grow" /\ call' = [call EXCEPT !.chunk = chunk]

Words == {"fgets", "fscans", "s_fscan"}

NoRoom ==
    /\ at = "blanks" /\ call.op \in Words /\ call.room < 2
    /\ Filled(<<>>, FALSE)
    /\ UNCHANGED <<input, ungot>>

Blank(c) == c # Nothing /\ c <= Space

Passed_Stays(r) == Peeked(r)        \* mutant: the blank is only peeked at

Passed(r) == Taken(r)

\* peekc, and for a blank fgetc.
Skip ==
    /\ at = "blanks" /\ (call.op \in Words => call.room >= 2)
    /\ \E r \in Reads : Blank(Seen(r.c)) /\ Passed(r) /\ UNCHANGED <<at, call>>

Begin ==
    /\ at = "blanks" /\ call.op \in Words /\ call.room >= 2
    /\ \E r \in Reads :
          /\ ~Blank(r.c) /\ Peeked(r)
          /\ IF r.err THEN Return(Failed, "error")
             ELSE IF r.c = Nothing THEN Filled(<<>>, TRUE)
             ELSE at' = "word" /\ UNCHANGED call

\* The byte peeked at is stored, and then the next one peeked at.
Ended_Late(chunk, c) ==             \* mutant: looks at the room before the next byte
    IF Len(chunk) = call.room - 1 THEN Filled(chunk, FALSE)
    ELSE IF c <= Space THEN Filled(chunk, TRUE) ELSE call' = [call EXCEPT !.chunk = chunk] /\ UNCHANGED at

Ended(chunk, c) ==
    IF c <= Space THEN Filled(chunk, TRUE)
    ELSE IF Len(chunk) = call.room - 1 THEN Filled(chunk, FALSE)
    ELSE call' = [call EXCEPT !.chunk = chunk] /\ UNCHANGED at

Store ==
    /\ at = "word"
    /\ LET chunk == Append(call.chunk, ungot[1]) IN
       \/ /\ input = <<>> /\ ungot' = <<>> /\ UNCHANGED input
          /\ Ended(chunk, Nothing)
       \/ /\ input # <<>> /\ ungot' = <<Head(input)>> /\ input' = Tail(input)
          /\ Ended(chunk, Head(input))
       \/ /\ ungot' = <<>> /\ UNCHANGED input
          /\ Return(IF call.op = "fgets" THEN [call EXCEPT !.chunk = chunk] ELSE Failed, "error")

\* The buffer is doubled and the next chunk goes behind the NUL of the last,
\* or there is no memory, and none of the old either.
Grow ==
    /\ at = "grow"
    /\ LET full == call.held \o call.chunk \o (IF call.room = 0 THEN <<>> ELSE <<NUL>>) IN
       \/ /\ call' = [call EXCEPT !.held = full, !.chunk = <<>>, !.room = Len(full)]
          /\ at' = "blanks"
       \/ full # <<>> /\ Return([call EXCEPT !.held = <<>>, !.chunk = <<>>], "error")
    /\ UNCHANGED <<input, ungot>>

-----------------------------------------------------------------------------
FGetline == \E cap \in Caps : Start("line", Call("fgetline", <<>>, cap, 0))

LineFull ==
    /\ at = "line" /\ Len(call.chunk) + 1 >= call.room
    /\ Return(call, "false")
    /\ UNCHANGED <<input, ungot>>

LineByte ==
    /\ at = "line" /\ Len(call.chunk) + 1 < call.room
    /\ \E r \in Reads :
          /\ Taken(r)
          /\ LET line == [call EXCEPT !.chunk = Append(@, r.c)] IN
             IF r.c = Nothing THEN Return(call, IF r.err THEN "error" ELSE "true")
             ELSE IF r.c = Newline THEN Return(line, "true")
             ELSE call' = line /\ UNCHANGED at

-----------------------------------------------------------------------------
FScan == \E op \in Numbers : Start("blanks", Call(op, <<>>, 0, 0))

\* A minus is taken, and an error of the read behind it is not looked at.
Sign ==
    /\ at = "blanks" /\ call.op \in Numbers
    /\ \E r \in Reads :
          LET c == Seen(r.c) IN
          /\ ~Blank(c)
          /\ IF c = Minus /\ call.op = "fscan"
             THEN /\ Taken(r)
                  /\ at' = "minus" /\ call' = [call EXCEPT !.neg = TRUE]
             ELSE /\ Peeked(r)
                  /\ IF r.err THEN Return(call, "error")
                     ELSE IF c = Nothing THEN Return(call, "ERR_EOF")
                     ELSE IF ~Digit(c) THEN Return(call, "ERR_PARSE")
                     ELSE at' = "digits" /\ UNCHANGED call

AfterMinus ==
    /\ at = "minus"
    /\ \E r \in Reads :
          /\ Peeked(r)
          /\ IF Digit(r.c) THEN at' = "digits" /\ UNCHANGED call ELSE Return(call, "ERR_PARSE")

Wrapped(n) ==
    IF call.op = "fscanu" THEN n % (2 * Half)
    ELSE ((n + Half) % (2 * Half)) - Half

Overflow_Unsigned(new) == new < call.num        \* mutant: the check of the unsigned scans for all

Overflow(new) == IF call.neg THEN new > call.num ELSE new < call.num

\* Signed overflow is undefined, and the check may be gone from the build.
Number ==
    /\ at = "digits"
    /\ \E r \in Reads :
          LET c == Seen(r.c)
              exact == 10 * call.num + (IF call.neg THEN 48 - c ELSE c - 48)
              new == Wrapped(exact) IN
          IF Digit(c)
          THEN /\ Taken(r)
               /\ \/ Overflow(new) /\ Return([call EXCEPT !.num = 0], "ERR_OVERFLOW")
                  \/ /\ ~Overflow(new) \/ (call.op = "fscan" /\ new # exact)
                     /\ call' = [call EXCEPT !.num = new] /\ UNCHANGED at
          ELSE /\ IF c = Nothing THEN Taken(r) ELSE Peeked(r)
               /\ Return(call, IF r.err THEN "error" ELSE "true")

-----------------------------------------------------------------------------
Character(d) == IF d < 10 THEN 48 + d ELSE 87 + d

\* The loop of the fprint functions, which fills a buffer from its end.
Digits(base, n) ==
    LET d[k \in 0 .. n] ==
          IF k < base THEN <<Character(k)>> ELSE Append(d[k \div base], Character(k % base)) IN
    d[n]

Printed(base, n) == IF n < 0 THEN <<Minus>> \o Digits(base, 0 - n) ELSE Digits(base, n)

\* room is the base.
FPrint ==
    \E base \in {2, 10, 16}, n \in 0 - Half .. 2 * Half - 1 :
       /\ Len(Stream) <= MaxLeft
       /\ Start("write", [Call("fprint", <<>>, base, n) EXCEPT !.chunk = Printed(base, n)])

Puts ==
    \E line \in Lines :
       /\ Len(Stream) <= MaxLeft
       /\ Start("write", [Call("puts", line, 0, 0) EXCEPT !.chunk = Append(line, Newline)])

\* A minus and the newline are written by fputc, the rest in a loop.
Write ==
    /\ at = "write" /\ UNCHANGED ungot
    /\ \/ /\ call.chunk = <<>> /\ UNCHANGED input
          /\ Return(call, "true")
       \/ /\ \E k \in 1 .. Len(call.chunk) :
                /\ call.op = "fprint" /\ call.chunk[1] = Minus => k = 1
                /\ call.op = "puts" /\ k = Len(call.chunk) => k = 1
                /\ input' = input \o SubSeq(call.chunk, 1, k)
                /\ call' = [call EXCEPT !.chunk = SubSeq(@, k + 1, Len(@))]
          /\ UNCHANGED at
       \/ /\ call.chunk # <<>> /\ UNCHANGED input
          /\ Return(call, "error")

-----------------------------------------------------------------------------
Step ==
    \/ NoRoom \/ Skip \/ Begin \/ Store \/ Grow
    \/ LineFull \/ LineByte
    \/ Sign \/ AfterMinus \/ Number
    \/ Write

Next ==
    \/ FGetc \/ FGets \/ FScans \/ SFscan \/ FGetline \/ FScan \/ FPrint \/ Puts
    \/ Step

Spec == Init /\ [][Next]_vars /\ WF_vars(Step)

-----------------------------------------------------------------------------
(***************************************************************************)
(* The first word of a stream, said without reading it byte by byte.       *)
(***************************************************************************)
First(S) == CHOOSE i \in S : \A j \in S : i <= j
WordAt(s) == First({i \in 1 .. Len(s) + 1 : i = Len(s) + 1 \/ s[i] > Space})
WordEnd(s) == First({i \in WordAt(s) .. Len(s) + 1 : i = Len(s) + 1 \/ s[i] <= Space})
FirstWord(s) == SubSeq(s, WordAt(s), WordEnd(s) - 1)
From(s, i) == SubSeq(s, i, Len(s))

\* A text without its NULs.
Bare(s) ==
    LET b[k \in 0 .. Len(s)] ==
          IF k = 0 THEN <<>> ELSE IF s[k] = NUL THEN b[k - 1] ELSE Append(b[k - 1], s[k]) IN
    b[Len(s)]

Text == call.held \o call.chunk
Done(ops) == at = "idle" /\ call.op \in ops

\* What the first buffer took of a word it had no room for, and the NUL that ends it.
Cut == call.had \o SubSeq(FirstWord(call.before), 1, call.first - 1) \o <<NUL>>

(***************************************************************************)
(* fgets, fscans and s_fscan_into that return true have left what follows  *)
(* the first word of the stream, and have that word, exactly so if their   *)
(* first buffer had room for it.  Otherwise, or if it had one byte, what   *)
(* they give has a NUL where the first buffer was full, so that it is, for *)
(* who reads it as a C string, only the part of the word before that; the  *)
(* bytes behind the NULs are the others of the word, each once and in      *)
(* order.  fgets says that there is more, and has lost nothing.            *)
(***************************************************************************)
WordsWhole ==
    Done(Words) =>
      LET word == FirstWord(call.before) IN
      /\ call.ret = "true" =>
            /\ Stream = From(call.before, WordEnd(call.before))
            /\ IF Len(word) < call.first /\ call.first # 1 THEN Text = call.had \o word
               ELSE Bare(Text) = call.had \o word /\ IsPrefix(Cut, Text)
      /\ call.ret = "false" =>
            IF call.room < 2 THEN Stream = call.before
            ELSE Len(call.chunk) = call.room - 1 /\ Len(word) >= call.room
      /\ call.op = "fgets" /\ call.room > 1 /\ call.chunk # <<>> =>
            From(call.before, WordAt(call.before)) = call.chunk \o Stream

(***************************************************************************)
(* fgetline loses nothing.  It returns true behind a newline, and at the   *)
(* end of the file too, even with an empty line, and false only when its   *)
(* buffer is full.  What puts says it wrote is in the pipe, once and in    *)
(* order.                                                                  *)
(***************************************************************************)
LinesWhole ==
    /\ Done({"fgetline", "fgetc"}) => call.before = call.chunk \o Stream
    /\ Done({"fgetline"}) =>
          /\ \A i \in DOMAIN call.chunk : call.chunk[i] = Newline => i = Len(call.chunk) /\ call.ret = "true"
          /\ call.ret = "true" => Stream = <<>> \/ Last(call.chunk) = Newline
          /\ call.ret = "false" => Len(call.chunk) + 1 = call.room \/ call.room = 0
    /\ Done({"puts"}) /\ call.ret = "true" => Stream = call.before \o call.had \o <<Newline>>

(***************************************************************************)
(* Words and lines arrive as they were written, but for the NULs in words  *)
(* that are longer than the first buffer.                                  *)
(***************************************************************************)
TextIntact == WordsWhole /\ LinesWhole

-----------------------------------------------------------------------------
Worth(c) == IF Digit(c) THEN c - 48 ELSE c - 87
Value(base, t) ==
    LET v[k \in 0 .. Len(t)] == IF k = 0 THEN 0 ELSE base * v[k - 1] + Worth(t[k]) IN
    v[Len(t)]
Signed(base, t) == IF t # <<>> /\ t[1] = Minus THEN 0 - Value(base, Tail(t)) ELSE Value(base, t)

Blanks(s) == First({i \in 1 .. Len(s) + 1 : i = Len(s) + 1 \/ s[i] \in Space + 1 .. 127 \/ s[i] = 255}) - 1
Fits(n) == IF call.op = "fscanu" THEN n < 2 * Half ELSE n \in 0 - Half .. Half - 1

(***************************************************************************)
(* A scan takes blanks, a sign and digits, and nothing else but a byte 255 *)
(* behind them.  It returns the number they are, if an integer holds it,   *)
(* and says overflow only of one that none holds.  A scan that finds no    *)
(* number takes blanks and at most a minus.                                *)
(***************************************************************************)
ScannedExact ==
    Done(Numbers) =>
      LET taken == SubSeq(call.before, Blanks(call.before) + 1, Len(call.before) - Len(Stream))
          token == IF taken # <<>> /\ Last(taken) = 255 THEN Front(taken) ELSE taken IN
      /\ From(call.before, Len(call.before) - Len(Stream) + 1) = Stream
      /\ call.ret = "true" /\ Fits(Signed(10, token)) => call.num = Signed(10, token)
      /\ call.ret = "true" => \A i \in DOMAIN token : Digit(token[i]) \/ (i = 1 /\ token[i] = Minus)
      /\ call.ret = "ERR_OVERFLOW" => ~Fits(Signed(10, token))
      /\ call.ret = "ERR_PARSE" => taken = <<>> \/ taken = <<Minus>>
      /\ call.ret = "ERR_EOF" => Stream = <<>> \/ Stream[1] = 255

\* What is printed, in any base, is the number.
PrintedExact ==
    Done({"fprint"}) /\ call.ret = "true" =>
      /\ SubSeq(Stream, 1, Len(call.before)) = call.before
      /\ Signed(call.room, From(Stream, Len(call.before) + 1)) = call.num

\* A number that fits arrives as the number that was printed.
NumbersExact == ScannedExact /\ PrintedExact

-----------------------------------------------------------------------------
(***************************************************************************)
(* Every call returns, if the file answers.  Scanning onto a String of no  *)
(* capacity, which doubling does not change, does not.                     *)
(***************************************************************************)
CallsReturn == (at # "idle" /\ ~(call.op = "s_fscan" /\ call.first = 0)) ~> at = "idle"
=============================================================================
