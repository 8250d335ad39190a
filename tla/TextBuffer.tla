----------------------------- MODULE TextBuffer -----------------------------
(***************************************************************************)
(* What a growable string promises: a text that is appended to, cut at the *)
(* end or changed in one place, or lost as a whole when memory runs out.   *)
(***************************************************************************)
EXTENDS Naturals, Sequences

CONSTANTS
    Bytes,
    Data,       \* the texts clients create strings from and append
    Absent,     \* there is no string
    Lost        \* the string's memory is gone

VARIABLE text

TBInit == text = Absent

Create == text = Absent /\ \E d \in Data : text' = d

There == text \notin {Absent, Lost}

Append1(d) == There /\ text' = text \o d

Twice == There /\ text' = text \o text

Cut == There /\ \E k \in 0 .. Len(text) : text' = SubSeq(text, 1, k)

Overwrite == There /\ \E i \in 1 .. Len(text), c \in Bytes : text' = [text EXCEPT ![i] = c]

Lose == There /\ text' = Lost

Drop == text # Absent /\ text' = Absent

TBNext ==
    \/ Create
    \/ \E d \in Data : Append1(d)
    \/ Twice
    \/ Cut
    \/ Overwrite
    \/ Lose
    \/ Drop

TBSpec == TBInit /\ [][TBNext]_text
=============================================================================
