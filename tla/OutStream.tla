----------------------------- MODULE OutStream ------------------------------
(***************************************************************************)
(* What a buffering layer over an output file promises: bytes leave in the *)
(* order in which they were taken, each once, and none is invented.  When  *)
(* they leave is up to the layer, and closing it ends the sending.         *)
(***************************************************************************)
EXTENDS Sequences, Naturals

CONSTANT Bytes

VARIABLES
    queue,      \* bytes taken and not yet sent
    out,        \* bytes the file below has received
    open

OutInit == queue = <<>> /\ out = <<>> /\ open = TRUE

\* t is s with bytes added at its end.
Extends(s, t) ==
    /\ t \in Seq(Bytes)
    /\ Len(s) <= Len(t)
    /\ SubSeq(t, 1, Len(s)) = s

\* The client hands over bytes.
Take ==
    /\ open
    /\ Extends(queue, queue')
    /\ UNCHANGED <<out, open>>

\* The first k queued bytes reach the file below.
Send(k) ==
    /\ open
    /\ out' = out \o SubSeq(queue, 1, k)
    /\ queue' = SubSeq(queue, k + 1, Len(queue))
    /\ UNCHANGED open

\* Bytes pass straight through, which only an empty queue allows.
PassThrough ==
    /\ open
    /\ queue = <<>>
    /\ Extends(out, out')
    /\ UNCHANGED <<queue, open>>

Shut ==
    /\ open
    /\ open' = FALSE
    /\ UNCHANGED <<queue, out>>

OutNext ==
    \/ Take
    \/ \E k \in 1 .. Len(queue) : Send(k)
    \/ PassThrough
    \/ Shut

outVars == <<queue, out, open>>

OutSpec == OutInit /\ [][OutNext]_outVars
=============================================================================
