------------------------------ MODULE InStream ------------------------------
(***************************************************************************)
(* What an input file with one byte of push-back promises: reads consume   *)
(* the bytes ahead in order, and the byte read last can be put back.       *)
(***************************************************************************)
EXTENDS Sequences, Naturals

CONSTANT Input          \* all the bytes the file will ever give

VARIABLES
    read,       \* the bytes consumed
    ahead       \* the bytes still to be read

InInit == read = <<>> /\ ahead = Input

Consume(k) ==
    /\ read' = read \o SubSeq(ahead, 1, k)
    /\ ahead' = SubSeq(ahead, k + 1, Len(ahead))

PutBack ==
    /\ read # <<>>
    /\ read' = SubSeq(read, 1, Len(read) - 1)
    /\ ahead' = <<read[Len(read)]>> \o ahead

InNext == PutBack \/ \E k \in 0 .. Len(ahead) : Consume(k)

InSpec == InInit /\ [][InNext]_<<read, ahead>>
=============================================================================
