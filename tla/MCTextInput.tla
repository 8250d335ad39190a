---------------------------- MODULE MCTextInput -----------------------------
(***************************************************************************)
(* Four bits, so that two digits may or may not fit, and inputs of up to   *)
(* three bytes of each kind that the code tells apart, with some longer    *)
(* ones: words that fill two buffers, and numbers behind and before text.  *)
(***************************************************************************)
EXTENDS TextInput

Kinds == {10, 32, 45, 49, 57, 97, 255}
MCInputs ==
    UNION {[1 .. n -> Kinds] : n \in 0 .. 3} \cup
    {<<97, 97, 97, 97, 97>>, <<32, 97, 97, 97, 97, 32>>, <<45, 56, 32, 45, 57>>, <<49, 53, 49, 54, 10>>}
MCLines == {<<>>, <<97>>, <<97, 32>>}
=============================================================================
