-------------------------- MODULE MCBufferedWriter --------------------------
(***************************************************************************)
(* A buffer of three bytes, and writes that leave it half full, fill it,   *)
(* overflow it, pass it by, and end in a newline or do not.                *)
(***************************************************************************)
EXTENDS BufferedWriter

CONSTANTS a, b

MCBytes == {a, b, NL}

MCData == {<<>>, <<a>>, <<b, NL>>, <<b, a>>, <<NL, b, a>>, <<a, NL, b, NL>>}
=============================================================================
