--------------------------- MODULE MCStringFiles ---------------------------
(***************************************************************************)
(* Capacities up to three: a string of one doubles, and grows by a doubled *)
(* amount when two bytes are appended.  A NUL in the text is the second    *)
(* character, so that order shows.  Two addresses: a buffer moves to the   *)
(* other one, blocks are mapped where others were, and memory runs out.    *)
(* Three objects: the string, a view and a file over it, or a copy.        *)
(***************************************************************************)
EXTENDS StringFiles

MCAddrs == 1 .. 2
MCTexts == {<<>>, <<1, 0>>}
=============================================================================
