-------------------------- MODULE MCBufferedReader --------------------------
(***************************************************************************)
(* Five bytes, all different so that order shows, through a buffer of two: *)
(* requests below, at and above the buffer's size.                         *)
(***************************************************************************)
EXTENDS BufferedReader

MCBytes == 1 .. 5
MCInput == <<1, 2, 3, 4, 5>>
=============================================================================
