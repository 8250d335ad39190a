----------------------------- MODULE MCSbrkHeap -----------------------------
(***************************************************************************)
(* Five bits: room for seven blocks with a header of one, and requests     *)
(* that wrap in the product, or when the header is added.                  *)
(***************************************************************************)
EXTENDS SbrkHeap

MCSizes == {0, 1, 3, 31}
MCCounts == {0, 1, 2, 13}
=============================================================================
