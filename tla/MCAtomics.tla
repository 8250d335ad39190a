----------------------------- MODULE MCAtomics ------------------------------
(***************************************************************************)
(* Two threads, two cells of two bits.  MixedCalls has each kind of        *)
(* operation, its loads strict and the rest relaxed or strict; StoreLoad   *)
(* has strict stores and relaxed loads.                                    *)
(***************************************************************************)
EXTENDS Atomics

CONSTANTS x, y

MCCells == {x, y}
MCValues == 0 .. 3

Higher(v, w) == IF v > w THEN v ELSE w

MCCombine(op, v, arg) ==
    CASE op = "add" -> (v + arg) % 4
      [] op = "sub" -> (v - arg) % 4
      [] op = "max" -> Higher(v, arg)
      [] op = "min" -> v + arg - Higher(v, arg)
      [] op = "xor" -> IF arg = 3 THEN 3 - v ELSE IF arg = 0 THEN v
                       ELSE (v + (IF (v \div arg) % 2 = 1 THEN 4 - arg ELSE arg)) % 4
      [] op = "or" -> IF arg = 3 THEN 3 ELSE IF arg = 0 THEN v
                      ELSE IF (v \div arg) % 2 = 1 THEN v ELSE v + arg
      [] op = "and" -> IF arg = 3 THEN v ELSE IF arg = 0 THEN 0
                       ELSE IF (v \div arg) % 2 = 1 THEN arg ELSE 0

Asks(op, cell, arg, expected, order) ==
    [op |-> op, cell |-> cell, arg |-> arg, expected |-> expected, order |-> order]

MixedCalls ==
    { Asks("load", x, 0, 0, "strict"), Asks("load", y, 0, 0, "strict"),
      Asks("store", x, 1, 0, "strict"), Asks("store", y, 2, 0, "relaxed"),
      Asks("add", x, 3, 0, "relaxed"), Asks("cas", y, 0, 2, "relaxed"),
      Asks("xor", x, 1, 0, "relaxed"), Asks("max", y, 1, 0, "strict") }

StoreLoad ==
    { Asks("load", x, 0, 0, "relaxed"), Asks("load", y, 0, 0, "relaxed"),
      Asks("store", x, 1, 0, "strict"), Asks("store", y, 1, 0, "strict") }
=============================================================================
