------------------------------ MODULE MCStdio ------------------------------
(***************************************************************************)
(* One thread prints two messages, the other reads a byte; both report     *)
(* errors, register hooks, clone and exit.  The table of hooks gets full,  *)
(* and there is a message to lose beside a hook that registers another.    *)
(***************************************************************************)
EXTENDS Stdio

MCReaders == {"t1"}
MCPrinters == {"t2"}
MCThreads == {"t1", "t2"}
=============================================================================
