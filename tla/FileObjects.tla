---------------------------- MODULE FileObjects -----------------------------
(***************************************************************************)
(* What constructing and closing FILEs allocates and frees (ministd_io.c): *)
(* a raw file around a descriptor, a BufferedFile around it and a          *)
(* LockedFile around either.  <<"bf", x>> is the BufferedFile of stream x. *)
(* A call takes the objects that are allocated and the descriptors that    *)
(* are open, and is the set of its outcomes: the two after it, whether it  *)
(* reports an error, what it returns, and its cause when it is one of the  *)
(* failures that do not leave the caller with what it had: "open", "bf"    *)
(* and "lock".                                                             *)
(***************************************************************************)
EXTENDS FiniteSets

Outcome(s, err, res, cause) ==
    [live |-> s.live, fds |-> s.fds, err |-> err, res |-> res, cause |-> cause]

Refused(s) == Outcome(s, TRUE, "null", "none")
Made(s) == Outcome(s, FALSE, "object", "none")

Add(s, kinds, x) == [s EXCEPT !.live = @ \cup {<<k, x>> : k \in kinds}]
Free(s, kinds, x) == [s EXCEPT !.live = @ \ {<<k, x>> : k \in kinds}]
CloseFd(s, x) == [s EXCEPT !.fds = @ \ {x}]

\* open and from_fd: when the object cannot be had, the descriptor stays open.
FromFd(s, x) ==
    LET opened == [s EXCEPT !.fds = @ \cup {x}] IN
    {Refused(s), Outcome(opened, TRUE, "null", "open"), Made(Add(opened, {"raw"}, x))}

\* bf_new: a buffer that cannot be had leaves the file alone, but when the
\* BufferedFile itself cannot be had the file is closed and freed too.
BfNew_Leaks(s, x) ==            \* mutant: the read buffer is not freed
    LET one == Add(s, {"rbuf"}, x)
        both == Add(one, {"wbuf"}, x) IN
    {Refused(s), Refused(one),
     Outcome(Free(CloseFd(both, x), {"raw", "rbuf", "wbuf"}, x), TRUE, "null", "bf"),
     Made(Add(both, {"bf"}, x))}

BfNew(s, x) ==
    LET one == Add(s, {"rbuf"}, x)
        both == Add(one, {"wbuf"}, x) IN
    {Refused(s), Refused(Free(one, {"rbuf"}, x)),
     Outcome(Free(CloseFd(both, x), {"raw", "rbuf", "wbuf"}, x), TRUE, "null", "bf"),
     Made(Add(both, {"bf"}, x))}

\* bf_close after its flush: a flush that fails stops it.
BfClose(s, x, flushed) ==
    IF flushed THEN Free(CloseFd(s, x), {"rbuf", "wbuf", "raw"}, x) ELSE s

\* close and free of the file inside a LockedFile.
Release(s, x, flushed) ==
    IF <<"bf", x>> \in s.live THEN Free(BfClose(s, x, flushed), {"bf"}, x)
                              ELSE Free(CloseFd(s, x), {"raw"}, x)

\* lf_new: without a lock, the file and the object are freed, no error is
\* reported and the freed object returned.
LfNew_Unchecked(s, x) ==        \* mutant: mutex_new's failure goes unnoticed
    {Refused(s), Made(Add(s, {"lf"}, x)), Made(Add(s, {"lf", "lock"}, x))}

LfNew(s, x) ==
    {Refused(s),
     Outcome(Free(Release(Add(s, {"lf"}, x), x, TRUE), {"lf"}, x), FALSE, "freed", "lock"),
     Made(Add(s, {"lf", "lock"}, x))}

\* lf_close, after which its caller frees the LockedFile.
LfClose(s, x, flushed) == Release(Free(s, {"lock"}, x), x, flushed)

\* The objects a pointer to the outermost one owns.
Owned(top, x) ==
    {<<k, x>> : k \in CASE top = "raw" -> {"raw"}
                        [] top = "bf" -> {"raw", "rbuf", "wbuf", "bf"}
                        [] top = "lf" -> {"raw", "rbuf", "wbuf", "bf", "lf", "lock"}
                        [] OTHER -> {}}
=============================================================================
