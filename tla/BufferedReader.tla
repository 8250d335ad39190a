--------------------------- MODULE BufferedReader ---------------------------
(***************************************************************************)
(* The read half of a BufferedFile together with the byte of push-back     *)
(* that every FILE has (ministd_io.c: bf_read, read, ungetc, peekc).  The  *)
(* raw file gives some of the bytes asked for, none, or an error.  One     *)
(* thread uses the file.  The bytes between read_buf_pos and read_buf_end  *)
(* are rbuf.                                                               *)
(***************************************************************************)
EXTENDS Integers, Sequences

CONSTANTS
    Bytes,
    Input,      \* what the raw file has to give
    Caps,       \* how much clients ask for in one read
    ReadCap,    \* read_cap
    Errs        \* what a failed raw read reports

OK == "ERR_OK"
ERR_PERM == "ERR_PERM"

ASSUME InputAssumption == Input \in Seq(Bytes)
ASSUME CapsAssumption == Caps \subseteq Nat /\ ReadCap \in Nat
ASSUME ErrsAssumption == OK \notin Errs /\ ERR_PERM \notin Errs

VARIABLES
    ungot,      \* <<c>> when has_ungot, and <<>> when not
    rbuf,       \* the read buffer
    src,        \* what the raw file has left
    pc,         \* "idle", or inside "read" or "peek"
    want,       \* how many bytes the current or last call could still use
    out,        \* the bytes it has put into the caller's buffer
    ret,        \* what the last call returned
    got,        \* the bytes clients have consumed
    dry         \* the current or last call was refused bytes by the raw file

vars == <<ungot, rbuf, src, pc, want, out, ret, got, dry>>

Init ==
    /\ ungot = <<>>
    /\ rbuf = <<>>
    /\ src = Input
    /\ pc = "idle"
    /\ want = 0
    /\ out = <<>>
    /\ ret = [op |-> "new", bytes |-> <<>>, err |-> OK]
    /\ got = <<>>
    /\ dry = FALSE

Shorter(m, n) == IF m < n THEN m ELSE n
Front(s, k) == SubSeq(s, 1, k)
Rest(s, k) == SubSeq(s, k + 1, Len(s))

Call(op, cap) ==
    /\ pc = "idle"
    /\ pc' = op
    /\ want' = cap
    /\ out' = <<>>
    /\ dry' = FALSE
    /\ UNCHANGED <<ungot, rbuf, src, ret, got>>

Read(cap) == Call("read", cap)

\* peekc reads one byte into a local.
Peekc_Two == Call("peek", 2)    \* mutant: peeks at more than can be pushed back

Peekc == Call("peek", 1)

-----------------------------------------------------------------------------
\* read gives out the pushed-back byte first and goes on to read the rest.
TakeUngot_Twice ==              \* mutant: has_ungot is not cleared
    /\ pc # "idle"
    /\ want > 0
    /\ ungot # <<>>
    /\ out' = out \o ungot
    /\ ungot' = ungot
    /\ want' = want - 1
    /\ got' = IF pc = "read" THEN got \o ungot ELSE got
    /\ UNCHANGED <<rbuf, src, pc, ret, dry>>

TakeUngot ==
    /\ pc # "idle"
    /\ want > 0
    /\ ungot # <<>>
    /\ out' = ungot
    /\ ungot' = <<>>
    /\ want' = want - 1
    /\ got' = IF pc = "read" THEN got \o ungot ELSE got
    /\ UNCHANGED <<rbuf, src, pc, ret, dry>>

\* The end of a call that has put bs into the caller's buffer.  read returns
\* them, an error beside them or not.  peekc returns the error or nothing
\* when it got no byte, and else pushes its byte back.
ReturnWith_Kept(bs, err) ==     \* mutant: peekc does not push its byte back
    /\ pc' = "idle"
    /\ out' = <<>>
    /\ ret' = [op |-> pc, bytes |-> bs, err |-> err]
    /\ ungot' = ungot

ReturnWith(bs, err) ==
    /\ pc' = "idle"
    /\ out' = <<>>
    /\ ret' = [op |-> pc, bytes |-> bs, err |-> err]
    /\ ungot' = IF pc = "peek" THEN bs ELSE ungot

\* The call has all it wants, or wanted nothing.
Satisfied ==
    /\ pc # "idle"
    /\ want = 0
    /\ ReturnWith(out, OK)
    /\ UNCHANGED <<rbuf, src, want, got, dry>>

\* Past the push-back, in bf_read.
InBfRead_First == pc # "idle" /\ want > 0     \* mutant: the push-back can wait

InBfRead == pc # "idle" /\ want > 0 /\ ungot = <<>>

\* bytes k of s go to the caller and end the call.
Deliver(s, k) ==
    /\ ReturnWith(out \o Front(s, k), OK)
    /\ got' = IF pc = "read" THEN got \o Front(s, k) ELSE got

\* The buffer has bytes: as many as fit, and the raw file is left alone.
FromBuffer_Rewinds ==           \* mutant: what did not fit is dropped
    /\ InBfRead
    /\ rbuf # <<>>
    /\ Deliver(rbuf, Shorter(want, Len(rbuf)))
    /\ rbuf' = <<>>
    /\ UNCHANGED <<src, want, dry>>

FromBuffer ==
    /\ InBfRead
    /\ rbuf # <<>>
    /\ LET k == Shorter(want, Len(rbuf)) IN
          /\ Deliver(rbuf, k)
          /\ rbuf' = Rest(rbuf, k)
    /\ UNCHANGED <<src, want, dry>>

\* The buffer is empty and smaller than the request: the raw file reads
\* straight into the caller's buffer.
GoesDirect == want > ReadCap

Direct(k) ==
    /\ InBfRead
    /\ rbuf = <<>>
    /\ GoesDirect
    /\ k \in 1 .. Shorter(want, Len(src))
    /\ Deliver(src, k)
    /\ src' = Rest(src, k)
    /\ UNCHANGED <<rbuf, want, dry>>

\* The buffer is empty and large enough: it is filled, then read from.
Fill_NotServed(k) ==            \* mutant: returns what the buffer gave, before it was filled
    /\ InBfRead
    /\ rbuf = <<>>
    /\ ~GoesDirect
    /\ k \in 1 .. Shorter(ReadCap, Len(src))
    /\ rbuf' = Front(src, k)
    /\ src' = Rest(src, k)
    /\ ReturnWith(out, OK)
    /\ UNCHANGED <<want, got, dry>>

Fill(k) ==
    /\ InBfRead
    /\ rbuf = <<>>
    /\ ~GoesDirect
    /\ k \in 1 .. Shorter(ReadCap, Len(src))
    /\ rbuf' = Front(src, k)
    /\ src' = Rest(src, k)
    /\ UNCHANGED <<ungot, pc, want, out, ret, got, dry>>

\* The raw file has nothing (now), or fails: what the push-back gave is all.
Dry ==
    /\ InBfRead
    /\ rbuf = <<>>
    /\ ReturnWith(out, OK)
    /\ dry' = TRUE
    /\ UNCHANGED <<rbuf, src, want, got>>

ReadFails(e) ==
    /\ InBfRead
    /\ rbuf = <<>>
    /\ ReturnWith(out, e)
    /\ UNCHANGED <<rbuf, src, want, got, dry>>

\* ungetc with the byte the client consumed last.
Ungetc ==
    /\ pc = "idle"
    /\ got # <<>>
    /\ IF ungot = <<>>
       THEN /\ ungot' = <<got[Len(got)]>>
            /\ got' = Front(got, Len(got) - 1)
            /\ ret' = [op |-> "ungetc", bytes |-> <<>>, err |-> OK]
       ELSE /\ ret' = [op |-> "ungetc", bytes |-> <<>>, err |-> ERR_PERM]
            /\ UNCHANGED <<ungot, got>>
    /\ UNCHANGED <<rbuf, src, pc, want, out, dry>>

Step ==
    \/ TakeUngot
    \/ Satisfied
    \/ FromBuffer
    \/ \E k \in 1 .. Len(src) : Direct(k) \/ Fill(k)
    \/ Dry
    \/ \E e \in Errs : ReadFails(e)

Next ==
    \/ \E cap \in Caps : Read(cap)
    \/ Peekc
    \/ Ungetc
    \/ Step

Spec == Init /\ [][Next]_vars

-----------------------------------------------------------------------------
TypeOK ==
    /\ ungot \in Seq(Bytes) /\ Len(ungot) <= 1
    /\ rbuf \in Seq(Bytes)
    /\ src \in Seq(Bytes)
    /\ pc \in {"idle", "read", "peek"}
    /\ want \in Nat
    /\ out \in Seq(Bytes)
    /\ ret \in [op : {"new", "read", "peek", "ungetc"}, bytes : Seq(Bytes),
                err : Errs \cup {OK, ERR_PERM}]
    /\ got \in Seq(Bytes)
    /\ dry \in BOOLEAN

\* What the client has not consumed yet, the next byte first.  The byte a
\* peekc holds is not consumed.
Held == IF pc = "peek" THEN out ELSE <<>>

Ahead == Held \o (ungot \o (rbuf \o src))

(***************************************************************************)
(* What clients have consumed followed by what is ahead of them is what    *)
(* the raw file had: peeks, push-backs, buffer refills, direct reads and   *)
(* errors skip no byte, repeat none and swap none.                         *)
(***************************************************************************)
NothingLost == got \o Ahead = Input

(***************************************************************************)
(* The byte peekc returned is the first byte of the next read (one that    *)
(* wants a byte), and of the next peekc.                                   *)
(***************************************************************************)
PeekedComesNext ==
    [][ret.op = "peek" /\ ret.bytes # <<>> /\ ret' # ret /\ ret'.op # "ungetc"
         => IF ret'.bytes = <<>> THEN want = 0
                                 ELSE ret'.bytes[1] = ret.bytes[1]]_vars

(***************************************************************************)
(* Nothing and no error, which callers take for the end of the file, is    *)
(* returned only to a call that wanted nothing or when the raw file gave   *)
(* nothing during this call.                                               *)
(***************************************************************************)
EmptyMeansDry ==
    /\ pc = "idle"
    /\ ret.op \in {"read", "peek"}
    /\ ret.bytes = <<>>
    /\ ret.err = OK
    => dry \/ want = 0

\* Inside a call: a byte is in the caller's buffer only after the push-back
\* was emptied into it, and at most that one byte.
InCall ==
    /\ pc = "idle" => out = <<>>
    /\ pc = "peek" => want + Len(out) = 1
    /\ Len(out) <= 1
    /\ out # <<>> => ungot = <<>>

IInv == TypeOK /\ InCall /\ NothingLost

In == INSTANCE InStream WITH read <- got, ahead <- Ahead

(***************************************************************************)
(* The read half of a BufferedFile implements the ordered input stream     *)
(* with push-back: a peekc changes nothing a client can see.               *)
(***************************************************************************)
ImplementsInStream == In!InSpec
=============================================================================
