--------------------------- MODULE BufferedWriter ---------------------------
(***************************************************************************)
(* The write half of a BufferedFile (ministd_io.c: bf_write, bf_flush,     *)
(* bf_close, bf_misc) over a raw file whose write may take some of the     *)
(* bytes, take none, or fail.  One thread uses the file; between two raw   *)
(* writes of one bf_flush the state is visible, between two assignments it *)
(* is not.  The bytes between write_buf_pos and write_buf_end are pend,    *)
(* and wpos is write_buf_pos - write_buf: what lies before it has left.    *)
(***************************************************************************)
EXTENDS Integers, Sequences

CONSTANTS
    Bytes,
    NL,         \* the byte '\n'
    Data,       \* what clients write, as sequences of bytes
    WriteCap,   \* write_cap
    Errs,       \* what a failed raw write or close reports
    MaxBytes    \* bound on the bytes written in one behaviour

OK == "ERR_OK"

ASSUME BytesAssumption == NL \in Bytes /\ Data \subseteq Seq(Bytes)
ASSUME CapAssumption == WriteCap \in Nat /\ MaxBytes \in Nat
ASSUME ErrsAssumption == OK \notin Errs

VARIABLES
    wpos, pend,     \* the write buffer
    pc,             \* where the call in progress is, or "idle" or "closed"
    data,           \* the bytes of the bf_write in progress, or of the last
    ret,            \* what the last call returned
    sent,           \* the bytes the raw file has taken
    taken,          \* the bytes the buffered file has taken from clients
    before,         \* taken, when the current or last bf_write was called
    stalled         \* the current or last call saw a raw write take nothing

buffer == <<wpos, pend>>
history == <<taken, before>>
vars == <<buffer, pc, data, ret, sent, history, stalled>>

\* bf_flush is called from four places; the pc says which.
Flushing == {"room", "newline", "flush", "close"}

PCs == {"idle", "direct", "closeRaw", "closed"} \cup Flushing

\* bf_new_from leaves both buffers empty.
Init ==
    /\ wpos = 0
    /\ pend = <<>>
    /\ pc = "idle"
    /\ data = <<>>
    /\ ret = [op |-> "new", n |-> 0, err |-> OK]
    /\ sent = <<>>
    /\ taken = <<>>
    /\ before = <<>>
    /\ stalled = FALSE

Return(op, n, err) ==
    /\ pc' = "idle"
    /\ ret' = [op |-> op, n |-> n, err |-> err]

Begin(at) ==
    /\ pc = "idle"
    /\ pc' = at
    /\ stalled' = FALSE

-----------------------------------------------------------------------------
\* Whether write_buf_end + cap stays within write_buf + write_cap.
Fits_Pending(d) == Len(pend) + Len(d) <= WriteCap  \* mutant: forgets wpos

Fits(d) == wpos + Len(pend) + Len(d) <= WriteCap

\* What write_buf_end[-1] == '\n' can be once d is appended.  With nothing
\* in the buffer it is the byte before the buffer, which may be anything.
SeesNewline(d) ==
    LET p == pend \o d IN
    IF p = <<>> THEN BOOLEAN ELSE {p[Len(p)] = NL}

CallWrite(d) ==
    /\ Len(taken) + Len(d) <= MaxBytes
    /\ data' = d
    /\ before' = taken

\* No room: everything pending is flushed first.
WriteNeedsRoom_Overtakes(d) ==  \* mutant: large writes skip the flush
    /\ Begin(IF Len(d) > WriteCap THEN "direct" ELSE "room")
    /\ CallWrite(d)
    /\ ~Fits(d)
    /\ UNCHANGED <<buffer, ret, sent, taken>>

WriteNeedsRoom(d) ==
    /\ Begin("room")
    /\ CallWrite(d)
    /\ ~Fits(d)
    /\ UNCHANGED <<buffer, ret, sent, taken>>

\* Room: the bytes are appended, and flushed when the last is a newline.
WriteAppends(d) ==
    /\ pc = "idle"
    /\ CallWrite(d)
    /\ Fits(d)
    /\ pend' = pend \o d
    /\ taken' = taken \o d
    /\ stalled' = FALSE
    /\ \E newline \in SeesNewline(d) :
          IF newline THEN pc' = "newline" /\ UNCHANGED ret
                     ELSE Return("write", Len(d), OK)
    /\ UNCHANGED <<wpos, sent>>

\* flush(file): bf_misc with FO_FLUSH.
Flush ==
    /\ Begin("flush")
    /\ UNCHANGED <<buffer, data, ret, sent, history>>

Close ==
    /\ Begin("close")
    /\ UNCHANGED <<buffer, data, ret, sent, history>>

-----------------------------------------------------------------------------
\* One turn of bf_flush's loop in which the raw file takes k bytes.
FlushSome_Backwards(k) ==       \* mutant: write_buf_pos moves the wrong way
    /\ pc \in Flushing
    /\ k \in 1 .. Len(pend)
    /\ sent' = sent \o SubSeq(pend, 1, k)
    /\ pend' = SubSeq(pend, k + 1, Len(pend))
    /\ wpos' = wpos - k
    /\ UNCHANGED <<pc, data, ret, history, stalled>>

FlushSome(k) ==
    /\ pc \in Flushing
    /\ k \in 1 .. Len(pend)
    /\ sent' = sent \o SubSeq(pend, 1, k)
    /\ pend' = SubSeq(pend, k + 1, Len(pend))
    /\ wpos' = wpos + k
    /\ UNCHANGED <<pc, data, ret, history, stalled>>

\* The raw file fails: bf_flush returns the error, and every caller but the
\* newline branch of bf_write passes it on.  bf_close stops half way.
FlushFails_Rewinds(e) ==        \* mutant: the error path empties the buffer
    /\ pc \in Flushing
    /\ pend # <<>>
    /\ \/ pc = "room" /\ Return("write", 0, e)
       \/ pc = "newline" /\ Return("write", 0, OK)
       \/ pc \in {"flush", "close"} /\ Return(pc, 0, e)
    /\ wpos' = 0 /\ pend' = <<>>
    /\ UNCHANGED <<data, sent, history, stalled>>

FlushFails_Quietly(e) ==        \* mutant: no TRY_WITH after bf_flush
    /\ pc \in Flushing
    /\ pend # <<>>
    /\ Return(IF pc \in {"flush", "close"} THEN pc ELSE "write", 0, OK)
    /\ UNCHANGED <<buffer, data, sent, history, stalled>>

FlushFails(e) ==
    /\ pc \in Flushing
    /\ pend # <<>>
    /\ \/ pc = "room" /\ Return("write", 0, e)
       \/ pc = "newline" /\ Return("write", 0, OK)
       \/ pc \in {"flush", "close"} /\ Return(pc, 0, e)
    /\ UNCHANGED <<buffer, data, sent, history, stalled>>

\* The raw file takes nothing: bf_flush returns without an error and with
\* bytes pending.  bf_write notices; flush and bf_close do not look.
FlushStalls_Retries ==          \* mutant: no return; the flag's flip is the turn
    /\ pc \in Flushing
    /\ pend # <<>>
    /\ stalled' = ~stalled
    /\ UNCHANGED <<buffer, pc, data, ret, sent, history>>

FlushStalls ==
    /\ pc \in Flushing
    /\ pend # <<>>
    /\ stalled' = TRUE
    /\ \/ pc \in {"room", "newline"} /\ Return("write", 0, OK)
       \/ pc = "flush" /\ Return("flush", 0, OK)
       \/ pc = "close" /\ pc' = "closeRaw" /\ UNCHANGED ret
    /\ UNCHANGED <<buffer, data, sent, history>>

\* write_buf_pos = write_buf_end = write_buf, with nothing pending.
Rewind_Not == wpos' = wpos      \* mutant: the positions are left where they are

Rewind == wpos' = 0

\* Nothing is left: bf_flush rewinds the buffer and its caller goes on.
FlushDone ==
    /\ pc \in Flushing
    /\ pend = <<>>
    /\ Rewind
    /\ \/ /\ pc = "room"
          /\ Len(data) > WriteCap
          /\ pc' = "direct"
          /\ UNCHANGED <<pend, taken, ret>>
       \/ /\ pc = "room"
          /\ Len(data) <= WriteCap
          /\ pend' = data
          /\ taken' = taken \o data
          /\ Return("write", Len(data), OK)
       \/ /\ pc = "newline"
          /\ Return("write", Len(data), OK)
          /\ UNCHANGED <<pend, taken>>
       \/ /\ pc = "flush"
          /\ Return("flush", 0, OK)
          /\ UNCHANGED <<pend, taken>>
       \/ /\ pc = "close"
          /\ pc' = "closeRaw"
          /\ UNCHANGED <<pend, taken, ret>>
    /\ UNCHANGED <<data, sent, before, stalled>>

\* More bytes than the buffer holds go straight to the raw file, which may
\* take only k of them.
DirectSome_AllReported(k) ==    \* mutant: returns cap, as the other branch does
    /\ pc = "direct"
    /\ k \in 0 .. Len(data)
    /\ sent' = sent \o SubSeq(data, 1, k)
    /\ taken' = taken \o SubSeq(data, 1, k)
    /\ Return("write", Len(data), OK)
    /\ UNCHANGED <<buffer, data, before, stalled>>

DirectSome(k) ==
    /\ pc = "direct"
    /\ k \in 0 .. Len(data)
    /\ sent' = sent \o SubSeq(data, 1, k)
    /\ taken' = taken \o SubSeq(data, 1, k)
    /\ Return("write", k, OK)
    /\ UNCHANGED <<buffer, data, before, stalled>>

DirectFails(e) ==
    /\ pc = "direct"
    /\ Return("write", 0, e)
    /\ UNCHANGED <<buffer, data, sent, history, stalled>>

\* The buffers are freed whether or not they are empty; then the raw file
\* is closed, well or not, and freed.
CloseRaw(e) ==
    /\ pc = "closeRaw"
    /\ pc' = "closed"
    /\ ret' = [op |-> "close", n |-> 0, err |-> e]
    /\ UNCHANGED <<buffer, data, sent, history, stalled>>

-----------------------------------------------------------------------------
Step ==
    \/ \E k \in 1 .. Len(pend) : FlushSome(k)
    \/ \E k \in 0 .. Len(data) : DirectSome(k)
    \/ \E e \in Errs : FlushFails(e) \/ DirectFails(e)
    \/ \E e \in Errs \cup {OK} : CloseRaw(e)
    \/ FlushStalls
    \/ FlushDone

Next ==
    \/ \E d \in Data : WriteNeedsRoom(d) \/ WriteAppends(d)
    \/ Flush
    \/ Close
    \/ Step

Spec == Init /\ [][Next]_vars

\* A thread inside a call keeps running, and raw writes return.
FairSpec == Spec /\ WF_vars(Step)
-----------------------------------------------------------------------------
Results == [op : {"new", "write", "flush", "close"}, n : Nat,
            err : Errs \cup {OK}]

TypeOK ==
    /\ wpos \in Nat
    /\ pend \in Seq(Bytes)
    /\ pc \in PCs
    /\ data \in Seq(Bytes)
    /\ ret \in Results
    /\ sent \in Seq(Bytes)
    /\ taken \in Seq(Bytes)
    /\ before \in Seq(Bytes)
    /\ stalled \in BOOLEAN

(***************************************************************************)
(* What the raw file has received followed by what is pending is what the  *)
(* clients' bytes were, in order: short writes, failed flushes, retries    *)
(* and direct writes lose, repeat and overtake nothing.                    *)
(***************************************************************************)
NothingLost == sent \o pend = taken

(***************************************************************************)
(* write_buf_end never passes the end of the buffer, although a flush that *)
(* stops half way leaves write_buf_pos in the middle of it.                *)
(***************************************************************************)
InBuffer == wpos + Len(pend) <= WriteCap

(***************************************************************************)
(* Between calls, an empty buffer is a rewound one: its whole capacity is  *)
(* there for the next write.                                               *)
(***************************************************************************)
EmptyIsRewound == pc = "idle" /\ pend = <<>> => wpos = 0

(***************************************************************************)
(* bf_write goes past the buffer only when nothing is pending in it, so    *)
(* that a large write cannot overtake earlier bytes.                       *)
(***************************************************************************)
DirectWhenEmpty == pc = "direct" => pend = <<>> /\ wpos = 0

(***************************************************************************)
(* What a returned bf_write tells its caller.  An error means that no byte *)
(* was taken, so that the call may be repeated; n > 0 that exactly the     *)
(* first n bytes were.  The exception is the flush on newline that does    *)
(* not finish: bf_write returns 0 and has taken all the bytes.             *)
(***************************************************************************)
TookAllReported0 ==
    /\ ret.n = 0
    /\ ret.err = OK
    /\ taken = before \o data
    /\ pend # <<>>
    /\ pend[Len(pend)] = NL

WriteTellsTaken ==
    pc = "idle" /\ ret.op = "write" =>
        \/ /\ ret.err # OK => ret.n = 0
           /\ taken = before \o SubSeq(data, 1, ret.n)
        \/ TookAllReported0

(***************************************************************************)
(* features.md: write returns "the number of bytes written".               *)
(***************************************************************************)
WriteReturnsBytesWritten ==
    pc = "idle" /\ ret.op = "write" =>
        taken = before \o SubSeq(data, 1, ret.n)

(***************************************************************************)
(* A flush or close that reports no error has sent everything, unless the  *)
(* raw file took nothing when asked to: that, bf_flush reports to nobody.  *)
(***************************************************************************)
QuietMeansSent ==
    /\ pc = "idle" /\ ret.op = "flush" /\ ret.err = OK => pend = <<>> \/ stalled
    /\ pc \in {"closeRaw", "closed"} => pend = <<>> \/ stalled

(***************************************************************************)
(* Where taken stands inside a bf_write: untouched until the room has been *)
(* made, complete once a newline is being flushed, the newline last.       *)
(***************************************************************************)
TakenInCall ==
    /\ pc \in {"room", "direct"} => taken = before
    /\ pc = "newline" =>
          /\ taken = before \o data
          /\ pend # <<>> => pend[Len(pend)] = NL

IInv ==
    /\ TypeOK
    /\ NothingLost
    /\ InBuffer
    /\ EmptyIsRewound
    /\ DirectWhenEmpty

Out == INSTANCE OutStream WITH
           queue <- pend, out <- sent, open <- (pc # "closed")

(***************************************************************************)
(* The write half of a BufferedFile implements the ordered output stream.  *)
(***************************************************************************)
ImplementsOutStream == Out!OutSpec

(***************************************************************************)
(* Every call returns, whatever mix of short writes, failures and refusals *)
(* the raw file answers with.                                              *)
(***************************************************************************)
CallsReturn == pc \notin {"idle", "closed"} ~> pc \in {"idle", "closed"}
=============================================================================
