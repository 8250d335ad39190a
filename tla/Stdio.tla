------------------------------- MODULE Stdio --------------------------------
(***************************************************************************)
(* The life of a process that uses the standard streams: their             *)
(* construction when memory may run out, threads that print, report errors *)
(* and read, a clone of the process, and exit with its hooks, the first of *)
(* which closes the streams under the other threads                        *)
(* (ministd_io.c, ministd.c, ministd_sched.c).                             *)
(*                                                                         *)
(* A mutex is its owner, which SpinLock shows it to be.  stdout's          *)
(* BufferedFile is the messages between write_buf and write_buf_end and    *)
(* the position write_buf_pos among them.  Its loops are steps: sending,   *)
(* moving the position and the reset are apart, for exit's flush of stdout *)
(* takes no lock and may run beside a thread that is inside.  An access to *)
(* an object that has been freed, or never made, ends the behaviour.       *)
(***************************************************************************)
EXTENDS FileObjects, Naturals, Sequences

CONSTANTS
    Threads,
    Readers,    \* the threads that read from stdin
    Printers,   \* the threads that print; hooks do, too
    HooksCap,   \* EXITHOOKS_CAP
    MaxPrints,  \* bound: messages printed
    MaxCalls,   \* bound: messages printed, hooks registered and clones, together
    MaxIn,      \* how many bytes stdin has; they are 1 .. MaxIn
    None        \* no thread, and no child

ASSUME StdioAssumption == Readers \cup Printers \subseteq Threads /\ None \notin Threads
ASSUME NoneAssumption == None \notin [pending : Seq(1 .. MaxPrints), done : BOOLEAN]
ASSUME BoundsAssumption == HooksCap \in Nat \ {0} /\ MaxPrints \in Nat /\ MaxCalls \in Nat /\ MaxIn \in Nat

VARIABLES
    fate,       \* "boot", "files", "runs", "exited", "dies", "overruns" or "strays"
    live, fds,  \* the objects allocated and the descriptors open
    boot,       \* how far _ministd_io_init has come
    top,        \* what the client has of a file of its own
    surprise,   \* history: the failure that did not leave the client what it had
    pc,
    loc,        \* what a thread carries through a call
    holder,     \* the owner of each LockedFile's mutex
    n,          \* how many messages have been printed; they are 1 .. n
    kept,       \* history: those that stdout has taken
    outbuf,     \* stdout's buffer, from write_buf to write_buf_end
    outpos,     \* write_buf_pos, how much of it has been sent
    screen,     \* what descriptor 1 has received
    stalled,    \* history: the flush of exit gave up without an error
    nextin,     \* the first byte not yet taken from stdin's BufferedFile
    has, ungot, \* stdin's has_ungot and ungot, outside its mutex
    got,        \* the bytes clients have consumed from stdin
    hooks,      \* exithooks
    ran,        \* history: which entries exit has called
    late,       \* history: how many hooks were registered during exit
    child       \* what a cloned process has in its copy of stdout, or None

objects == <<live, fds, boot, top, surprise>>
output == <<n, kept, outbuf, outpos, screen, stalled>>
input == <<nextin, has, ungot, got>>
exiting == <<hooks, ran, late>>
vars == <<fate, objects, pc, loc, holder, output, input, exiting, child>>

\* op is the call, back where it returns to, id its message or byte, from the
\* position it has loaded, sent how much a raw write took, mark what was pending
\* when it began, and sure that its flush of stdout was complete.
Nothing == [op |-> "none", back |-> "idle", id |-> 0, from |-> 0, sent |-> 0, mark |-> {}, sure |-> FALSE]

Init ==
    /\ fate = "boot" /\ boot = 1
    /\ live = {} /\ fds = {"in", "out", "err"}
    /\ top = "none" /\ surprise = "none"
    /\ pc = [t \in Threads |-> "idle"] /\ loc = [t \in Threads |-> Nothing]
    /\ holder = [x \in {"in", "out", "err"} |-> None]
    /\ n = 0 /\ kept = {} /\ outbuf = <<>> /\ outpos = 0 /\ screen = <<>> /\ stalled = FALSE
    /\ nextin = 1 /\ has = FALSE /\ ungot = 0 /\ got = <<>>
    /\ hooks = <<>> /\ ran = <<>> /\ late = 0
    /\ child = None

Stray == fate' = "strays" /\ UNCHANGED <<objects, pc, loc, holder, output, input, exiting, child>>
Overrun == fate' = "overruns" /\ UNCHANGED <<objects, pc, loc, holder, output, input, exiting, child>>

Objects == [live |-> live, fds |-> fds]
Become(r) == live' = r.live /\ fds' = r.fds

-----------------------------------------------------------------------------
(***************************************************************************)
(* _ministd_io_init.  A failure on the way to stderr is reported to        *)
(* descriptor 2 and panics.  Later ones are given to perror, which goes    *)
(* through stderr_write and flushes a stdout that does not exist yet.  A   *)
(* freed LockedFile is written to at once, but for stdout's.               *)
(***************************************************************************)
BootSteps == <<<<"raw", "err">>, <<"lf", "err">>,
               <<"raw", "in">>, <<"bf", "in">>, <<"lf", "in">>,
               <<"raw", "out">>, <<"bf", "out">>, <<"lf", "out">>>>

Outcomes(kind, x) ==
    CASE kind = "raw" -> {Refused(Objects), Made(Add(Objects, {"raw"}, x))}
      [] kind = "bf" -> BfNew(Objects, x)
      [] kind = "lf" -> LfNew(Objects, x)

BootFails(x) == fate' = IF x = "err" THEN "dies" ELSE "strays"

IoInit ==
    /\ fate = "boot" /\ boot <= Len(BootSteps)
    /\ LET x == BootSteps[boot][2] IN
       \E r \in Outcomes(BootSteps[boot][1], x) :
          /\ Become(r)
          /\ IF r.err THEN BootFails(x)
             ELSE IF r.res = "freed" /\ x # "out" THEN fate' = "strays" ELSE UNCHANGED fate
    /\ boot' = boot + 1
    /\ UNCHANGED <<top, surprise, pc, loc, holder, output, input, exiting, child>>

\* atexit(ministd_io_cleanup), and main: a client builds files of its own,
\* or uses the standard streams.
Main ==
    /\ fate = "boot" /\ boot > Len(BootSteps)
    /\ hooks' = <<"cleanup">>
    /\ fate' \in {"files", "runs"}
    /\ UNCHANGED <<objects, pc, loc, holder, output, input, ran, late, child>>

-----------------------------------------------------------------------------
(***************************************************************************)
(* A client that wraps a file of its own, one constructor after the other. *)
(* On an error it takes the file it passed for still its own.              *)
(***************************************************************************)
Wrap(from, kind, outcomes) ==
    /\ fate = "files" /\ top = from /\ surprise = "none"
    /\ \E r \in outcomes :
          /\ Become(r)
          /\ top' = IF r.err THEN top ELSE kind
          /\ surprise' = r.cause
    /\ UNCHANGED <<fate, boot, pc, loc, holder, output, input, exiting, child>>

MakeFile ==
    \/ Wrap("none", "raw", FromFd(Objects, "file"))
    \/ Wrap("raw", "bf", BfNew(Objects, "file"))
    \/ Wrap("bf", "lf", LfNew(Objects, "file"))

\* close, then free of the outermost object.
CloseFile ==
    /\ fate = "files" /\ top # "none"
    /\ IF ~(Owned(top, "file") \subseteq live) THEN Stray
       ELSE /\ \E flushed \in BOOLEAN :
                  /\ Become(Free(CASE top = "raw" -> CloseFd(Objects, "file")
                                   [] top = "bf" -> BfClose(Objects, "file", flushed)
                                   [] top = "lf" -> LfClose(Objects, "file", flushed), {top}, "file"))
                  /\ surprise' = IF flushed \/ top = "raw" THEN surprise ELSE "flush"
            /\ top' = "none"
            /\ UNCHANGED <<fate, boot, pc, loc, holder, output, input, exiting, child>>

-----------------------------------------------------------------------------
Calls == n + Len(hooks) + IF child = None THEN 0 ELSE 1

Idle(t) == fate = "runs" /\ pc[t] = "idle"
At(t, where) == fate = "runs" /\ pc[t] = where
Goto(t, where) == pc' = [pc EXCEPT ![t] = where]
Call(t, where, rec) == Goto(t, where) /\ loc' = [loc EXCEPT ![t] = [rec EXCEPT !.back = pc[t]]]
Return(t) == Goto(t, loc[t].back) /\ loc' = [loc EXCEPT ![t] = Nothing]

\* mutex_lock of stream x.
Enter_Always(t, x, from, to) == \* mutant: does not wait for the owner
    /\ At(t, from)
    /\ IF ~({<<"lf", x>>, <<"lock", x>>} \subseteq live) THEN Stray
       ELSE /\ holder' = [holder EXCEPT ![x] = t]
            /\ Goto(t, to)
            /\ loc' = [loc EXCEPT ![t].from = IF x = "in" THEN nextin ELSE 0]
            /\ UNCHANGED <<fate, objects, output, input, exiting, child>>

Enter(t, x, from, to) ==
    /\ At(t, from)
    /\ IF ~({<<"lf", x>>, <<"lock", x>>} \subseteq live) THEN Stray
       ELSE /\ holder[x] = None
            /\ holder' = [holder EXCEPT ![x] = t]
            /\ Goto(t, to)
            /\ loc' = [loc EXCEPT ![t].from = IF x = "in" THEN nextin ELSE 0]
            /\ UNCHANGED <<fate, objects, output, input, exiting, child>>

\* The object that x's mutex protects, and the mutex, are still there.
Inside(x) == {<<"lock", x>>, <<"lf", x>>, <<IF x = "err" THEN "raw" ELSE "bf", x>>} \subseteq live

Leave(x) == holder' = [holder EXCEPT ![x] = None]

-----------------------------------------------------------------------------
\* exit has freed stdout's lock under a thread that holds it.
Raced == <<"lock", "out">> \notin live /\ holder["out"] # None

(***************************************************************************)
(* A step on stdout's BufferedFile, for which no lock need be held.  When  *)
(* exit's flush runs beside a thread inside, the steps below interleave.   *)
(* Those are not all the outcomes of that data race: a length from two     *)
(* different positions may reach beyond the buffer, and an update of the   *)
(* buffer's end may get lost.  So that race may stray anywhere, and no     *)
(* property says what becomes of stdout's messages after it.               *)
(***************************************************************************)
OnStdout(t, where) == At(t, where) /\ <<"bf", "out">> \in live
OffStdout(t, where) == At(t, where) /\ (<<"bf", "out">> \notin live \/ Raced) /\ Stray

Waiting == SubSeq(outbuf, outpos + 1, Len(outbuf))
Pending == {Waiting[i] : i \in DOMAIN Waiting}

\* The loop of bf_flush: a raw write that takes some, nothing, or fails.
SendSome(t) ==
    /\ OnStdout(t, "flushing") /\ outpos < Len(outbuf)
    /\ \/ \E k \in 1 .. Len(Waiting) :
             /\ screen' = screen \o SubSeq(Waiting, 1, k)
             /\ loc' = [loc EXCEPT ![t].from = outpos, ![t].sent = k]
             /\ Goto(t, "advance")
       \/ Goto(t, "stopped") /\ UNCHANGED <<loc, screen>>
       \/ Goto(t, "failed") /\ UNCHANGED <<loc, screen>>
    /\ UNCHANGED <<fate, objects, holder, n, kept, outbuf, outpos, stalled, input, exiting, child>>

\* write_buf_pos is loaded after the raw write, once a racing flush may have
\* moved it, and stored.
Reload(t) ==
    /\ OnStdout(t, "advance") /\ loc[t].from # outpos
    /\ loc' = [loc EXCEPT ![t].from = outpos]
    /\ UNCHANGED <<fate, objects, pc, holder, output, input, exiting, child>>

Advance_Keeps(t) ==             \* mutant: the position stays where it was
    /\ OnStdout(t, "advance")
    /\ outpos' = loc[t].from
    /\ Goto(t, "flushing") /\ loc' = [loc EXCEPT ![t].from = 0, ![t].sent = 0]
    /\ UNCHANGED <<fate, objects, holder, n, kept, outbuf, screen, stalled, input, exiting, child>>

Advance(t) ==
    /\ OnStdout(t, "advance")
    /\ outpos' = loc[t].from + loc[t].sent
    /\ Goto(t, "flushing") /\ loc' = [loc EXCEPT ![t].from = 0, ![t].sent = 0]
    /\ UNCHANGED <<fate, objects, holder, n, kept, outbuf, screen, stalled, input, exiting, child>>

\* The loop has ended; a racing writer may still add to the buffer.
AllSent(t) ==
    /\ OnStdout(t, "flushing") /\ outpos >= Len(outbuf)
    /\ Goto(t, "reset")
    /\ UNCHANGED <<fate, objects, loc, holder, output, input, exiting, child>>

Reset(t) ==
    /\ OnStdout(t, "reset")
    /\ outbuf' = <<>> /\ outpos' = 0
    /\ Goto(t, "done")
    /\ UNCHANGED <<fate, objects, loc, holder, n, kept, screen, stalled, input, exiting, child>>

Flushing(t) ==
    \/ SendSome(t) \/ Reload(t) \/ Advance(t) \/ AllSent(t) \/ Reset(t)
    \/ \E where \in {"flushing", "advance", "reset"} : OffStdout(t, where)

\* write to stdout: lf_write around bf_write.
PutOut(t) ==
    /\ \/ Idle(t) /\ t \in Printers
       \/ At(t, "exit") /\ ran # <<>> /\ hooks[ran[Len(ran)]] = "user"
    /\ n < MaxPrints /\ Calls < MaxCalls
    /\ n' = n + 1
    /\ Call(t, "print", [Nothing EXCEPT !.id = n + 1])
    /\ UNCHANGED <<fate, objects, holder, kept, outbuf, outpos, screen, stalled, input, exiting, child>>

\* There is room, and a newline flushes, or the buffer is flushed first.
Store(t) ==
    /\ OnStdout(t, "printing")
    /\ outbuf' = Append(outbuf, loc[t].id) /\ kept' = kept \cup {loc[t].id}
    /\ Goto(t, "flushing") \/ Goto(t, "done")
    /\ UNCHANGED <<fate, objects, loc, holder, n, outpos, screen, stalled, input, exiting, child>>

NoRoom(t) ==
    /\ OnStdout(t, "printing")
    /\ Goto(t, "flushing") /\ loc' = [loc EXCEPT ![t].op = "full"]
    /\ UNCHANGED <<fate, objects, holder, output, input, exiting, child>>

\* After that flush: into the buffer, or around it in a raw write, which may
\* take nothing.
Refill(t) ==
    /\ OnStdout(t, "done") /\ loc[t].op = "full"
    /\ loc' = [loc EXCEPT ![t].op = "none"]
    /\ \/ outbuf' = <<loc[t].id>> /\ outpos' = 0 /\ kept' = kept \cup {loc[t].id} /\ UNCHANGED screen
       \/ screen' = Append(screen, loc[t].id) /\ kept' = kept \cup {loc[t].id} /\ UNCHANGED <<outbuf, outpos>>
       \/ UNCHANGED <<outbuf, outpos, kept, screen>>
    /\ UNCHANGED <<fate, objects, pc, holder, n, stalled, input, exiting, child>>

Printing(t) ==
    \/ Store(t) \/ NoRoom(t) \/ Refill(t)
    \/ OffStdout(t, "printing")
    \/ OffStdout(t, "done") /\ loc[t].op = "full"

(***************************************************************************)
(* mutex_unlock of stdout, after a write, or after the flush that          *)
(* stderr_write and stdin_read begin with.  stdin_read returns its error,  *)
(* stderr_write goes on.                                                   *)
(***************************************************************************)
LeaveOut(t) ==
    /\ fate = "runs" /\ pc[t] \in {"done", "stopped", "failed"}
    /\ loc[t].op # "close" /\ ~(pc[t] = "done" /\ loc[t].op = "full")
    /\ IF ~Inside("out") THEN Stray
       ELSE /\ Leave("out")
            /\ IF loc[t].op \in {"none", "full"} \/ (pc[t] = "failed" /\ loc[t].op # "err") THEN Return(t)
               ELSE /\ Goto(t, IF loc[t].op = "err" THEN "err" ELSE "in")
                    /\ loc' = [loc EXCEPT ![t].sure = (pc[t] = "done"), ![t].mark = IF pc[t] = "done" THEN @ ELSE {}]
            /\ UNCHANGED <<fate, objects, output, input, exiting, child>>

\* stderr_write, through which perror goes, too
Report_First(t) ==              \* mutant: writes before it flushes
    /\ Idle(t)
    /\ Call(t, "err", [Nothing EXCEPT !.op = "err", !.mark = Pending, !.sure = TRUE])
    /\ UNCHANGED <<fate, objects, holder, output, input, exiting, child>>

Report(t) ==
    /\ Idle(t)
    /\ Call(t, "flush", [Nothing EXCEPT !.op = "err", !.mark = Pending])
    /\ UNCHANGED <<fate, objects, holder, output, input, exiting, child>>

Reporting(t) ==
    /\ At(t, "reporting")
    /\ IF ~Inside("err") THEN Stray
       ELSE /\ Leave("err") /\ Return(t)
            /\ UNCHANGED <<fate, objects, output, input, exiting, child>>

-----------------------------------------------------------------------------
(***************************************************************************)
(* read of one byte from stdin, and peekc, which is a read and an ungetc.  *)
(* has_ungot and ungot belong to the LockedFile and are used without its   *)
(* mutex.  A byte of 0 stands for none.                                    *)
(***************************************************************************)
Read(t, op) ==
    /\ Idle(t) /\ t \in Readers
    /\ Len(got) < MaxIn       \* bound: there is nothing left to read
    /\ Call(t, "check", [Nothing EXCEPT !.op = op, !.mark = Pending])
    /\ UNCHANGED <<fate, objects, holder, output, input, exiting, child>>

\* The byte is there: read consumes it, peekc goes on to push it back.
Deliver(t, byte) ==
    IF loc[t].op = "peek" /\ byte # 0
    THEN /\ Goto(t, "unget") /\ UNCHANGED got
         /\ loc' = [loc EXCEPT ![t] = [Nothing EXCEPT !.op = "peek", !.back = loc[t].back, !.id = byte]]
    ELSE Return(t) /\ got' = IF byte # 0 THEN Append(got, byte) ELSE got

PushBackStep(t) ==
    /\ \/ At(t, "check") /\ Goto(t, IF has THEN "clear" ELSE "flush") /\ UNCHANGED <<loc, has, ungot, got>>
       \/ At(t, "clear") /\ has' = FALSE /\ Goto(t, "take") /\ UNCHANGED <<loc, ungot, got>>
       \/ At(t, "take") /\ Deliver(t, ungot) /\ UNCHANGED <<has, ungot>>
       \/ At(t, "unget") /\ (IF has THEN Return(t) ELSE Goto(t, "set") /\ UNCHANGED loc) /\ UNCHANGED <<has, ungot, got>>
       \/ At(t, "set") /\ has' = TRUE /\ Goto(t, "store") /\ UNCHANGED <<loc, ungot, got>>
       \/ At(t, "store") /\ ungot' = loc[t].id /\ Return(t) /\ UNCHANGED <<has, got>>
    /\ UNCHANGED <<objects, holder, output, nextin, exiting, child>>

UsePushBack(t) ==
    IF <<"lf", "in">> \in live THEN PushBackStep(t) /\ UNCHANGED fate
    ELSE pc[t] \in {"check", "clear", "take", "unget", "set", "store"} /\ fate = "runs" /\ Stray

\* bf_read gives the next byte, or has none, now or because the raw file fails.
Reading(t) ==
    /\ At(t, "reading")
    /\ IF ~Inside("in") THEN Stray
       ELSE /\ \E byte \in {0} \cup {b \in {loc[t].from} : b <= MaxIn} :
                  /\ nextin' = IF byte = 0 THEN nextin ELSE byte + 1
                  /\ Deliver(t, byte)
            /\ Leave("in")
            /\ UNCHANGED <<fate, objects, output, has, ungot, exiting, child>>

-----------------------------------------------------------------------------
Exiting == ran # <<>> \/ \E t \in Threads : pc[t] = "exit"

\* atexit, from main or from a hook; past the table's end it overwrites memory.
Register_OnePast(hook) ==       \* mutant: the table ends one entry later
    IF Len(hooks) > HooksCap THEN Overrun
    ELSE /\ hooks' = Append(hooks, hook)
         /\ late' = IF Exiting THEN late + 1 ELSE late
         /\ UNCHANGED <<fate, objects, pc, loc, holder, output, input, ran, child>>

Register(hook) ==
    IF Len(hooks) = HooksCap THEN Overrun
    ELSE /\ hooks' = Append(hooks, hook)
         /\ late' = IF Exiting THEN late + 1 ELSE late
         /\ UNCHANGED <<fate, objects, pc, loc, holder, output, input, ran, child>>

Atexit(t) ==
    /\ Idle(t) /\ Calls < MaxCalls
    /\ \E hook \in {"user", "adder"} : Register(hook)

\* One thread calls exit, while the others go on.
Exit(t) ==
    /\ Idle(t) /\ ~Exiting
    /\ Goto(t, "exit")
    /\ UNCHANGED <<fate, objects, loc, holder, output, input, exiting, child>>

\* The loop of exit: i has counted the calls, and the table may have grown.
NextHook_Forward == Len(ran) + 1        \* mutant: in the order of registration

NextHook == Len(hooks) - Len(ran)

RunHook(t) ==
    /\ At(t, "exit") /\ Len(ran) < Len(hooks)
    /\ ran' = Append(ran, NextHook)
    /\ Goto(t, IF hooks[NextHook] = "cleanup" THEN "closein" ELSE "exit")
    /\ UNCHANGED <<fate, objects, loc, holder, output, input, hooks, late, child>>

HookRegisters(t) ==
    /\ At(t, "exit") /\ ran # <<>> /\ hooks[ran[Len(ran)]] = "adder"
    /\ NextHook = ran[Len(ran)] - 1       \* bound: one in each of its calls
    /\ Calls < MaxCalls
    /\ Register("user")

\* perror of a thread that goes on at back: its message goes to stderr.
Perror(t, back) ==
    /\ Goto(t, "flush")
    /\ loc' = [loc EXCEPT ![t] = [Nothing EXCEPT !.op = "err", !.back = back, !.mark = Pending]]

\* ministd_io_cleanup takes no lock.  An error of closing stdin is reported.
CloseStdin(t) ==
    /\ At(t, "closein")
    /\ IF ~Inside("in") THEN Stray
       ELSE /\ Become(Free(LfClose(Objects, "in", TRUE), {"lf"}, "in"))
            /\ \/ Goto(t, "closeout") /\ UNCHANGED loc
               \/ Perror(t, "closeout")
            /\ UNCHANGED <<fate, boot, top, surprise, holder, output, input, exiting, child>>

\* lf_close of stdout frees the lock and goes on to bf_close's flush.
CloseStdout(t) ==
    /\ At(t, "closeout")
    /\ IF ~Inside("out") THEN Stray
       ELSE /\ Become(Free(Objects, {"lock"}, "out"))
            /\ Call(t, "flushing", [Nothing EXCEPT !.op = "close"])
            /\ UNCHANGED <<fate, boot, top, surprise, holder, output, input, exiting, child>>

\* After the flush.  An error of it, or of closing the descriptor, goes to
\* perror, and so to stdout's freed lock.
StdoutClosed(t) ==
    /\ fate = "runs" /\ pc[t] \in {"done", "stopped", "failed"} /\ loc[t].op = "close"
    /\ \/ Stray
       \/ /\ pc[t] # "failed"
          /\ Become(Free(Release(Objects, "out", TRUE), {"lf"}, "out"))
          /\ stalled' = (stalled \/ pc[t] = "stopped")
          /\ Goto(t, "exit") /\ loc' = [loc EXCEPT ![t] = Nothing]
          /\ UNCHANGED <<fate, boot, top, surprise, holder, n, kept, outbuf, outpos, screen, input, exiting, child>>

ExitGroup(t) ==
    /\ At(t, "exit") /\ Len(ran) >= Len(hooks)
    /\ fate' = "exited"
    /\ UNCHANGED <<objects, pc, loc, holder, output, input, exiting, child>>

\* thread_exit and panic end one thread, and the process with the last.
ThreadEnds(t) ==
    /\ Idle(t)
    /\ Goto(t, "dead")
    /\ fate' = IF \A u \in Threads \ {t} : pc[u] = "dead" THEN "dies" ELSE fate
    /\ UNCHANGED <<objects, loc, holder, output, input, exiting, child>>

-----------------------------------------------------------------------------
\* clone_process: the child has a copy of stdout and of the exit hooks, which
\* its exit runs.
Clone(t) ==
    /\ Idle(t) /\ child = None /\ Calls < MaxCalls /\ <<"bf", "out">> \in live
    /\ Pending # {}       \* bound: otherwise there is nothing to copy
    /\ child' = [pending |-> Waiting, done |-> FALSE]
    /\ UNCHANGED <<fate, objects, pc, loc, holder, output, input, exiting>>

ChildExits ==
    /\ child # None /\ ~child.done /\ fate # "strays"
    /\ \E k \in 0 .. Len(child.pending) : screen' = screen \o SubSeq(child.pending, 1, k)
    /\ child' = [child EXCEPT !.done = TRUE]
    /\ UNCHANGED <<fate, objects, pc, loc, holder, n, kept, outbuf, outpos, stalled, input, exiting>>

Step(t) ==
    \/ PutOut(t) \/ Enter(t, "out", "print", "printing") \/ Printing(t)
    \/ Report(t) \/ Enter(t, "out", "flush", "flushing") \/ Flushing(t) \/ LeaveOut(t)
    \/ Enter(t, "err", "err", "reporting") \/ Reporting(t)
    \/ Read(t, "read") \/ Read(t, "peek") \/ UsePushBack(t)
    \/ Enter(t, "in", "in", "reading") \/ Reading(t)
    \/ Atexit(t) \/ Exit(t) \/ RunHook(t) \/ HookRegisters(t)
    \/ CloseStdin(t) \/ CloseStdout(t) \/ StdoutClosed(t) \/ ExitGroup(t)
    \/ ThreadEnds(t) \/ Clone(t)

Next ==
    \/ IoInit \/ Main
    \/ MakeFile \/ CloseFile
    \/ \E t \in Threads : Step(t)
    \/ ChildExits
    \/ (fate \in {"exited", "dies", "overruns", "strays"} \/ surprise # "none") /\ UNCHANGED vars

Spec == Init /\ [][Next]_vars

-----------------------------------------------------------------------------
Messages == 1 .. MaxPrints

TypeOK ==
    /\ fate \in {"boot", "files", "runs", "exited", "dies", "overruns", "strays"}
    /\ surprise \in {"none", "open", "bf", "lock", "flush"}
    /\ live \subseteq {"raw", "rbuf", "wbuf", "bf", "lf", "lock"} \X {"in", "out", "err", "file"}
    /\ fds \subseteq {"in", "out", "err", "file"}
    /\ holder \in [{"in", "out", "err"} -> Threads \cup {None}]
    /\ n \in 0 .. MaxPrints /\ kept \subseteq Messages
    /\ outbuf \in Seq(Messages) /\ outpos \in Nat /\ screen \in Seq(Messages)
    /\ nextin \in 1 .. MaxIn + 1 /\ has \in BOOLEAN /\ ungot \in 0 .. MaxIn
    /\ got \in Seq(1 .. MaxIn)
    /\ Len(hooks) <= HooksCap

(***************************************************************************)
(* A message on stderr, and a read of stdin, come after everything that    *)
(* stdout had pending when the call began, whatever other threads print    *)
(* between the flush and the call's own lock, unless the flush failed or   *)
(* stalled, or exit's flush has met a thread inside stdout (Raced).        *)
(***************************************************************************)
TiedFirst ==
    Raced \/ \A t \in Threads : pc[t] \in {"err", "reporting", "in", "reading"} /\ loc[t].sure
                                 => loc[t].mark \cap Pending = {}

(***************************************************************************)
(* Descriptor 1 receives every message once, and what it has received is   *)
(* no longer waiting in stdout but while write_buf_pos is being moved over *)
(* it.  Only what was waiting at a clone is sent twice, by the process and *)
(* by its child.  Nothing is promised once exit's flush, which takes no    *)
(* lock, has met a thread inside stdout (Raced).                           *)
(***************************************************************************)
Inherited == IF child = None THEN {} ELSE {child.pending[i] : i \in DOMAIN child.pending}

SentOnce ==
    Raced \/ /\ \A i, j \in DOMAIN screen : screen[i] = screen[j] => i = j \/ screen[i] \in Inherited
             /\ \A i \in DOMAIN screen : screen[i] \in Pending =>
                   screen[i] \in Inherited \/ \E t \in Threads : pc[t] = "advance"

(***************************************************************************)
(* A process that reaches the end of exit has sent every message that      *)
(* stdout had taken, also those of threads that go on printing while it    *)
(* exits, unless the flush of exit stalled without an error, or met a      *)
(* thread inside stdout.                                                   *)
(***************************************************************************)
ExitSendsAll ==
    fate = "exited" => stalled \/ Raced \/ \A m \in kept : \E i \in DOMAIN screen : screen[i] = m

(***************************************************************************)
(* exit calls every hook once and in reverse order of registration.  When  *)
(* hooks are registered while it does, some are called again and not all   *)
(* of those are called, but every hook from before is, and the library's   *)
(* own is the last.                                                        *)
(***************************************************************************)
HooksInReverse ==
    /\ late = 0 => /\ \A i \in DOMAIN ran : ran[i] = Len(hooks) + 1 - i
                   /\ fate = "exited" => Len(ran) = Len(hooks)
    /\ fate = "exited" => /\ \A h \in 1 .. Len(hooks) - late : \E i \in DOMAIN ran : ran[i] = h
                          /\ hooks[ran[Len(ran)]] = "cleanup"

(***************************************************************************)
(* What the client of a file of its own holds is what there is: no failing *)
(* constructor or close leaks an object or a descriptor, or frees what the *)
(* client still holds, but for four failures.  open without memory leaves  *)
(* the descriptor open, a BufferedFile or a lock that cannot be had takes  *)
(* everything away, and a flush that fails in close leaves the raw file,   *)
(* the buffers and the descriptor to nobody.                               *)
(***************************************************************************)
ClientOwnsFile ==
    fate = "files" =>
        /\ {o \in live : o[2] = "file"} =
             CASE surprise = "none" -> Owned(top, "file")
               [] surprise = "flush" -> {<<"raw", "file">>, <<"rbuf", "file">>, <<"wbuf", "file">>}
               [] OTHER -> {}
        /\ "file" \in fds <=> surprise \in {"open", "flush"} \/ (surprise = "none" /\ top # "none")

(***************************************************************************)
(* The process strays only when memory runs out while it starts, from a    *)
(* file that a failing constructor freed under its client, and through a   *)
(* stdin or stdout whose lock is not there: it could not be had, or exit   *)
(* has freed it under the threads that go on.                              *)
(***************************************************************************)
StraysOnlyIf ==
    [][fate # "strays" /\ fate' = "strays" =>
         \/ fate = "boot" \/ surprise \in {"bf", "lock"}
         \/ <<"lock", "out">> \notin live \/ <<"lock", "in">> \notin live]_vars

(***************************************************************************)
(* Threads that read and peek at stdin consume its bytes once each and in  *)
(* order: a LockedFile is safe for concurrent access (features.md:1546).   *)
(***************************************************************************)
BytesOnce == \A i, j \in DOMAIN got : i # j => got[i] # got[j]
=============================================================================
