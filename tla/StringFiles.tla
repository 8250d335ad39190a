----------------------------- MODULE StringFiles -----------------------------
(***************************************************************************)
(* A view into the string and a FILE over the string or the view, beside a *)
(* string that clients keep changing (ministd_string.c).  A StringFile and *)
(* a StringReadFile read the string from a position of their own up to its *)
(* capacity; a StringViewFile reads the view up to its length.             *)
(***************************************************************************)
EXTENDS Strings

CONSTANT Lost           \* the text of a string whose memory is gone

Views == [buf : Nat, off : Nat, len : Nat]
Files == [kind : {"rw", "ro", "view"}, pos : Nat, seen : Seq(Bytes), follows : BOOLEAN]

ASSUME ObjectsAssumption == None \notin Views \cup Files \cup Seq(Bytes) /\ Lost \notin {None} \cup Seq(Bytes)

VARIABLES
    view,       \* the StringView: len bytes at off of the block at buf
    file        \* the FILE: its kind and read_pos, and whether all it has
                \* read since it was opened (seen) is still the text

vars == <<svars, view, file>>

FInit == Init /\ view = None /\ file = None

Text == IF str = None THEN None
        ELSE IF lost THEN Lost ELSE At(heap, str.buf, 0, str.len)

There(x) == IF x = None THEN 0 ELSE 1

-----------------------------------------------------------------------------
\* An object is freed only when nothing refers to it.  The text read so far
\* stays read only as long as the text is only appended to.
CallString ==
    /\ StringCall
    /\ str # None /\ str' = None => view = None /\ file = None
    /\ file' = IF file = None \/ (~lost' /\ str'.len >= str.len /\ At(heap', str'.buf, 0, str.len) = Text)
               THEN file ELSE [file EXCEPT !.follows = FALSE, !.seen = <<>>]
    /\ UNCHANGED view

\* The changes of a view and of a file, which leave the string alone.
Keep == UNCHANGED <<heap, str, copy, lost>>

\* Room, in the model, for an object that there is memory for.
Room == objects + There(copy) < MaxObjects

\* sv_new, sv_from_cstring, sv_from_string: behind the first i bytes.
SvFromString(i) ==
    /\ str # None /\ view = None /\ Room
    /\ i <= str.len
    /\ view' = [buf |-> str.buf, off |-> i, len |-> str.len - i]
    /\ objects' = objects + 1
    /\ Keep /\ UNCHANGED <<file, fate>>

\* sv_move to the start of the buffer, sv_set_len, sv_grow and sv_shrink
SvChange ==
    /\ view # None /\ str # None
    /\ \/ view' = [view EXCEPT !.buf = str.buf, !.off = 0]
       \/ \E n \in 0 .. MaxCap : view' = [view EXCEPT !.len = n]
    /\ Keep /\ UNCHANGED <<file, objects, fate>>

SvFree ==
    /\ view # None /\ file = None
    /\ view' = None /\ objects' = objects - 1
    /\ Keep /\ UNCHANGED <<file, fate>>

\* sv_cstr and sv_string; sv_to_cstr and sv_to_string free the view, also
\* when they fail.
SvCopy ==
    /\ view # None
    /\ \/ \E z \in {0, 1} : Duplicate(view.buf, view.off, view.len, z, 0) /\ UNCHANGED view
       \/ \E z \in {0, 1} : file = None /\ Duplicate(view.buf, view.off, view.len, z, -1) /\ view' = None
    /\ UNCHANGED file

\* s_fprint and sv_fprint read the bytes and give them to a FILE, until it has
\* taken them all, or takes none or fails.
Fprint(o, off) ==
    /\ IF ~Mapped(heap, o.buf, off, o.len)
       THEN Stray
       ELSE UNCHANGED svars
    /\ UNCHANGED <<view, file>>

SFprint == str # None /\ Fprint(str, 0)

SvFprint == view # None /\ Fprint(view, view.off)

-----------------------------------------------------------------------------
NewFile(kind, follows) ==
    /\ file = None /\ Room
    /\ file' = [kind |-> kind, pos |-> 0, seen |-> <<>>, follows |-> follows]
    /\ objects' = objects + 1
    /\ Keep /\ UNCHANGED <<view, fate>>

\* sf_open, sf_open_readonly
SfOpen == str # None /\ \E kind \in {"rw", "ro"} : NewFile(kind, ~lost)

SvfOpen == view # None /\ NewFile("view", FALSE)

\* close does nothing, and then the client frees the FILE.
Close ==
    /\ file # None
    /\ file' = None /\ objects' = objects - 1
    /\ Keep /\ UNCHANGED <<view, fate>>

\* limit - read_pos in unsigned arithmetic: past the limit, more than is asked.
Readable(limit, want) == IF file.pos > limit THEN want ELSE Shorter(limit - file.pos, want)

Limit == IF file.kind = "view" THEN view.len ELSE str.cap

\* n bytes from offset off of the block at a, as srf_read and svf_read take them
ReadN_Stays(a, off, n) ==       \* mutant: read_pos does not advance
    /\ file' = [file EXCEPT !.seen = IF file.follows THEN @ \o At(heap, a, off, n) ELSE @]
    /\ UNCHANGED svars

ReadN(a, off, n) ==
    /\ file' = LET f == file.follows /\ file.pos + n <= str.len IN
               [file EXCEPT !.pos = @ + n, !.follows = f, !.seen = IF f THEN @ \o At(heap, a, off, n) ELSE <<>>]
    /\ UNCHANGED svars

ReadFrom(a, off, n) ==
    /\ IF Mapped(heap, a, off, n) THEN ReadN(a, off, n) ELSE Stray /\ UNCHANGED file
    /\ UNCHANGED view

SrfRead(want) == file # None /\ file.kind # "view" /\ ReadFrom(str.buf, file.pos, Readable(Limit, want))

SvfRead(want) ==
    file # None /\ file.kind = "view" /\ ReadFrom(view.buf, view.off + file.pos, Readable(Limit, want))

\* sf_write appends; the other two refuse.
Write(d) ==
    /\ file # None
    /\ IF file.kind = "rw" THEN SAppend(d)
       ELSE UNCHANGED svars
    /\ file' = IF lost' THEN [file EXCEPT !.follows = FALSE, !.seen = <<>>] ELSE file
    /\ UNCHANGED view

FileCall ==
    \/ \E i \in 0 .. MaxCap : SvFromString(i)
    \/ SvChange \/ SvFree \/ SvCopy
    \/ SFprint \/ SvFprint
    \/ SfOpen \/ SvfOpen
    \/ Close
    \/ \E want \in 1 .. MaxCap : SrfRead(want) \/ SvfRead(want)
    \/ \E d \in Texts : Write(d)

Next ==
    \/ fate = "runs" /\ (CallString \/ FileCall)
    \/ fate # "runs" /\ UNCHANGED vars

Spec == FInit /\ [][Next]_vars

-----------------------------------------------------------------------------
TypeOK ==
    /\ heap \in [Addrs -> Seq(Bytes)]
    /\ str = None \/ (str \in [buf : Addrs \cup {Null}, len : Nat, cap : Nat] /\ str.len <= str.cap)
    /\ copy \in Addrs \cup {Null, None}
    /\ objects \in Nat /\ lost \in BOOLEAN
    /\ fate \in {"runs", "strays", "hangs"}
    /\ view = None \/ (view \in Views /\ view.buf \in Addrs \cup {Null})
    /\ file = None \/ file \in Files

(***************************************************************************)
(* The string's buffer is a mapped block of at least its capacity, also    *)
(* after growths that failed half way, reserves below and above what the   *)
(* block's header says, and conversions; only a capacity of 0 and a failed *)
(* growth leave it without one.                                            *)
(***************************************************************************)
BufferHoldsCap ==
    str # None => \/ str.buf \in Addrs /\ heap[str.buf] # <<>> /\ str.cap <= Len(heap[str.buf])
                  \/ str.buf = Null /\ (str.cap = 0 \/ lost)

(***************************************************************************)
(* Every mapped block belongs to the string or to the copy, and not to     *)
(* both, and every object to a client's variable: no failing path leaks a  *)
(* block or an object, or gives one back twice.                            *)
(***************************************************************************)
NothingLeaks ==
    /\ {a \in Addrs : heap[a] # <<>>} =
         ((IF str = None THEN {} ELSE {str.buf}) \cup {copy}) \ {Null, None}
    /\ str # None /\ copy # None => str.buf # copy \/ copy = Null
    /\ objects = There(str) + There(view) + There(file)

(***************************************************************************)
(* Calls stay inside mapped memory, and end, but in five cases: after a    *)
(* growth that failed, at capacity 0, when a string that has to grow is    *)
(* appended to itself, through a view that is longer than its text or      *)
(* whose buffer has gone, and when what a file reads has become shorter    *)
(* than the file's position.                                               *)
(***************************************************************************)
ViewIsStale == view # None /\ ~Mapped(heap, view.buf, view.off, view.len)
FileIsPast == file # None /\ file.pos > Limit
SelfGrows == str # None /\ 2 * str.len > str.cap

StraysOnlyIf ==
    [][fate' # fate => \/ lost \/ (str # None /\ str.cap = 0)
                       \/ SelfGrows /\ fate' = "strays" /\ file' = file /\ view' = view /\ SAppendSelf
                       \/ ViewIsStale \/ FileIsPast]_vars

(***************************************************************************)
(* What a StringFile or StringReadFile has read since it was opened is the *)
(* text's beginning, whatever was appended and however often the buffer    *)
(* moved between the reads, until the text it has read is changed or it    *)
(* reads past the length, into the capacity, as srf_read lets it.          *)
(***************************************************************************)
SeenIsText ==
    file # None /\ file.follows => /\ file.pos <= str.len
                                   /\ file.seen = At(heap, str.buf, 0, file.pos)

TB == INSTANCE TextBuffer WITH text <- Text, Data <- Texts \cup {<<c>> : c \in Chars} \cup {<<>>}, Absent <- None

(***************************************************************************)
(* The String implements the text that is appended to, cut, changed or     *)
(* lost as a whole: reallocation, failing allocations and the files do not *)
(* change what it says.                                                    *)
(***************************************************************************)
ImplementsTextBuffer == TB!TBSpec
=============================================================================
