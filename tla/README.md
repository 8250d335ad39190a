# A TLA+ model of ministdlib

ministdlib is a small standard library for C on x86-64 Linux that does not use
libc: files and buffering, an allocator on `mmap` (and one on `brk`), strings,
formatted input and output, atomics, a spinning mutex, `clone`, polling, time,
terminal control. This directory holds TLA+ specifications of its stateful
parts, the TLC configurations that check them and proofs that TLAPS checks.

Paths below are relative to the repository; line numbers are those of the commit
the modules were written from. `PROJECT.json` maps every definition to its
lines.

## 1. Inventory

| Component | State | Operations | Talks to | Hard part |
|---|---|---|---|---|
| mutex (`src/ministd_threads.c`) | one atomic int | `mutex_new`, `mutex_try_lock`, `mutex_lock`, `mutex_unlock` | atomics | the gap between the exchange and the look at its result |
| atomics (`src/ministd_atomic.c`) | one cell each | load, store, swap, fetch-and-op, compare-exchange | - | stores that arrive late, retry loops against other writers |
| `FILE` (`src/ministd_io.c`) | function table, one byte of push-back | `read`, `write`, `close`, `run_op`, `ungetc`, `peekc`, `fgets`, ... | the implementations below | push-back in front of buffers |
| raw files | a descriptor | `fd_open`, `fd_read`, `fd_write`, `fd_close` | kernel | short transfers, errors |
| `BufferedFile` | two buffers with positions | `bf_read`, `bf_write`, `bf_flush`, `bf_close`, `bf_misc` | a raw file | flushes that stop half way, bypass of the buffer |
| `LockedFile` | a mutex around a file | `lf_read`, `lf_write`, `lf_close`, `lf_misc` | mutex, a file | push-back outside the lock, close without it |
| standard streams | three `LockedFile`s | `_ministd_io_init`, `stdin_read`, `stderr_write`, cleanup | exit hooks, all of the above | ties between streams, order of construction and cleanup |
| process (`src/ministd.c`) | table of 64 exit hooks | `_start`, `atexit`, `exit`, `thread_exit`, `panic` | hooks | hooks that register hooks, a full table |
| allocators (`src/ministd_memory.c`) | block headers; the list of the `brk` heap | `alloc`, `realloc`, `free`, their n- and a-variants | kernel | failures half way, sizes that wrap, the break |
| `String` (`src/ministd_string.c`) | buffer, length, capacity | reserve, grow, push, append, scan | allocator, `FILE` | growth that fails, capacity 0 |
| string files and views | a position in a string | read, write | `String` | the string changes under the position |
| fmt (`src/ministd_fmt.c`) | none | print and scan numbers | `FILE` | overflow |
| clone (`src/ministd_sched.c`) | none | `clone` | kernel, `thread_exit`, `exit` | buffers shared or copied with the new task |
| poll, time, term, error, syscall | a growing array (poll) | | kernel | growth, retries |

What makes each correct: the mutex excludes and is not left taken; an atomic
operation takes effect at once; a file passes every byte on once and in order
and its return values say what happened; a locked file behaves as if one thread
used it; a stream exists before it is used and is not used after it is closed;
hooks run once, last first; live blocks do not overlap and are given back; a
string's length stays within a capacity that its buffer has; a number that does
not fit is reported.

Behaviour that is hard to test and that the models are aimed at: threads that
interleave between single accesses, raw reads and writes that are short, take
nothing or fail at any step, error paths that leave objects half changed, and
long sequences of calls against buffers of a few bytes. The list of hazards in
`PROJECT.json` has each at its line.

## 2. Modules

| Module | What it is |
|---|---|
| `AbstractLock` | what a mutex promises: a set of owners, empty or one thread |
| `SpinLock` | `ministd_threads.c`: the mutex, one action per exchange and per test of its result |
| `SpinLockProofs` | its theorems |
| `SeqMemory` | what the atomics promise: a sequentially consistent memory |
| `Atomics` | `ministd_atomic.c` on the store buffers of x86-64, its fetch loops instruction by instruction |
| `AtomicsProofs` | its theorems |
| `MutexTest` | the library's own test of the mutex, a client of `SpinLock` |
| `OutStream` | what a buffering layer over an output promises |
| `BufferedWriter` | the write half of `BufferedFile` |
| `BufferedWriterProofs` | its theorems |
| `InStream` | an ordered input with push-back |
| `BufferedReader` | the read half of `BufferedFile` and the byte of push-back |
| `BufferedReaderProofs` | its theorems |
| `TextInput` | words, lines and numbers through a `FILE` (`ministd_io.c`, `ministd_fmt.c`, `s_fscan_into`) |
| `StdHeap` | the std allocator: what `alloc`, `realloc` and `free` may leave and return |
| `Strings` | `String` over that allocator |
| `TextBuffer` | what a `String` promises: a text that is appended to, cut, changed or lost |
| `StringFiles` | views and string files beside a string that changes; extends `Strings` |
| `SbrkHeap` | the sbrk allocator and the multiplying wrappers, in w bits |
| `FileObjects` | what constructors and `close` of files allocate and free |
| `Stdio` | the process: standard streams, threads, locks, exit, clone; extends `FileObjects` |
| `StringFilesProofs` | the theorems about `Strings` and `StringFiles` |
| `SbrkHeapProofs` | the theorems about `SbrkHeap` |
| `StdioProofs` | the theorems about `Stdio` and `FileObjects` |
| `TextInputProofs` | the theorems about `TextInput` |
| `MC*` | the instances that TLC checks |

A definition whose name has an underscore and a comment starting with "mutant"
is the definition after it, broken in the way a plausible bug would break it.
Specifications do not use these; `PROJECT.json` says which property each must
violate.

### SpinLock

`lock` is the atomic int. A call puts a thread at `swap`; `Swap` is the `xchg`
instruction of `atomic_swap_i` and puts the old value in `got`; `Acquired` and
`Refused` are the comparison with 0 in `mutex_try_lock`, whose result
`mutex_lock` loops on and a bare `mutex_try_lock` returns. `xchg` is a full
barrier on x86, so interleaving single accesses is exact. A thread unlocks only
a mutex it holds: the library does not check this, so it is a condition on
clients.

The mutex implements `AbstractLock` with `owners` mapped to the threads that are
inside *or whose exchange returned 0*. The second half is the point: ownership
begins at the exchange, before the owner has looked at the result.

### Atomics

Every operation of `ministd_atomic.c` is an optional `mfence` (`MO_STRICT`),
then its instructions. What an instruction means is x86-64's: a `mov` to memory
goes into the thread's store buffer (`AtomicStore`) and reaches memory later
(`Drain`); a `mov` from memory sees the thread's own latest store under way, or
memory (`Reads`); `mfence` and locked instructions wait until the buffer is
empty (`Flushed`). `Drain`, `Reads` and `Flushed` model the processor, not the
library. `xchg`, `lock xadd` and `lock cmpxchg` are one action, `Locked`. The
five fetch loops are `LoopLoad`, then `Exchange` when the `cmpxchg` finds the
value that was loaded, else `Refused`, which leaves what it found in `old` and
tries again; the `mfence` inside the loop waits for a buffer that is already
empty or that the `cmpxchg` waits for anyway. What `or`, `xor`, `and`, `min`,
`max`, `add` and `sub` compute is the constant `Combine`, bits and wrap-around
included.

`SeqMemory` has every operation take effect at once, in each thread's order. The
mapping counts a store when it reaches memory, although its call returned before
(`Arrived`). It takes strict loads: a relaxed load may overtake the stores
before it.

### MutexTest

`TEST_FN(mutex)` as written: the helpers hold the mutex around `++num_executed`
(a load and a store, since the counter is volatile and not atomic) and the
assignment to `has_executed`; the main thread polls the counter and then reads
the flags, both without the mutex.

### BufferedWriter

The bytes between `write_buf_pos` and `write_buf_end` are `pend`, and `wpos` is
`write_buf_pos - write_buf`. A raw write is one action with the outcomes the
kernel has: some bytes (`FlushSome`, `DirectSome`), none (`FlushStalls`), an
error (`FlushFails`, `DirectFails`). `bf_flush` is called from four places
(making room, after a newline, `FO_FLUSH`, `bf_close`); `pc` says from which,
because each treats an error and a stall differently. `sent`, `taken`, `before`
and `stalled` are history.

Abstracted: the addresses (only differences of pointers matter), and bytes,
which are model values with one that is the newline. Outside the buffer, one
byte is modelled: `write_buf_end[-1]` when nothing is in the buffer, which may
or may not be a newline (`SeesNewline`).

### BufferedReader

`rbuf` is what lies between `read_buf_pos` and `read_buf_end`, `src` what the
raw file still has, `ungot` the byte of push-back (none or one). A `read` is
`TakeUngot` when there is a pushed-back byte, then the recursive call:
`FromBuffer`, or `Fill` and then `FromBuffer`, or `Direct` for a request larger
than the buffer, or `Dry` (nothing, no error), or `ReadFails`. `peekc` is a
`read` of one byte into a local and `ungetc`. A client gives `ungetc` the byte
it consumed last, as every caller in the library does; an arbitrary byte would
make "the input" meaningless.

`Dry` may happen although `src` is not empty: a terminal or a pipe can report
nothing and have more later.

### StdHeap, Strings, StringFiles

`StdHeap` has no variables: a call of the allocator is the set of its outcomes
(the heap after it, the pointer, the error), and `Strings` picks one. A block
has its contents, because realloc must copy them. A `String` is `[buf, len,
cap]`; `s_reserve` is `Reserved`, with the outcome that the code has when
realloc fails: the old block freed, `buf` NULL, `len` and `cap` as before.
Clients go on after an error, as the interface lets them: the first access
outside of mapped memory ends the behaviour (`fate = "strays"`), and so does a
loop that never ends (`"hangs"`).

`StringFiles` adds one view and one file. Views hold a pointer into the buffer,
which goes stale; files hold a pointer to the string and a position.
`TextBuffer` is the abstract text; `ImplementsTextBuffer` maps the string's
first `len` bytes to it.

### SbrkHeap

Blocks are records in the order of the list, which is the order of their
addresses. Sizes and addresses have `W` bits and wrap. `Sbrk` has what the
kernel's `brk` does with a break that is too high: it answers with the old one,
which the code takes for the new. `forgotten` and `lost` are history: the blocks
that `realloc` and `free` can leak.

### FileObjects, Stdio

`FileObjects` says of every constructor and of `close` what it leaves allocated
and open in each of its outcomes, and which outcomes are failures that do not
leave the caller with what it had: the cause is given at the branch that fails,
not read off from the result. `Stdio` uses it three times: for
`_ministd_io_init` (one action per constructor), for a client that wraps a file
of its own (`fate = "files"`; `surprise` is the cause of such a failure), and
for the cleanup at exit.

In `fate = "runs"` threads print, report errors and read. A mutex is its owner,
which is what `SpinLock` is proved to be. The `BufferedFile` inside stdout is
the messages from `write_buf` to `write_buf_end` (`outbuf`) and how many of them
`write_buf_pos` has passed (`outpos`). The loop of `bf_flush` is taken step by
step: a raw write that takes some messages (`SendSome`), the load and the store
of `write_buf_pos` (`Reload`, `Advance`), the end of the loop (`AllSent`) and
the reset (`Reset`). Under the mutex nobody could tell. At exit one can:
`ministd_io_cleanup` frees stdout's lock (`CloseStdout`) and goes through the
same loop without it, beside whoever is inside; what follows the flush is
`StdoutClosed`. `bf_write` is `Store`, or `NoRoom`, a flush and `Refill`.
stdin's byte of push-back is used one access at a time, outside the lock, as in
`read`, `peekc` and `ungetc`.

`exit` calls the hooks in its loop over a table that hooks may lengthen; one
hook too many ends the behaviour (`Overrun`), and so does the use of a freed or
missing object (`Stray`). A cloned process has a copy of what is pending in
stdout, which its own exit sends. Messages and bytes have an identity, so that
loss and duplication show in `kept`, `screen` and `got`.

### TextInput

A step is one `read` or `write` and what follows it up to the next. `at` is the
place in the running call, `call` its local variables with, as history, the
stream before it. The chunks of `fscans` and `s_fscan_into` are one mechanism:
`fgets` fills `room` bytes behind `held`. Bytes are numbers, because the code
compares them: `Seen` is the conversion to a signed `char` in the scanners.
Signed overflow is undefined in C, and the release build may drop the check, so
`Number` has both outcomes. Integers are those below `Half` and not below
`-Half`, or below twice that if unsigned: 2^31 or 2^63 in the code. The
properties compare with definitions that do not read byte by byte (`FirstWord`,
`Value`).

## 3. Runs

| Run | Checks | Bounds |
|---|---|---|
| `spin_lock` | `TypeOK`, `MutualExclusion`, `CellTellsOwned`, `ImplementsLock`, `SomeoneGetsIn` | 3 threads |
| `atomics` | `TypeOK`, `PendingAreLast`, `ImplementsSeqMemory`, `CallsReturn` | 2 threads, 2 cells of 2 bits, 2 calls per thread out of 8 |
| `store_load` (violation) | `StrictPreventsReordering` | 2 threads, 2 calls each: strict stores, relaxed loads |
| `mutex_test` (violation) | `AssertionHolds` | 2 helpers |
| `buffered_writer` | `TypeOK`, `NothingLost`, `InBuffer`, `EmptyIsRewound`, `WriteTellsTaken`, `QuietMeansSent`, `ImplementsOutStream`, `CallsReturn` | buffer of 3, writes of 0 to 4 bytes, 6 bytes in all, one error |
| `write_count` (violation) | `WriteReturnsBytesWritten` | as above |
| `buffered_reader` | `TypeOK`, `NothingLost`, `EmptyMeansDry`, `PeekedComesNext`, `ImplementsInStream` | input of 5 distinct bytes, buffer of 2, requests of 0 to 4 |
| `strings` | `TypeOK`, `BufferHoldsCap`, `NothingLeaks`, `SeenIsText`, `StraysOnlyIf`, `ImplementsTextBuffer` | 2 blocks, capacities to 3, 2 byte values (one NUL), 3 objects |
| `sbrk_heap` | `BuffersDisjoint`, `NothingElseLeaks` | 5 bits, a heap of 12 bytes, 16 requests |
| `stdio` | `TypeOK`, `TiedFirst`, `SentOnce`, `ExitSendsAll`, `HooksInReverse`, `ClientOwnsFile`, `StraysOnlyIf` | 2 threads (one prints, one reads, both do the rest), 2 messages, 1 byte of input, a table of 3 hooks, one clone |
| `locked_peek` (violation) | `BytesOnce` | 2 readers |
| `text_input` | `TextIntact`, `NumbersExact`, `CallsReturn` | 4 bits, inputs of up to 3 bytes of 7 kinds and some longer, buffers of 0 to 3, every number printed in 3 bases |

Why the bounds are enough. Three threads give an owner, one that has exchanged
and not looked, and one that overtakes either. Two calls of two threads on two
cells are the store-buffering pattern, and a fetch loop that loses its cell
between the load and the exchange; the eight calls have each kind of
instruction, strict and relaxed, and an addition that wraps. The writer's buffer
of three with writes of up to four bytes has every branch of `bf_write`, and six
bytes are two fills of the buffer, so that a write after a flush that stopped
half way meets `write_buf_pos` in the middle. The reader's input is two and a
half buffers, so every read can start with the buffer empty, partly read or
full, with or without push-back. Two blocks are the least with which a buffer
moves, and with the copy in one the growth of the other fails; a capacity of
three is reached from zero, one and two by every rule of growth. The sbrk heap
holds six blocks of a byte, and its requests wrap in the product (3 times 13)
and when the header is added (31). Two threads are enough for a lock, for the
gap between flush and lock, and for a thread caught by another's exit; a table
of three hooks has the library's, one that registers another at exit and that
other, and is then full; two messages are one that is pending and one that is on
its way. Buffers of up to three bytes have each boundary of `fgets`, words of
five fill `fscans` twice, and of two-digit numbers in four bits some fit, some
wrap below and some wrap above the previous value. The safety properties that
are proved (section 4) hold for every bound. The bounds in guards are `MaxBytes`
(of `bf_write`), `MaxCalls` (of `Call` in `Atomics`), `MaxCap` and `MaxObjects`
(strings), `MaxPrints`, `MaxCalls` (messages, hooks and the clone together),
`Len(got) < MaxIn` (reads end when stdin has given all), one clone, of a stdout
with something pending, and one hook registered by each call of a hook
(`Stdio`), and `MaxLeft` (what is unread when more is written, `TextInput`).

What they show:

- `spin_lock`: the mutex excludes, is taken exactly while it is owned,
  implements the abstract lock, and while somebody spins somebody gets in. That
  *every* spinning thread gets in is not claimed: a thread can lose each race.
- `atomics`: with strict loads, relaxed and strict stores and fetch operations
  are sequentially consistent together, a fetch loop is one operation that
  returns the value it replaced, and it retries only because another thread got
  through.
- `store_load`: strict is not enough for a store. `features.md` says that
  `MO_STRICT` "prevents all memory reorderings across the operation"; the fence
  is before the store only, so two threads can each store strictly, load the
  other's cell relaxed, and both miss the other's store. The library itself
  pairs strict with strict.
- `mutex_test`: the test can fail although the mutex is correct. The count is
  raised before the flag is set, and the reader does not take the mutex.
- `buffered_writer`: bytes are delivered in order and once; the buffer is not
  overrun and its room is not lost; an error from `bf_write` means that nothing
  was taken; a silent flush means that everything left, unless the raw file took
  nothing when asked (`bf_flush` returns without an error then, and `bf_close`
  frees what is left).
- `write_count`: the exception that `WriteTellsTaken` allows is real. When the
  flush after a newline does not finish, `bf_write` returns 0, without an error,
  for bytes that it keeps and sends later. `features.md` says `write` returns
  "the number of bytes written"; a caller who believes it writes them twice.
- `buffered_reader`: no byte is skipped, repeated or swapped by peeks,
  push-backs, refills, bypasses and errors; a peeked byte is the next one read;
  an empty answer without an error means that the raw file gave nothing in that
  call, or that nothing was asked for.
- `strings`: a string has a buffer of its capacity, blocks and objects are owned
  once, a file that follows its string reads it in order, and the string
  implements a text. Accesses leave mapped memory in five cases, which
  `StraysOnlyIf` names: after a growth that failed (the next push writes through
  NULL), at capacity 0 (a push writes at once, and `s_append` doubles 0 for
  ever, although `features.md` says that it "automatically grows the `String` if
  needed"), when a string that must grow is appended to itself, through a view
  that has gone stale, and when what a file reads has become shorter than its
  position. A `StringReadFile` also reads past the length, up to the capacity,
  which `features.md` (line 1060) excludes: `SeenIsText` ends there.
- `sbrk_heap`: buffers are large enough and disjoint, until `brk` refuses a
  break, or the header wraps the request, and nobody notices (`astray`). After
  either nothing is said. Everything below the break is held, free for reuse, or
  leaked in one of three ways: a free of the last block unlinks it and cannot
  lower the break, a realloc to 0 bytes drops it, and `a_nrealloc` gives it to
  the wrong allocator.
- `stdio`: what stdout has pending when a thread begins to report on stderr or
  to read is sent before it does; every message is sent once, but for what was
  pending at a clone; a process that ends in `exit` has sent everything that
  stdout took; hooks run once and in reverse, and those registered during exit
  cost no other hook its call. All but the last end where exit's flush meets a
  thread that is inside stdout, which has the lock that exit freed (`Raced`).
  That exception is needed: without it TLC finds a message that is sent twice,
  because both have written it to the descriptor before either moves
  `write_buf_pos`, and one that is lost, because it was stored between the end
  of exit's loop and its reset, while the process still comes to `exit_group`.
  The comment in `lf_close` ("assume file will only be closed ONCE, no locking
  needed", ministd_io.c:660) does not think of them.

  `ClientOwnsFile` names four failures after which a client does not have what
  it had, and says what each leaves: `open` without memory for the object leaves
  the descriptor open; a `BufferedFile` or a lock that cannot be had takes the
  file and everything around it; a flush that fails in `close` leaves the raw
  file, its descriptor and the buffers to nobody. Any other failure leaves
  things as they were. `StraysOnlyIf` names memory that runs out during start, a
  file taken in that way, and a stdin or stdout whose lock could not be had or
  which exit has closed. A hook beyond the end of the table overwrites memory
  (`Overrun`); nothing is said after it. `panic` ends its thread only, unlike
  `features.md` (line 432) says.
- `locked_peek`: two readers can be given the same byte. `features.md` promises
  "concurrent access without data races" for a `LockedFile`; its push-back is
  outside the lock.
- `text_input`: nothing but what a call returns is taken from the stream. What
  else the code does is in the properties: a word that does not fit its first
  buffer comes back with a NUL where that buffer was full and the rest behind it
  (for `fscans` the C string ends there), where `features.md` (lines 1623 and
  1037) has whole words; `fgetline` returns true at the end of the file, where
  `features.md` (line 1499) says false; both are findings. A number that does
  not fit may come back as another one, because the check misses some wraps, but
  no number that fits is ever refused or changed; a byte 255 behind a number is
  lost; a minus without digits is consumed; an error in `fscans` loses the word.
  Numbers arrive as printed. Every call returns, but a scan onto a `String` of
  capacity 0.

Fairness. `spin_lock`: weak fairness of each thread's steps inside a call and of
its unlock; the kernel schedules runnable threads and critical sections end.
`atomics`: weak fairness of each thread's steps inside a call, and of the
arrival of its stores. That a fetch loop returns needs the other threads to stop
in its way, which `MaxCalls` makes them do; without that a thread can lose each
race. `buffered_writer`: weak fairness of the steps inside a call; raw writes
return. No fairness is assumed of how they return: `CallsReturn` holds when
every raw write is short, refused or fails. `text_input`: weak fairness of the
steps inside a call; the file answers. The other modules' calls are single
steps, or wait for locks whose liveness `spin_lock` checks. The reader has no
liveness property: it contains no loop over the raw file.

Deadlock checking is off where the modelled thing ends: a closed file, a
finished test, threads that have made their calls. Where a behaviour ends in
`strays`, `hangs`, `dies` or `exited` the module has a stuttering step for it
and deadlock is checked.

## 4. Proofs

All for every value of the constants, from the named assumptions (the `ASSUME`s
of the modules): the input and the data are sequences of bytes, capacities and
bounds are naturals, "no error" is not an error. `ObjectsAssumption`
(`StringFiles`) and `NoneAssumption` (`Strings`, `Stdio`) say that the value
that stands for "no string", "no view" or "no child" is none of those that are;
without them a specification could not tell the two apart.

`TypeOK` of each module is proved first (`TypeCorrect`, `StringTypeCorrect`,
`StdioTypeCorrect`). Beyond it:

- `SpinLockProofs`: `Exclusion`, `CellIsOwnership`, `MutexImplementsLock`.
  Mutual exclusion alone is not inductive: a thread that has exchanged and not
  looked would enter beside the owner. The invariant `IInv` says that there is
  at most one *owner* (including the one that does not know yet), and that the
  cell is 1 exactly when there is one; then an exchange that returns 0 meets no
  owner.
- `AtomicsProofs`: under `LoadsAreStrict`, `StoresPendLast` and
  `AtomicsAreSequential`, for any threads, cells, operations and orders of the
  other calls. The argument: a thread that comes to the `mov` of a strict load
  has an empty buffer (`LoadsAreFenced`), so nothing but stores returns while
  stores are under way (`PendingAreLast`), so the arrival of the oldest is the
  next call of its thread.
- `BufferedWriterProofs`: `Delivery`, `NoOverrun`, `Rewound`, `WriteReports`,
  `QuietFlush`, `WriterImplementsOutStream`. `IInv` adds to the delivery
  equation (`sent \o pend = taken`) the position of the buffer, and that a
  direct write starts with nothing pending (`DirectWhenEmpty`): without it the
  direct write could overtake. `WriteReports` needs `TakenInCall` besides: what
  `taken` is at each place inside a `bf_write`.
- `BufferedReaderProofs`: `Conservation`, `EmptyRead`, `PeekThenRead`,
  `ReaderImplementsInStream`. Every step either leaves what was consumed and
  what is ahead alone, or moves a prefix of the second to the end of the first,
  or puts the last byte consumed back. `InCall` is the strengthening: inside a
  call at most one byte has been delivered, from the push-back, which is then
  empty. For `PeekThenRead` a call under way begins with the byte peeked at.
- `SbrkHeapProofs`: `SbrkBuffers` (`BuffersDisjoint`) and `SbrkLeaks`
  (`NothingElseLeaks`), for every width of the word. Both follow from `Sound`:
  the list is in the order of the addresses with a header's room between any two
  blocks (`InOrder`), every buffer handed out is a block that is not free and
  large enough for it (`Owners`), and the blocks of the list with those lost
  make up all that lies below the break (`Accounted`). The order is what makes
  it inductive: the block that ends at the break is then the last of the list,
  so that the unlinking in `sbrk_free` takes out the right one. It holds until
  `astray`: `SbrkBuffers` says nothing of a heap after a request has wrapped
  round with its header or `brk` has refused a break, and no more can be said,
  for the code does not notice.
- `StringFilesProofs`: `StringBuffer`, `StringsDoNotLeak`, `FilesReadTheText`,
  `StringImplementsTextBuffer`, `StringsStray`. `StrInv` says of the heap that
  a block is mapped exactly when it is the string's buffer or the copy, which
  are not the same. That makes the moves of `std_realloc` harmless to what else
  is mapped, and what is freed nobody else's. `Following` says that a file has
  seen what the text begins with. Each call is shown to be one step of
  `TextBuffer` or none. `s_append`'s doubling is bounded by a lemma on powers
  of two (`PowersGrow`), proved from the order of the naturals being well
  founded.
- `StdioProofs`: all of its properties, in layers, each proved from those before
  it. `HInv`, the hooks: what was called is the end of the table, backwards, but
  for what was registered late, and the first entry is the library's own
  (`HooksReverse`). `BInv`, the objects: what each constructor and close makes
  and frees is of its own stream, and what a client holds is there, or, after
  one of the four failures, just what is left by it (`FilesOwned`,
  `StdioStrays`). `TInv`, the types, with those of what a thread carries
  (`StdioTypeCorrect`). `CInv`: a thread is inside a mutex exactly when it owns
  it, at most one thread is in `exit`, and one that closes stdout has freed its
  lock.

  `MInv`, the messages. `Talks` holds always: what a call marked when it began
  was taken by then, and once its flush was complete is not in the buffer, so
  that nobody makes it pending again (`StdioTied`); a message about to be
  printed is new and one thread's own. `Flows` holds until exit's flush meets a
  thread inside (`Raced`): a thread that moves the position has loaded the one
  that is there, one that resets the buffer has sent it all (`Flow`), and the
  messages before the position, those that a raw write took but the position has
  not yet passed, and those behind it make up what was taken, the first two of
  them on descriptor 1 (`Conserved`, which gives `StdioSentOnce`). Until `Raced`
  at most one thread is inside stdout, with the lock or, in exit, without it.
  `Raced` lasts, for its lock is not made again and its owner cannot unlock what
  is freed.

  `EInv`, the end of exit: when the library's hook has been called, its thread
  is at it (`Cleans`), or stdout is closed and everything taken is sent; and
  once closed nobody puts anything into it (`StdioSendsAll`).

  Most of the steps neither print nor change an object or a hook. `Quietly` says
  once what all of them respect, so that each layer looks at few others.
- `TextInputProofs`: `TextArrives` (`TextIntact`) and `NumbersArrive`
  (`NumbersExact`), both from `TextInvariant`. The properties speak of calls
  that have returned; the invariant `IInv` says of every place inside a call
  what they will need. A call that reads has taken the beginning of the stream
  it found (`Ahead`: what is left follows the `Gone` bytes that are taken).
  `WordSoFar`: what a word's call has in its buffers, NULs left out, is the part
  of the word that is taken, the next byte is peeked at, and the first buffer
  has been given up only for a word that does not fit it, whose first part and a
  NUL are from then on the beginning of what is held (`Torn`); until then it is
  just that part (`Fresh`). `fgets` with room for less than two bytes has taken
  nothing. `LineSoFar`: the line so far has no newline and room for one more
  byte. `ScanSoFar`: while the digits taken make a number that an integer holds,
  `num` is that number; its sign is known, so a step that wraps is a number that
  no integer holds, and so is each one after it. `WriteSoFar`: the stream and
  what is still to be written are the stream before with all of the text behind
  it. Each handler is shown to keep its own part, and the parts of the other
  calls are empty for it (`OnlyWords`, `OnlyLines`, `OnlyScans`, `OnlyWrites`).

  `Value`, `Digits` and `Bare` are recursive functions on numbers. That each is
  the function its recursion says, and has one value (`LoopExists`,
  `LoopUnique`), and that the digits printed have the value printed
  (`DigitsFacts`), is proved by induction. The library states induction for a
  predicate, which the provers cannot instantiate; `Induction` states it for a
  set of numbers, from the order of the naturals being well founded.

Only model-checked: `SomeoneGetsIn` and `CallsReturn` (liveness under fairness,
out of the prover's reach), and the violation runs.

## 5. Not modelled

Left out for good: `_start` and the switch of stacks in `clone` (assembly that
moves registers), the character and C string functions and the n-variants of
memory primitives (loops without state that unit tests reach), terminal
sequences (formatting), the tables of error names, the system call wrappers, the
test runner and the examples. `memory_fence` changes no state; the wait it is
has its place in the operations' own fences. A raw file that reports more bytes
than were asked for is not a file of this library.

`poll` and `sleep` are not modelled: the first is an array that grows as a
`String` does (and fails as it does, see `Strings`), the second one loop around
a system call with floating point on both sides.

Simplified where it is modelled. `Stdio` takes what `bf_write` does with the
bytes of a message as one step for each branch, and bytes of several messages
that one raw write sends as a sequence of messages; the read half of stdin's
`BufferedFile` gives a byte, none or an error, as `BufferedReader` shows, and
one byte stands for a read. Of the data race at exit `Stdio` has the
interleavings of the raw write, the load and store of `write_buf_pos` and the
reset. The compiler may split these further (the length of a raw write from two
loads of the position, the end of the buffer lost between the copy and its
update), so the race may also `Stray` at any of these steps, and no property
speaks of stdout's messages once it has begun. A failing `mutex_new` leaves a
freed `LockedFile`, and the first use of that ends the behaviour. `Strings` has
a constructor of a string only when it succeeds: what `s_new` frees when its
second allocation fails is not in it. `SbrkHeap` assumes that the `munmap` of a
block of the sbrk heap fails, which it does for an address that is not that of a
page. `TextInput` has one width for all integer types, and leaves out the ends
of the digit buffers of the `fprint` functions, which are longer than any number
is. A pointer difference that the code computes is modelled as a number.

Some failures that the code does not notice are in the models as what they lead
to, and no property excludes them: a block from a wrapped request or a refused
break (`astray`), memory that the sbrk heap forgets or loses, a hook beyond the
table, reads of a `StringReadFile` between length and capacity, a number that
does not fit and comes back as another, the bytes that a scan takes and drops, a
doubled capacity of 0. The hazards in `PROJECT.json` name them.

## 6. Plan

Every safety property that a run checks is proved. What could come next: `poll`
and `sleep`, whose two hazards no property covers, and larger instances of
`Stdio`.
