# Verification of general_c_code

TLA+ models of the C and C++ utility library in `src/`, the TLC runs that check
them on small instances and the TLAPS proofs that hold for every instance.

The library is a collection of small components that applications link into
microcontroller (MCU) and Linux (MPU) programs.  It has no tests of its own.
Most of its components keep a few words of state, and what is hard about them is
index arithmetic at a boundary, state shared by two threads or two boards
without a lock, and calls that fail half way.

## Inventory

| component | source | state | operations | hard behaviour |
|---|---|---|---|---|
| pfifo, element mode | `general/pfifo.c`, `general/inc/pfifo.h` | free-running `in`, `out`, buffer | put, in, get, out, peek, out_peek, skip, reset, reset_out | one reader and one writer thread without a lock; index wrap; split copies |
| pfifo, record mode | same | same, buffer holds length-prefixed records | in_r, out_r, out_peek_r, skip_r, len_r | framing: the reader trusts the length bytes it finds |
| pfifo, set-up | same | `mask`, `esize` | alloc, init, free | rounding of sizes to powers of two |
| Crb | `general/common_ringbuffer.c` | `read`, `write`, buffer with one slot kept free | Write, Read, Peep, ReadAir, Clear, Size, FreeSize | full and empty told apart by one slot; a producer and a consumer |
| Erb | `general/elastic_ringbuffer.c` | as Crb, over a buffer of twice the size | as Crb, Peep and PeepAll return a pointer | what is readable must lie in one piece, whichever half it starts in |
| logic-reg | `general/logic-reg.c` | table of register groups | Register, Unregister, Read, Write | first match wins; address arithmetic; commands on a shared ring buffer |
| regwr_cb | `general/regwr_cb.c` | none (remote ring buffer) | Size, FreeSize, Read, GranRead, Write, GranWrite, Peep, ReadAir, Clean | two bus transactions per call, each of which may fail before or after it took effect |
| hash_kv | `general/hash_kv.c` | buckets of items with reference counts, values in blocks of their own, optional lock | NewData, SetData, GetData, DelKey, blobs, Iteration, Del | callbacks that change the table in the middle of an iteration; references; allocations that fail half way |
| ulist | `general/inc/ulist.h` | doubly linked lists | add, del, move, splice, loops | loops whose body removes or moves the entry they are at |
| log files | `linux/debug.c` | ring of numbered log files, open file | dbg_init, log_write, rotation, dbg_exit | rotation by size and time; restart with files of an earlier run |
| printf engine | `linux/debug.c` | 64-byte stream cache | eh_printf family | hand-on at newline or full cache; cut at the end of a buffer; widths, precisions and flags in every combination; rounding; memory for long numbers that is not there |
| sconfig | `linux/sconfig.cpp` | configuration table, author list, recursive mutex | Write guard, sync, authors | unlock, save and notify are three critical sections |
| singlechip debug | `singlechip/debug.c`, `singlechip/inc/debug.h` | shared print buffer, lazily created mutex | debug_printf, debug_phex | first-use race of the lock; contexts that print without it |
| windows debug | `windows/debug.c` | shared print buffer | as above | its lock functions are empty |
| comm_protocol | `general/comm_protocol.c` | none | a5_5a escaping and recovery | delimiters and escape characters next to one another; a `uint16_t` index over an `int` size |
| pp_uart | `linux/pp_uart.c` | file descriptor, settings of the device | Open, Close, Read, Write, InClean | poll loop with partial reads; settings that outlive whoever made them |
| loop_pool | `general/inc/loop_pool.h` | timers of a polling loop | Reset, IsTimeout, debounce, periodic call | wrap of the millisecond counter; sentinel value 0 |
| argparse, toml.hpp | `linux/argparse.c`, `linux/inc/toml.hpp` | | | third-party code |
| md5, crc, bits, memctrl, typedef | `general/` | | | pure functions without control worth modelling |

How they interact: `logic-reg` serves registers and Crb ring buffers on the MCU;
`regwr_cb` drives them from the MPU over an application-supplied register bus;
`comm_protocol` frames what goes over a serial line that `pp_uart` reads.
`hash_kv` is built on `ulist`, and the log files hang on the printf engine.
`sconfig` and `loop_pool` stand alone.

## Modules

| module | models | builds on |
|---|---|---|
| `PfifoIndex` | the unsigned index arithmetic of pfifo, as pure operators | |
| `FifoQueue` | abstract: a bounded queue between one writer and one reader | |
| `Pfifo` | pfifo in element mode, two threads | `PfifoIndex`, refines `FifoQueue` |
| `RecordQueue` | abstract: a queue of whole records | |
| `PfifoRec` | pfifo in record mode, two threads | `PfifoIndex`, refines `RecordQueue` |
| `Crb` | the common ring buffer, two contexts | |
| `Erb` | the elastic ring buffer, two contexts | `Crb` (indices, `erb_ReadAir`, `erb_Clear`) |
| `CbReg` | what a read or a write of a ring buffer's registers does (`_CbRead`, `_CbWrite`), as pure operators on the queue that `Crb` implements | |
| `LogicReg` | the device: table of register groups and its routing | `CbReg` |
| `RegWrCb` | the host: two-access calls over a lossy bus, and the device's program at the other end of the ring | `CbReg` |
| `Frame` | a5_5a escaping and recovery, as pure operators | |
| `Serial` | frames over a serial line: a writer, the line, `uart_Read` | `Frame` |
| `SerialPort` | `uart_Open` and `uart_Close`, and the settings of the device | |
| `LoopPool` | timers, periodic calls and debouncing over a wrapping clock | |
| `ListSeq` | abstract: lists are sequences | |
| `Ulist` | linked lists, pointer by pointer | refines `ListSeq` |
| `HashKv` | the hash table with its reference counts, several threads | |
| `HashData` | its values in memory, with allocations that fail | |
| `Sconfig` | the shared configuration, its file and its authors, a thread for each | |
| `LogFiles` | the rotating log files, with kills and restarts | |
| `Printf` | the printf engine: fields, and the streams they go to | |
| `DebugLock` | the print buffer of the MCU and the mutex around it | |
| `Rings` | `Crb`, `Erb` and `PfifoRec` | the two ring buffers refine `FifoQueue` |
| `Devices` | `LogicReg`, `RegWrCb`, `Serial`, `SerialPort`, `LoopPool` | |
| `Stores` | `HashKv`, `HashData`, `Ulist`, `Sconfig` | |
| `Debug` | `LogFiles`, `Printf`, `DebugLock` | |
| `PfifoIndexProofs` | lemmas about `PfifoIndex`: slots, wrapping, what is between two indices | |
| `PfifoProofs`, `RecordProofs` | proofs about `Pfifo` and `PfifoRec` | `PfifoIndexProofs` |
| `RingsProofs` | proofs about `Rings` and its parts | `RecordProofs` (as an instance) |
| `RegWrCbProofs`, `DevicesProofs` | proofs about `Devices`: the ring over the bus, and the other parts | `DevicesProofs` extends `RegWrCbProofs` |
| `StoresProofs`, `DebugProofs` | proofs about `Stores` and `Debug` and their parts | |

`Rings`, `Devices`, `Stores` and `Debug` put the parts of one area side by side, so that one
run checks an area.  Their variable `part` (`kind` in `Rings`) says which part a
behaviour is about and never changes; the other parts stay in one of their
initial states.  That leaves nothing out: the parts of an area do not touch one
another's state, and where they do meet in the code, the meeting is inside one
module: `Serial` uses the operators of `Frame`, `LogicReg` and `RegWrCb` both use
those of `CbReg`, and `HashKv` has the sequences that `Ulist` is shown to
implement.

Each `MC*.tla` gives the constants of a module values for TLC.  Definitions
marked `(mutant)` are wrong on purpose: each is what a plausible slip would make
of the definition that follows it, and each property is shown to fail when its
mutant is put in the place of the original.

### pfifo (`PfifoIndex`, `Pfifo`, `PfifoRec`)

`in` and `out` are free-running unsigned numbers; the model lets them wrap at
`Wrap`, any multiple of the buffer size that is at least twice as large (2^32 in
the code).  A call is split where the other thread can come in between: the one
load of the other side's index (`InBegin`, `OutBegin`, ...), the copying of each
element in any order inside each of the two `memcpy` (`CopyIn`, `CopyOut`), and
the store of the own index after the fence (`InCommit`, `OutCommit`).
`pfifo_reset_out` is a load of `in` and a store of `out`, with the writer free
to commit in between; `pfifo_reset` needs both sides to be quiet, as its comment
says.  `pfifo_skip` has no check for an empty fifo in the code; it is modelled
for a reader that has seen an element (a caller who skips an empty fifo gets an
`out` ahead of `in`).

Memory is sequentially consistent.  That is what the fences of the code are
for: the mutants `InCommitUnfenced` and `FinishReadUnfenced` are the code
without them, and both are caught.

In record mode the payload is behind its length, `RecSize` digits of base
`Base` (256 in the code) with the low digit first, written byte by byte.  A
record is published by one store of `in`.

### Ring buffers (`Crb`, `Erb`, `Rings`)

Indices stay below `MemSize` and one byte stays free.  The code has no fence and
no lock, so it is modelled as two contexts of ONE core, a main loop and an
interrupt; every interleaving of their steps includes every preemption.

`Erb` has the same indices over a buffer of twice the size.  A write stores
every byte (`StoreByte`) and then repeats some of them in the other half
(`RepeatByte`), so that the readable bytes are one piece from `read` on.
`erb_Peep` returns a pointer to that piece: the model's reader looks through it
one byte at a time while the other context goes on writing, which is what
`RingsNoRace` is about.  Memory is not cleared at the start; `NoValue` marks a
byte nobody has stored, and the type invariant says that none is ever read.

`Rings` is one ring of either kind, or a pfifo of records.  The two ring buffers
refine the same `FifoQueue` as `Pfifo`, with one byte less; for an elastic ring
the queue is what is seen through the pointer.

### Register map and remote ring (`CbReg`, `LogicReg`, `RegWrCb`)

`LogicReg` routes a bus access to the first registered group that answers; for
plain groups the whole range counts, for ring groups only the first address.
The sum of address and length is cut to a `uint16_t` (`AddrMod`).  An access is
one step: the code expects its bus handler to run to completion.

`RegWrCb` is the caller's side.  A call is an access that asks for a size and,
mostly, a second one that moves bytes.  Each of them may fail with nothing done
(`BusFails`) or be executed and reported as failed (`AnswerLost`); the device's
program uses its end of the ring at any time in between.  The bus itself is the
application's; three things are assumed of it: an access the device refuses
is reported as a failure, a reported success has been executed once, and an
access that was reported as failed is not executed later.

### Serial line (`Frame`, `Serial`, `SerialPort`)

`Escaping` and `Recovery` are the two functions of `comm_protocol` on whole byte
strings, with the real values of the delimiters.  The recovery counts in a
`uint16_t` (`comm_protocol.c:70`) up to a size that is an `int`: after `IndexMod`
(65536) bytes its index starts over, finds what it found before, and the loop never
ends.  `Recovery` is `Endless` then and the host stays where it is (`reading` is
`"lost"`); what the loop stores behind the end of `proc_data` meanwhile is not
modelled.  In `Serial` a device writes
frames, in as many pieces as `write` likes; the line holds what has arrived; the
host calls `uart_Read` (`PollReady`, `Read`, `PollTimeout`, `ReadFull`) and gives
what it returns to the recovery.  `uart_Read` does not know where a frame ends:
it returns when its buffer is full or the line is silent, and the silence may
fall into the middle of a frame.  `Fail` is a `poll` or a `read` that fails,
`InClean` throws away what has arrived, and a writer may give up after a short
write.  `FramesComeBack` says in both directions what comes of it: every read
that returned a whole frame of at most `IndexMod` bytes recovers its payload, every
other recovers nothing, and only a whole frame of more bytes makes the host lost.
`GoAway` is a device that disappears; it is possible in the run `uart_hangup` only.
The writer waits for the host's read to be over before the next frame; the code
has no means of its own to tell two frames that arrive together apart.

`SerialPort` starts with the device in whatever settings others left.  An open
sets the speed, then the rest, and may refuse the second after the first.

### Timing (`LoopPool`)

The clock is the real time from any start, modulo `Tick` (2^32); `time` is what
the code never sees.  `TimerIsExact`, `CallInTime` and `SampleSettles` compare
the two.  Three limits of the code are part of these properties: a timer that is
over says so until the clock has turned once and then runs again; calls and
samples must be polled within a turn of the clock (`Pass`); and a `mark` of 0
stands for "never called" (`loop_pool.h:97`), so that a call due at clock 0
starts the periods over.

### Lists (`Ulist`, `ListSeq`)

`next` and `prev` are the memory of the nodes; the operations are the stores of
the macros and inline functions, in their order.  `list_splice` leaves the
emptied head pointing at entries that are no longer its own (`stale`), until it
is initialised.  `list_del` sets NULL, so that a loop that reads `next` of a
removed entry would be caught.  Callers respect what the names ask for: an entry
is added when it is in no list, and the body of a safe loop touches only the
entry it is at.  `ListsAreSequences` is the refinement.

### Hash table (`HashKv`, `HashData`)

Operations hold the lock from beginning to end, so each is one step.
`hash_Iteration` is several: it references the current item and the next one,
gives the lock away, and the processor runs; the threads, the iterating one
included (the lock is recursive), then add, delete, acquire and release.
Freed addresses are used again.  `RelockFails` and `StoreUnlocked` are the path
on which the lock cannot be taken again: the count is decremented without it.
Both are only allowed when one thread is at work, because the code itself gives
up mutual exclusion there: with a second thread at the same item
`ReferencesHold` does not hold (`Contended` in `MCHashKv` is that case).
A processor releases the blob it is given or keeps the item alive; one that does
neither leaves a count behind (`hash_kv.c:684`), and is not modelled.

`HashData` has what `HashKv` leaves out: an item and its value are two blocks, a
value of another length gets a new one, and every allocation may fail.  Each
such call holds the lock throughout, so that one caller is enough.

### Log files (`LogFiles`)

`dir` is the directory and survives `Stop`.  Scanning takes one step per name in
any order (`readdir` promises none).  Creating a file is two steps, `Create`
(`fopen`) and `Commit` (closing the old file, removing the one in the slot,
updating the table), so that the program can be killed in between.  Time is not
counted: the time limit is or is not passed at every print.

### Configuration (`Sconfig`)

Every author has a thread of its own.  The recursive mutex is free when no
thread is in one of `Sections`.  `Write::~Write` unlocks, saves (`OpenFile`,
`SaveFile`) and notifies (`TellBegin`, one `Tell` per author on the list,
`TellEnd`); other threads may take the lock after each of the three.  `sync` and
`parse_file` can also be called by themselves.  A callback reads the table, in
the notifying thread and under the lock it holds.  When the file cannot be opened, or a
callback that has not been set is called, an exception leaves a destructor and
the program has ended (`dead`).  Left out: `Write` objects inside one another,
callbacks that construct or destroy authors, and kills.

### Printf engine (`Printf`)

A call is a sequence of directives into a buffer or to a function.  Each
directive is one step; its field is computed by an operator per conversion, and
`InByte` puts it through the cache a character at a time.  Doubles are numbers
of hundredths, whose product with ten is exact in binary too; upper and lower
case, and the width of the integer types, are not distinguished.  An integer of more
than `StackCache` digits (16 in the code) is put together in memory from `eh_malloc`; when there
is none, the whole field is left out and 0 counted for it (`debug.c:787`): `Outcomes`
is what a directive may print.  Some things
the code does may surprise and are modelled as they are: `-` together with `0`
pads a double with zeros on the left; the `%` of an unknown directive is not
counted in the result (`debug.c:1017`); a byte array with an incomplete last
item is padded as if it had one item less.

Two threads inside `eh_printf` are outside the model: the function takes no lock,
and two that append to the cache at once may step past its end.  So are a buffer
of size 0, for which `streamout_finish` writes before the buffer, and `L`, which does
not consume a `long double`.

### Lock of the MCU's debug output (`DebugLock`)

Between the entry and the exit of a print are the separate accesses of
`debug_lock`: the test of `is_lock_init`, the creation of the mutex, the store of
the flag, the load of the handle, the wait.  Main prints before the scheduler
runs, a task may suspend it, and an interrupt runs to its end before anything
else goes on; these three print without the mutex.  The text is put into the
shared buffer and onto the console a character at a time, in one piece
(`debug_printf`) or two (`debug_phex`).

`LinesAreWhole` is about the contexts that nothing unlocked can disturb
(`Undisturbed`), and, in the run `debug`, about programs whose first print by a task ends
before another task's begins; `debug_first` drops that condition.

## Runs

| run | checks | bounds | expected |
|---|---|---|---|
| `pfifo` | types, `NoOverrun`, `NoRace`, refinement, every call returns | 4 slots, indices mod 8, batches to 2, two values; 475,776 states | holds |
| `rings` | types (with one byte free), `RingsNoRace`, refinement of both ring buffers; `Framing`, `AvailIsExact` and refinement of the records | ring buffers: 4 bytes, calls to 2 bytes, two values, symmetric; records: 8 bytes, indices mod 16, 2-digit lengths of base 2, records to 2 bytes; 1,182,036 states | holds |
| `devices` | types; `ZeroMeansUnchanged` of the register map; `NeverRefused`, `NothingLost`, `RingIsSound`, `ReportedIsDelivered` of the remote ring; `FramesComeBack`, `ReadReturns` of the serial line; `OpenedAsAsked`; `ToolsKeepTime` | register map: 4 groups that nest, overlap and touch, 3 table entries, 12 addresses; remote ring: 3 bytes of which 6 are produced, `uint16_t` of 16 values, five ways to use it; serial line: all frames of two special bytes, buffers of 3, 4 and 8, two frames with failures, an index of 5 values and frames to 7 bytes; clock mod 8, 10 ms, cycles of 2 and 3; about 320,000 states | holds |
| `stores` | types; `ReferencesHold`, `VisitsAll` of the hash table; `ValuesAreKept`; `ListsAreSequences`, `LoopVisitsAll` of the lists; `FileIsCurrent`, `EveryoneKnows` of the configuration | hash table: 2 threads, 3 keys in 2 buckets, 3 items, counts to 3; values: 2 keys, 5 blocks, values to 2 bytes; 2 lists of 3 entries; 3 authors, 3 changes; symmetric; 453,827 states | holds |
| `debug` | types; `AtMostMax`, `OpenIsNewest`, `FilesAreBounded`, `LatestAreKept`, `NumbersAreFresh` of the log files; `LinesAreWhole`, `PrintsEnd` of the lock; `SnprintfContract`, `LinesAreHandedOn`, `FieldsReadBack` of the printf engine | up to 3 log files, 7 numbers, limit of 2, prints to 3; 2 tasks, main and an interrupt, to 2 prints each; cache of 4, buffers of 1, 4 and 9, 2 digits without memory, some 10,000 programs; 147,785 states | holds |
| `pfifo_rec_long` | `PeekIsLength` | 1-digit lengths of base 3, records to 3 bytes | violated |
| `logic_reg_wrap` | `AlwaysInside` | as in `devices` | violated |
| `hash_del_blob` | `NeverCrashes` | as in `stores` | violated |
| `logs_oldest` | `OldestGoesFirst` | as in `debug` | violated |
| `uart_hangup` | `ReadReturns` | a device that may go away | violated |
| `debug_first` | `LinesAreWhole` | two tasks may print first together | violated |
| `float_carry` | `FloatIsNearest` | 0.95 and 0.05 with one digit | violated |

What the bounds are chosen for.

- `pfifo`: the indices wrap after two rounds of the buffer, and a batch is split
  at every position of the buffer.
- `rings`: a call of two bytes is split at every position, and two of them
  more than fill the capacity of three, so that full and empty occur everywhere;
  two values tell a byte from its neighbour and from what a slot held before, and since
  bytes are only moved they may be exchanged.  For the records, every position of
  a two-byte length relative to the end of the buffer and the wrap.
- `devices`: one group inside another, two that overlap and two that touch, so
  that which table entry comes first matters; a remote ring that fills up,
  empties and is wrapped twice by 6 bytes, sizes beyond the width of `uint16_t`;
  every pair of special bytes and of the bytes they become, in a buffer that is big
  enough and in one that is not; frames that the index just spans and just does not,
  with and without an escape where it starts over; clocks that start just before and at the wrap,
  and cycles that do and do not divide it.
- `stores`: both keys of a list and the first of the next list, so that the next
  item of an iteration is in the same list, in a later one, or missing, and one
  item is always there to be allocated again; three counts are a blob and two
  iterations at once.  Five blocks are two keys with their values and one for the
  new value, so that memory runs out at every allocation.  Three entries are an
  entry with two neighbours.  Three authors are a writer, one that comes or goes
  while it notifies, and one that writes in between.  Nothing in the code looks at
  which address, thread, author, or which of two keys of one bucket it has,
  hence the symmetry.
- `debug`: each slot of the log table is used at least twice in the longest run,
  and the number of files can go up and down between restarts; a task that holds the
  mutex, one that waits, and one that needs none; each directive alone with every
  combination of flags, with numbers that need memory and numbers that do not; two in a buffer that is cut anywhere, and three calls on
  a cache that is shorter than their text.

Deadlock is checked in `pfifo`, `rings` and `stores`; in the last a hash
table that has followed a NULL pointer is over and stays so (`Over`).  It is not
checked in `devices` and `debug`, where programs come to the end of what they have
to print, send or time.

### Fairness

- `Pfifo`: weak fairness of the steps of a thread that is INSIDE a call.  A thread that
  has started a call is scheduled again by any scheduler the code can run under;
  nothing makes a thread start a call.  `CallsReturn` says that such a call ends
  although the other thread may have stopped for ever in the middle of its own,
  which is what "no lock" has to mean.
- `Serial`: weak fairness of a `uart_Read` that can go on.  `poll` returns, at the
  latest after its timeout.  Nothing makes the device write.
- `DebugLock`: weak fairness of the steps inside a print, and of a task that has
  suspended the scheduler resuming it, which FreeRTOS asks of it.

## Findings

- `pfifo_rec_long`: `__pfifo_in_r` accepts a record that is longer than its
  length field can tell; the reader sees a wrong length and loses the frame.
- `logic_reg_wrap`: the end of an access is computed in 16 bits; an access that
  wraps passes the range check.
- `hash_del_blob`: `hash_DelKeyFormBlob` clears the blob's pointers and then
  follows them.
- `logs_oldest`: when two log files share a slot after a restart, the newer one
  is removed, where the comments say that the old one is.
- `uart_hangup`: when the device goes away, `read` returns 0 and `poll` is ready at
  once, and `uart_Read` goes round its loop for ever.
- `debug_first`: two tasks that print first at the same time create a mutex each
  and print through the same buffer.  The mutex that was replaced is then never
  given back; a third task that already waits for it would wait for ever.
- `float_carry`: a fraction that ends in exactly one half and rounds up to one does not
  carry into the whole part: 0.95 with one digit is printed as 0.10.
- `float_carry` also prints 0.05 with one digit, as 0.1: the code takes a fraction of 0
  for odd (`debug.c:362`), where its comment promises the even neighbour.  TLC stops at
  the 0.95 that is printed first; either double alone violates the property.  With no
  digit the code comes to the even neighbour by its last step (`debug.c:366`).

## Proofs

`PfifoProofs` proves, for every buffer size of at least 2, every width of the
indices that is a multiple of it and at least twice as large, every set of
elements and every bound on the batches:

| theorem | says |
|---|---|
| `TypeCorrect` | every variable keeps its type; a finished read returns stored elements only |
| `NeverOverrun` | the writer is at most one buffer ahead, and what a call was granted stays granted |
| `NeverRace` | writer and reader never touch the same slot: no lock is needed |
| `CopiesAreIntact` | what a copy in progress has moved is not disturbed by the other thread |
| `Refinement` | `Pfifo` implements `FifoQueue` |

The argument has two layers.  `Shape` (types, `NoOverrun`, `GrantsHold`) is
inductive without any knowledge of the data.  `NoOverrun` alone is not: it says
nothing of a reader that has set out to remove elements, and it is `GrantsHold`
that keeps `out` behind `in` when that reader commits.  `NeverRace` follows from
`Shape` and the injectivity of the slots of a window no longer than the buffer
(`RingSlotInjective`).  `Intact` adds what the slots hold: the elements copied
out so far are those still in the buffer, and the elements copied in so far are
where a reader will look.  `Refinement` needs `Intact`: at the commit of a write
the queue grows by exactly the batch, at the commit of a read what was copied is
its front.  All facts about `%` are in `PfifoIndexProofs`, which reduces the
wrapped arithmetic to case distinctions once, for both modes.

The assumptions are those of the modules: `SizeAssumption`, `WrapAssumption`
(both hold for the sizes `pfifo_alloc` accepts and the 32-bit indices),
`BatchAssumption` and `ValueAssumption`.  No theorem about the size being a
power of two is needed: masking is taken as the remainder.

`RecordProofs` and `RingsProofs` prove of the record mode, for every buffer size,
width of the indices, base, length field of one or two digits, and set of records:

| theorem | says |
|---|---|
| `RecordsStayFramed` | the committed bytes are the records, each behind its own length (`Framing`) |
| `RecordsComeOutInOrder` | a fifo of records implements `RecordQueue` |
| `RingsTyped` | the types of all three rings (`RingsTypeOK`): no index leaves the buffer, and no reader is handed a byte that nobody wrote |
| `LengthIsTold` | what is found at `out` is the length of the oldest record (`PeekIsLength`) |
| `AvailKeepsItsPromise` | `pfifo_avail` is exact (`AvailIsExact`) |

`Framing` is not inductive.  `Inv` adds to it what a write in progress has stored
where a reader will look (`Staged`), that a read in progress is of the oldest
record and has copied its beginning (`Reading`), and that the `in` which
`pfifo_reset_out` has loaded is still the end of a record (`Resetting`): records
committed after the load stay behind it.  The records laid end to end are a
recursive function of a sequence (`FlattenSeq`).  Its facts (`FlatConcat`,
`FramesSplit`) are proved for sequences of every length from the least
counterexample, which `LeastOf` takes from the well-foundedness of the naturals:
that replaces induction, which the provers cannot instantiate.

All but `AvailKeepsItsPromise` assume `Tellable`, that the callers pass no record
longer than the length field can tell.  It cannot be left out: the run
`pfifo_rec_long` is what happens without it.  `RingsProofs` takes `RecordProofs`
as an instance and shows that `RingsSpec` implies the specification it is about.

`DebugProofs` proves of the log files, for every set of file limits, every size limit and
wherever the program is killed:

| theorem | says |
|---|---|
| `OpenStaysNewest` | the open file is in the directory and has the greatest number |
| `NothingIsTruncated` | a file is created under a number above all that are there |
| `NeverTooMany` | at each print there are at most `max_log_file_num` files |
| `TypeCorrect` | the directory, the table and the limits keep their types, and a file that the table lists is in the slot of its number |
| `FilesStayBounded` | a file is longer than its limit by at most what one call prints, as long as new files can be created (`FilesAreBounded`) |
| `LatestLogsAreKept` | the logs that are kept are the latest ones without a gap, where all runs have the same number of files and none is killed in a rotation (`LatestAreKept`) |

None of the first three is inductive, because what holds at a print rests on what the
scan of the directory has established.  `Inv` says for each stage which files
the table lists: while the directory is scanned, every file that has been read
and not removed (`Scanning`); between `fopen` and the update of the table, every
file but the new one (`Creating`); at a print, every file (`Printing`).  It also
bounds the numbers the table holds by the number last used, and that is why the
slot of a new file never holds the new file itself.  A table of `max` entries
that lists every file is a surjection onto the directory, which gives
`NeverTooMany`.  `Typed` adds the slots (`Entered`), `Limited` the length of the
open file before and after a refresh, and `Latest` that the numbers in the
directory follow one another, of which a rotation removes the smallest.
The assumption is `LogAssumption`: the limits are positive (for
0 or less `_log_fp_init` keeps no files).

`RingsProofs` proves of the ring buffers, for every `MemSize`, every set of bytes and
every bound on the calls:

| theorem | says |
|---|---|
| `NeverFull` | one byte of a common ring buffer always stays free |
| `NeverRace` | its writer and its reader never touch the same byte |
| `Refinement` | it implements `FifoQueue` with `MemSize - 1` places |
| `RingsNeverRace` | the same as `NeverRace` for both kinds, for an elastic ring in either half and through the pointer of `erb_Peep` |
| `RingsRefinement` | both kinds implement `FifoQueue` |

The layers are those of `PfifoProofs`, with indices that stay below `MemSize` in
place of free-running ones.  `Places` (indices, `OneByteFree`, `GrantsHold`) says
nothing of the bytes, and is therefore shared by the two kinds.  `Intact` adds
for a common ring what has been copied out and stored so far.  For an elastic ring
`ErbIntact` adds `InOnePiece`: the byte that is seen through the pointer is the
byte at the same place modulo `MemSize` in the first half.  A write re-establishes
it for the bytes it is about to publish in two passes, which `FirstCopy` and
`SecondCopy` follow byte by byte; the second pass depends on whether the write
crosses the middle, and it never touches what is readable, because one byte
stays free.  The assumptions are `MemSizeAssumption`, `CrbValueAssumption` and
`CrbBatchAssumption`, which those of `Rings` contain.

The devices and their hosts, in `RegWrCbProofs` and `DevicesProofs`:

| theorem | says |
|---|---|
| `SizeStaysGood` | the size asked for in the first access is still good enough in the second (`NeverRefused`), for every ring, element and width of the size registers |
| `BytesAreNotLost` | in a use that can be lossless, what the producer was told is in the ring is there or has been handed to the consumer, whichever access fails (`NothingLost`) |
| `ElementsStayWhole` | the ring skips no byte, and with the Gran calls no element is torn (`RingIsSound`) |
| `WhatIsReportedIsThere` | a call that reports success has filled as much of the buffer as it returns (`ReportedIsDelivered`) |
| `AllOrNothing` | a bus access that reports 0 has changed nothing (`ZeroMeansUnchanged`), for every table of groups, address and length |
| `OnlyFramesComeBack` | a read that returns a whole frame recovers the payload sent last, and no piece of a frame is taken for one (`FramesComeBack`), for every width of the index: frames as long as it reaches (65536 bytes) come back, and of a longer one the recovery never ends |
| `ClocksWrapUnnoticed` | timers, periodic calls and debouncing follow the real time at every wrap of the clock (`ToolsKeepTime`), for every width, cycle, phase and timeout |
| `PortAsAsked` | a successful open leaves the device as asked, a failed one no descriptor (`OpenedAsAsked`), for every set of speeds |
| `DevicesTyped` | all parts keep their types, and what the map answers lies inside a group (`DevicesTypeOK`) |

- The ring over the bus: `Enough` says of a call between its two accesses that its
  length is there, or fits; each step of the device's program can only make it fit
  better.  That the casts to `uint16_t` never make a length longer than the size
  reported is the lemma `LengthFits`.  `LinkInv` adds that the bytes in the ring are
  numbered in order up to the newest (`InOrder`, `Newest`), that a lossless host takes
  only what it has looked at (`Looked`), and, where only whole elements move, that
  all ends lie between elements (`Aligned`).  `Moves` says of every step which of four
  things it does to the ring, and the parts of `LinkInv` are shown for these.
- The register map: `MapInv` is the types and that no two groups overlap in the
  table; a command is split by the operators of `CbReg`, and `CommandOk` says of each
  that it is executed entirely or not at all.
- The serial line: `LineInv` says that what is on the line, in the driver and in the
  host's buffer are adjacent pieces of the frame sent last.  That recovery inverts
  escaping in every frame of at most `IndexMod` bytes, never ends in a longer one, and
  refuses every proper piece, is proved for payloads of every length
  (`Growing`, `Recovering`), from the least counterexample as above.
- The loop tools: `LoopInv` relates each counter to the real time.  The sentinel value
  0 of a mark that happens to be due at 0 is in `MarkIs`.
- The port: the property is inductive; the proof goes through the flags that
  `SetParity` sets and clears.

The stores, in `StoresProofs`:

| theorem | says |
|---|---|
| `ReferencesAreSafe` | whatever a blob or an iteration refers to is in the table, has a count that covers it, and is in the list that is walked along (`ReferencesHold`), for every number of threads, keys, items and buckets |
| `IterationsVisitAll` | an iteration that is not cut short visits every item that was in the table from its start to its end (`VisitsAll`) |
| `ValuesSurvive` | every value is what was stored last, in a block of its own (`ValuesAreKept`), for every memory and whichever allocations fail |
| `FileCatchesUp` | when no author is between its change and the end of its save, the file holds the table (`FileIsCurrent`) |
| `EveryoneIsTold` | when no write is in progress, every author knows the table (`EveryoneKnows`) |
| `ListsImplement` | the operations of `ulist.h` on pointers implement those of `ListSeq` on sequences (`ListsAreSequences`), for every number of heads and entries |
| `LoopsVisitAll` | a loop, in either direction, visits what the list held when it began, in order and once (`LoopVisitsAll`) |
| `StoresTyped` | types; a key is in the hash table once; every list leads back the way it leads forth; nobody calls an author that is destroyed (`StoresTypeOK`) |

- References: that a reference is to an item in the table does not survive a step by
  itself, since another thread may release the last reference to it.  `Inv` therefore
  counts: `References(i)`, the number of blobs and iterations at `i`, is at most
  `count[i]` (`Counted`), so that a count that falls to zero has nobody left.  `Lists`
  says that an item is in the list of its key and only once, which makes a removal
  leave the next item of every other iteration where it is; `Unlocked` says that a
  count read without the lock is still the count.  The theorems about the hash
  table, and `StoresTyped`, have the
  hypothesis `Threads`: finitely many threads, one of them where the lock may fail.
- Iterations: `Complete` says that each item to be visited has been seen, or missed by a
  failing lock, or is in the list ahead of where the iteration is (`Behind`).
- Values: `Owns` and `Apart` (no block belongs to two keys) need each other, and
  `Tracked` (every allocated block belongs to some key) is the half of the property
  that rules out leaks.  Each operation is shown to change only blocks of its own
  key or blocks that were free.
- Lists: `ListsInv` says that the pointers stand for some sequences, one per head and
  no entry in two places (`StandsFor`): the head is place 0 of its ring and comes again
  behind the last entry (`At`), `next` leads from each place to the next one and
  `prev` back, and an entry in no list is `Free`.  Each operation is shown to lead from
  pointers that stand for `q` to pointers that stand for the sequences that `ListSeq`
  has after it (`AddKeeps`, `MoveKeeps`, `DelKeeps`, `SpliceKeeps`, `SpliceInitKeeps`,
  `InitHeadKeeps`); and `Walk`, which the refinement mapping is made of, finds exactly
  the `q` they stand for (`ListsWalked`), since the places of a ring are different and
  there are at most as many as entries.
- Loops: `LoopInv` says how many entries the loop has visited and that the field it
  follows still leads through the rest, the one it is at excepted.  What the body may
  do changes only the pointers of that entry, of its two neighbours and of another
  head (`Touches`).
- Configuration: `ConfigInv` adds `Told`: an author whose view is old is one that
  somebody who has changed the table is still going to tell (`WillTell`).

The lock and the engine, in `DebugProofs` besides the log files:

| theorem | says |
|---|---|
| `DebugTyped` | the files and the lock keep their types (`DebugTypeOK`): no task waits for a mutex that was never made |
| `LinesStayWhole` | no character of another task gets into a text and none is lost (`LinesAreWhole`), for every number of tasks and prints |
| `LinesGetHandedOn` | what is printed to a function arrives once and in order, the end of a line at once (`LinesAreHandedOn`), for every cache and text |
| `TextsAreCut` | what `snprintf` leaves is the text as far as it fits and a Nul, and it returns the length of all of it (`SnprintfContract`) |
| `FieldsRead` | what is printed of a number reads back as it, or is nothing if the number needs memory for its digits; what is printed of a double is the nearest number, of two the even one (`FieldsReadBack`), for every value, base, width, precision and set of flags |

- The lock: `Turns` says who holds which mutex and who waits for it, `OneByOne` that at
  most one task is between taking and giving it, and `TextsAreWhole` how much of each
  task's texts the console shows.  `LinesStayWhole` has the hypothesis `NoRace`: two
  tasks do not print first at the same time.  The run `debug_first` is the case
  without it.
- The engine: a directive always prints a text (`OutcomeIsText`, by the digits of every
  number, `DigitsTo`).  `EngineInv` says that what was handed on and what waits in the
  cache are together what has been printed (`OnItsWay`), and for a buffer how much of
  that was stored (`CutOff`).
- The fields: the digits of a number have its value, whatever zeros are in front of
  them (`DigitsReadBack`, `ValueZeros`), and blanks, sign and prefix can be told from them
  (`FramedBy`, `SignParts`, `DigitsBehindPrefix`); `LaidOutAs` has the widths.
  `DecentralizedIs` goes through the cases of the rounding: what is printed is less than
  half a unit away, or half a unit and even (`Rounds`), in all of them but two.  `FieldsRead`
  has the hypothesis `Roundable`: 0.05 and 0.95 are not printed with one digit, which
  `Ahead` carries over to the directives of the call that runs.  The run `float_carry` is
  the case without it.

Each theorem is about the specification and the property that a run checks:
`RingsSpec`, `DevicesSpec`, `StoresSpec` and `DebugSpec` with their constants as they
are.  Four groups are about the specification of the part alone: those of
`PfifoProofs` and `RecordProofs`, `NeverFull`, `NeverRace` and `Refinement` of
`RingsProofs` (`Crb`), `ReferencesAreSafe` and `IterationsVisitAll` (`HashKv`), and
the log files (`LogFiles`, which `DebugSpec` implies: `FilesPart`).

The assumptions are those of the modules (`RecordsAssumption`, `LinkAssumption`,
`MapAssumption`, `LineAssumption`, `LoopAssumption`, `SconfigAssumption`,
`DataAssumption`, `ListAssumption`, `LockAssumption`, `PrintfAssumption`), assumed by
the modules that instantiate them and evaluated by TLC in every run.  `LinkAssumption` says that each
end of the ring over the bus has one user: the host does not fill a ring that it takes
from.  `NoPayload`, the mark for a read that recovered nothing, and `Endless`, the mark for a
recovery that does not end, are constants that are no payload; of `IndexMod` only that it
is a number is assumed.  `Threads`, `NoRace`, `Tellable` and `Roundable` are hypotheses of theorems and hold
for the constants of the passing runs.

Only model-checked: `CallsReturn`, `ReadReturns` and `PrintsEnd`, since liveness under
fairness and `ENABLED` are beyond TLAPS.

## Plan

Done: pfifo in both modes, the ring buffers, the register map and the remote
ring, the serial line, timing, lists, hash table and its values, configuration,
log files, printf engine and the MCU's print lock; proofs of all safety properties of
these that a passing run checks.  The next steps, in this order.

1. The set-up of pfifo and its rounding; `Sconfig` with nested writes, and with
   kills between truncating and writing the file.
2. `%e` and `%g`, doubles of one and more; two threads in `eh_printf`.

## Not modelled

The list with reasons is under "components" in `PROJECT.json`.  In short:

- third-party code: `argparse`, and `toml.hpp`, which is 17,748 of the 25,304
  lines under `src/`;
- pure functions (checksums, bit macros), names and dates, device settings other than
  those of a serial port;
- `windows/debug.c`, whose lock functions are empty: `DebugLock` without its lock;
- the entry points of the debug headers that only pass their arguments on;
- weak memory beyond what the fences order;
- a remote ring of exactly 65536 bytes when it is full, whose size
  `RegWrCb_GranRead` cuts to 0 (`regwr_cb.c:97`): the ring of the run is smaller;
- what the recovery of a frame of more than 65536 bytes overwrites: it stores behind its
  buffer for ever (`comm_protocol.c:80`), and the model's host is lost in it;
- the memory for the digits of a double of 17 digits and more (`debug.c:484`, which is not
  tested), since doubles are below 1;
- buffers of `comm_protocol` that are too small: a frame of n bytes that all need
  escaping takes 2n + 2, and the functions do not know the size they were given;
- uses that the code does not guard against: printing after `dbg_exit`
  (`debug.c:1377`), a kill inside `sync` (`sconfig.cpp:10`), and a preallocated pfifo
  buffer that is no power of two (`pfifo.c:108`).  They are listed as hazards.
