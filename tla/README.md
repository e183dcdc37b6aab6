# A TLA+ verification of PUAE

PUAE is a Commodore Amiga emulator in C.  Its core is sequential: one thread,
the *emulation thread*, runs the 68k and steps the custom chips through an event
table.  Around it are real concurrent parts: every mounted virtual file system,
every `uaehf.device` unit, the serial and network devices, the CD drives and
every *extended trap* has a thread of its own, and all of these talk to the
emulated machine through one small pipe, a handful of semaphores and one
interrupt request word.  The machine can be reset at any moment, and then part
of that state starts afresh and part of it survives.  These specifications are
about that: the hand-overs, the wake-ups, the orders of steps and the resets.

Paths below are those of the repository (`src/include/commpipe.h` and so on).
Every definition that models code is listed in `PROJECT.json` under `map` with
the lines it stands for.

## 1. Inventory

### Modelled

| component | state it keeps | operations | interacts with |
|---|---|---|---|
| **Comm pipe** `include/commpipe.h` | ring `data`, `rdp`, `wrp`; flags `reader_waiting`, `writer_waiting`; semaphores `lock`, `reader_wait`, `writer_wait` | `init_comm_pipe`, `write_comm_pipe_*`, `read_comm_pipe_*_blocking`, `comm_pipe_has_data` | used by every threaded component |
| **Virtual file systems** `filesys.c`, `filesys.asm` | per unit: the Amiga message port and the queue of commands of its handler process, `unit_pipe`, `back_pipe`, the counters `cmds_sent/acked/complete`, records waiting for locks, `reset_state`; shared: `singlethread_int_sem`, `unit_no`, `uae_int_requested & 1` | `FSML_loop`, `filesys_handler`, `filesys_thread`, `exter_int_helper` 0-4, `filesys_prepare_reset2`, `filesys_reset`, `filesys_start_threads` | comm pipe, the EXTER interrupt, dos.library |
| **Event scheduler** `include/events.h`, `include/events_jit.h`, `MISC_handler` in `custom.c` | `currcycle`, `nextevent`, `pissoff`, `eventtab`, `eventtab2`, statics `next`, `dorecheck`, `recursive` | `do_cycles`, `events_schedule`, `event2_newevent*`, `event2_remevent`, `MISC_handler` | called by the CPU; calls CIA, audio, hsync, blitter, disk and interrupt handlers, which call it back |
| **Extended traps** `traps.c` | `trap_mutex`, `current_context`; per invocation a `TrapContext` with two semaphores, a thread, saved registers; the 68k's registers and stacks | `trap_HandleExtendedTrap`, `trap_thread`, `trap_Call68k`, `m68k_call_handler`, `m68k_return_handler`, `exit_trap_handler` | the CPU; used by bsdsocket, uaeexe and the devices |
| **Calls of Exec** `native2amiga.c`, `include/native2amiga.h` | the pipe `native2amiga_pending`, `n2asem`, `uae_int_requested` | `uae_Signal`, `uae_PutMsg`, `uae_ReplyMsg`, `uae_Cause`, `uae_NotificationHack`, `native2amiga_reset`, their server in `exter_int_helper (2)` | comm pipe, EXTER interrupt; called by every device thread |
| **Record locks** `filesys.c` 2990-3182 | per handle its list of `lockrecord`s; per unit the list `waitingrecords` of packets with the time they still want to wait | `action_lock_record`, `action_free_record`, `record_hit`, `record_check_waiting`, `free_key`; `record_timeout` once a frame | the unit's thread; the emulation thread (`filesys_vsync`); the handler process, which answers the packets |
| **`uaehf.device`** `hardfile.c` | per unit: a comm pipe, a table of 50 requests with their types, `thread_running`, `sync_sem`, the open count; `change_sem` for all | open, close, `beginio`, `abortio`, `start_thread`, `hardfile_thread`, `hardfile_do_disk_change` | comm pipe, calls of Exec |
| **SANA-II device** `sana2.c`, `uaenet.c` | per unit: a comm pipe, the list `ar` of requests that cannot be done at once, the list `s2p` of packets to send, `async_sem` for both, the write thread's event | `dev_beginio`, `dev_abortio`, `dev_thread`, `uaenet_int_handler`, `uaenet_getdata` on the write thread | comm pipe, calls of Exec, the EXTER interrupt, libpcap |
| **Interrupt register** `custom.c` | `intreq`, `intreq_internal`, events that carry a snapshot | `INTREQ`, `INTREQ_0`, `INTREQ_f`, `send_interrupt`, `send_intreq_do` | event scheduler; every chip that interrupts; the CPU |
| **CIA timers** `cia.c` | counters, latches and control registers as of the last update, `div10`, `eventtab[ev_cia]` | register writes and reads, `CIA_handler`, `CIA_update`, `CIA_calctimers` | event scheduler, interrupt register |
| **Akiko's sector reader** `akiko.c` | two buffers, each with a first sector, an info byte per sector and the data; `akiko_sem`, `akiko_thread_running`, a comm pipe | `cdrom_run_read`, `akiko_thread`, `akiko_reset`, `akiko_init`, register accesses | comm pipe, the CD back end, the hsync handler |

What makes each correct:

* Comm pipe: a bounded FIFO for one writer and one reader; no lost wake-up; no
  call blocks for ever.  Hard: the writer's path without the lock, and the two
  waits after which the code does not test its condition again.
* File systems: a packet that was started is answered exactly once; a unit's one
  dummy message is never queued twice; an interrupt is never missing; pipes do
  not fill; a packet whose record lock timed out is answered with the next one; a reset joins every thread before it frees the unit.  Hard: the
  scan of the queue while the thread marks packets; the reset.
* Event scheduler: the clock stops at every event; a registration overwrites
  none; the walk over the table settles.  Hard: handlers that register and
  cancel events while the table is being walked; a clock that wraps round.
* Extended traps: one thread has the 68k at a time; traps and the functions they
  call nest on each task's stack; a value reaches its caller; the emulation
  thread is never stuck.  Hard: nested and interleaved traps of several tasks.
* Calls of Exec: messages stay whole; a message in the pipe has its interrupt; calls
  return and are made.  Hard: several writers, a pipe that fills up inside a
  message, `|=` and `&=` on a plain `int` by several threads, a reset.
* Record locks: two handles never hold conflicting records; who waits is answered.
  Hard: the two threads share the list of those who wait without a lock.
* `uaehf.device`: every command is answered; whatever the emulation thread waits for
  comes; a unit's pipe has one reader.  Hard: the table is read and written by two
  threads without a lock, in it a search for a free slot, a request and its type one after
  the other; the emulation
  thread is both the one who waits and the one who empties the pipe of replies.
* SANA-II: a packet goes on the wire once; a flush is answered after everything before
  it; a write is answered.  Hard: three threads complete requests by queueing them once
  more, and a request that is queued too often is taken for a new command.
* Interrupt register: what the CPU sees follows the register within the delay.  Hard:
  every delayed write carries all bits.
* CIA timers: they read and underflow as if counted at every clock.  Hard: they are
  not counted until somebody looks, and then in one pass.
* Akiko: the 68k gets the sector it asked for, every sector comes, a reset ends.
  Hard: one side works without the semaphore; a stop signalled in the variable that
  the stopper clears.

### Not modelled

| component | state and hard behaviour | why not |
|---|---|---|
| `uaeserial.device` `uaeserial.c`, `uaescsi.device` `scsiemul.c`, `scsidev.c` | request lists or tables, threads, aborts | the structure is that of `sana2.c` and of `hardfile.c`, which are modelled; behind it is the host's serial or SCSI driver.  `cmd_reset` of `uaeserial.c` is listed as a hazard |
| CDTV `cdtv.c` | a CD thread and its request pipe | no buffer is handed over; the rest is the command protocol of drive and DMAC |
| CD image unpacking `blkdev_cdimage.c`, block devices `blkdev.c` | an unpack thread shared by all units, stopped by polling flags; open counts and a semaphore per unit | candidates.  Read so far: closing one CD unit stops the thread for all (`blkdev_cdimage.c:1667`); a unit's semaphore is destroyed right after it has been given back (`blkdev.c:308`) |
| bsdsocket.library | threads that block in host socket calls | its behaviour is mostly the host's |
| Copper, blitter, DMA, drawing, sound, disk | deterministic hardware emulation, huge data state | what could be wrong is fidelity to the chips, for which the repository holds no reference |
| CPU, FPU, MMU, JIT | instruction semantics, generated code | data, not control; out of reach of TLC |
| A2091, A2065, NCR, Gayle | register models | as above; the A2091's bit of `uae_int_requested` is in `Native2Amiga` |
| Save states, configuration, input, archivers, Picasso96, GUIs and platform back ends | - | serialisation, parsing, mapping, pure input and output |

Most of the source is of the last kinds: ROM images as arrays, generated CPU code,
chip emulation, formats.  The parts with more than one actor are few and small, and
they are what is modelled.

`PROJECT.json` lists the same with a reason each, and under `hazards` every place
found where this code can go wrong in a way a test would hardly reach, with the
properties that watch it or the reason why none does.

## 2. Modules

```
BoundedPipe   <--refines--  CommPipe
                               |  used as a bounded FIFO by
        FilesysUnit -- Native2Amiga -- HardfileDevice -- Sana2Device -- AkikoReader
TrapCalls     <--refines--  ExtendedTrap
CiaTicks      <--refines--  Cia
RecordLocks   EventSched    Interrupts

MCNative2Amiga   three machines for Native2Amiga
MCStorage        HardfileDevice, RecordLocks or AkikoReader
MCPeripherals    Sana2Device, Cia or Interrupts

theorems:  CommPipeProof  Native2AmigaProof  ExtendedTrapProof  FilesysUnitProof
           EventSchedProof  RecordLocksProof  StorageProof  PeripheralsProof
```

`MCStorage` and `MCPeripherals` put three independent components into one run: the
variable `which` chooses, in the initial state and for good, the one whose steps a
behaviour takes; the others stand still.

The users of the pipe do not INSTANCE `CommPipe`: they use what it is
shown to implement, a queue with a capacity.  For `unit_pipe` and `back_pipe` the
assumption under which that holds (one writer thread) is visible in the actions, as
it is for the pipes of `uaehf.device` and of Akiko; for `native2amiga_pending` it is
the invariant `OneWriter`.  The network device's pipe has two writers and does
lose requests, which is the run `pipe_two_writers`; `Sana2Device` asks what is
right beyond that and takes its pipe for a FIFO.

### CommPipe, BoundedPipe

One action per shared access of `write_comm_pipe_pt` and
`read_comm_pipe_pt_blocking`; `wpc` and `rpc` are the program counters, `nxwrp`
and `rval` the locals.  The write's fast path (`if (p->reader_waiting)`) is
`WPeek` going to `"store"` with `locked` false.  An item is the stored word and
the `no_buffer` argument it came with; the code stores the word only, so the
flag is auxiliary and tells `NoStrandedReader` which items had to be delivered.
Accesses are sequentially consistent.  The indices and flags are `volatile`; the
ring itself is not, but the reader comes to a slot only after a semaphore operation
that follows the writer's.

`BoundedPipe` says what a pipe promises, `Put` and `Get` on a bounded queue.
`CommPipe` implements it with `queue` the ring's contents from `rdp` to `wrp` and
`got` the value a read is bound to return.

### FilesysUnit

The emulation thread is one actor in three roles that exclude one another: a
unit's handler process (`hpc`), the EXTER server (`ipc`), and a reset (`rpc`).
The server is not preempted by a handler process, but a handler process can be
interrupted between two of its steps, which is what `HGoto` says (`ipc = "off"`).
A host trap such as `filesys_handler` is one step of the emulation thread.  The
threads of the units run beside it in steps between their accesses to shared
state: take a command, handle and mark it, `cmds_sent++`, request the interrupt,
send back the locks.

A packet's `status` is the long word at offset 4 of its message: `unstarted` is 1,
`started` 0, `complete` negative.  `list` is the singly linked queue at `4(a3)`,
newest first, `scan` the position of `FSML_check_old` in it.  What a packet asks
for is abstracted to what matters here: it completes, or it waits for a record
lock (`waitingrecords`), or it completes and sets others free.  `RecordTimeout` is what
`record_timeout` does to a waiting packet on the emulation thread: it marks it (`timedout`,
another negative number), requests the interrupt for the signal that it sends to the
handler, and counts nothing.  The handler takes that signal for a changed volume
and does not scan, so the packet stays until the next completed one makes it scan:
`NothingForgotten` is about what the thread has completed, `TimedOutIsAnswered` about the
others.  What follows when both threads change the list of the waiting packets is the
matter of `RecordLocks`.  Volume changes are left out.  `uae_int_requested` is set
and cleared in one step here; `Native2Amiga` splits these, and for this bit alone the split makes no
difference (the server clears before it looks at the counters).

### EventSched

The scheduler is sequential but re-entrant, so the model carries the C stack:
`"cycles"` frames of `do_cycles_slow`, `"misc"` frames of `MISC_handler`,
`"body"` frames of a handler, `"place"` for the registration that runs an equal
event before it fills the slot.  A handler is any code that registers up to
`Calls` events, cancels the fixed one and returns; the CIA's sets its next time
at its end, the hsync's at its beginning.  Handlers of small events register only
lower-numbered ones: an unbounded mutual recursion of handlers at one time is no
behaviour of the chip set, whose delays are positive.  Times are modulo `W`
(`unsigned long`); `W` must be more than twice the longest delay, which is what the
code assumes when it subtracts.

### ExtendedTrap, TrapCalls

The emulation thread (`emu`), one thread per invocation, and the scheduler of Exec
(`Switch`), which may change the task whenever interrupts are not masked.  Of the
registers the model keeps the task, the depth of the stack (`a7`), what the PC
points at and the interrupt mask.  `m68k_call_handler` pushes the context's pointer
on the 68k's stack, `m68k_return_handler` takes it from there: `stack` holds what
was pushed, also above `a7`.  The return value of a 68k function is the number of
the call, so that a value that reaches the wrong caller shows.  A `Reset` may come
whenever the emulation thread executes 68k code, which is where `m68k_go` looks for
one: it leaves the trap threads where they are, `trap_mutex` as it is, and starts the
tasks afresh.  What cannot hold once a reset has come inside the critical section is
stated for the time before the reset (`AloneInside`, `TrapsNest`, `CodeRunsAgain`).

`TrapCalls` is the promise: procedure calls that nest, on one stack per task, with
no task switch inside a host function.  The mapping reads a task's calls off its stack, a
trap and the function it called for each frame, and puts on top the context that has no
frame yet (`Innermost`; there is never more than one).

### Native2Amiga

Callers write words into a bounded queue; a word knows its message, so that a
server that reads in the middle of one shows.  `|=` and `&=` on `uae_int_requested`
are a read and a write.  The server takes one word per step, so that it can sleep
inside a message.  The emulation thread is both a caller (`Emulation`) and the
server.  The A2091 adds the SCSI controller's updates of the same word, on the
emulation thread.  `machine`, chosen for good in the initial state, says how many words
the pipe has room for, whether there is an A2091, whether the machine is reset, and
how many calls each caller makes; `MCNative2Amiga` gives three.

### HardfileDevice

The emulation thread (`emu`) is in 68k code or inside a call made for one request:
it starts the thread and waits for it, places a request in the table and sends it,
waits until a request that it aborts is not in work, or holds `change_sem` and causes
change interrupts.  The thread's life is `born`, `post`, then `read`, `lock`, `do` and
so on for each request, and `die`, `dead` when it finds the 0 that the last close has
written.  `start_thread` clears table, pipe and semaphores; `Threads` numbers the ones
that were ever started.  `replies` is the pipe of `Native2Amiga` seen from here: replies
and change interrupts that the 68k has not got yet.  What a command does to the disk is
left out; there are commands that are answered at once, `CMD_ADDCHANGEINT`, which stays
in the table, and its opposite.

`add_async_request` is three steps on either thread: `Finds` a slot, `Take`s it if it was
free, without a second look, and `Mark`s its type.  With a table that is full for the
first request and free again by the time the thread does its `CMD_ADDCHANGEINT`, both
threads can take one slot.  The ghost `collided` notes that; what follows (a
request out of the table, an abort that waits for ever) is listed among the hazards.

### RecordLocks

The two loops over `waitingrecords`, `record_check_waiting` on the unit's thread and
`record_timeout` on the emulation thread, take one element per step (`check`, `frame`).
When one of them unlinks an element while the other is in the list, or looks at a
handle that is gone, the rest is undefined behaviour in C: the ghost `undefined` is set
and the model stops.  Positions and times are modulo `W`, as `uae_u32` is; times are given in 1/50 s and kept
in frames (`VblankHz`).  The code's habits are
kept: a request that became free is answered without a record, freeing a record drops
those in front of it, a time-out restarts the walk and counts others down twice.

### Sana2Device

A request goes through the unit's pipe once to be begun and once more to be
answered: whoever completes it (the interrupt server a read or a flush, the write
thread a write, an abort any) queues it again, and `dev_thread` answers what comes out
of the pipe while it is in the list `ar`.  `opener` says which program's handle a request
belongs to: a flush aborts only those of its own.

`async_sem` is `lock`.  Whoever walks through `ar` to complete requests (the server, the
write thread, a flush) takes it, and holds it until the last of them is in the pipe: `todo`
is what is still to be put there, and `Push` waits for room with the lock held.  A look,
an addition or a removal is one step that needs the lock to be free.  `calling` is a
request of `dev_beginio` or `dev_abortio`, which write into the pipe without it.  `thread`
is where `dev_thread` is with its request: `get` (is it in the list?), `reply`, `release`
(off the list) and `remove` (its packet), or `do`, `add` (into the list) and `trigger` (set
the event).  The reply comes before the removals, so the program may use the request again
in between; `s2p` therefore keeps a queue of packets per request, of which `RemPacket` takes
the first, whosever it is.  The write thread `looks` and `waits` in two steps, and its event
stays set until it is waited for.

A request that is queued twice is answered once by way of the list; the other copy finds
it listed no more and is done as a new command: answered again, or, as a write, put into
the list without a packet.  The model does all that.  `SentOnce` says of it what still
holds; the ghost `late` (a request was queued while it was on its way) is an exception for
`FlushLast` only, whose ghost `before` remembers what was sent before a flush.

### Cia, CiaTicks

`CiaTicks` is the promise, a step per E clock: two timers that count down, reload,
stop if one-shot, and of which the second may count the first's underflows.  `Cia` is
the code: a cycle passes and nothing is counted; `CIA_update` counts for all clocks
since, `CIA_calctimers` registers the event of the first underflow.  The mapping takes
the counters as `compute_passed_time` would show them now.  A clock of `CiaTicks` is
`DIV10` cycles of `Cia`.  There are two CIAs that share the one event; the other one's
events and writes appear as updates at arbitrary times.

### Interrupts

`INTREQ_0` with its early return and its three modes, the events it registers through
`event2_newevent_xx` (which runs an equal event on the spot), interrupts that are sent
with a delay, and `INTREQ_f`, which bypasses it (`INTREQ_nodelay` is never called).  `age` counts the cycles since a bit
of the register changed.  Which of the shared slots a new event finds, and so in which
order two events of one cycle come, is left open; two equal events are one.

### AkikoReader

The thread's loop with its exchange of three pairs of variables in three steps;
`cdrom_run_read` in the steps of its accesses, without the semaphore; register accesses
with it.  The data of a sector are its number, so that a wrong sector shows.  A reset
stops the thread, waits for it, and frees what it worked on.

## 3. What the runs check

| run | bounds | shows |
|---|---|---|
| `pipe` | 2 writers taking turns (`n2asem`), 1 payload, flushed or not, 3 slots, chunk 2 | refinement of `BoundedPipe`, exclusion of the fast path, no stranded reader, flushed items are delivered, writes return |
| `pipe_two_writers` | 2 writers, no lock | **violation**: two writers on the fast path lose an item |
| `filesys_unit` | 1 unit, 3 packets, limit 2, pipes of 5, any record lock timing out | one dummy message, answers at most once, nothing forgotten that the thread has completed, no pipe comes near to full, started packets are answered, timed out ones with the next |
| `filesys_unstarted` | 1 unit, 2 packets, limit 1 | **violation**: a packet beyond the limit is never started |
| `filesys_reset` | 2 units, 1 packet each, a reset at any moment | threads end before units are freed, the reset ends |
| `events` | clock modulo 5, delays 1-2, 2 shared slots, 2 kinds of handler | nothing skipped, nothing overwritten, the tables settle, every call comes back |
| `traps` | 2 tasks, 3 invocations, 2 calls each, 1 reset | one thread has the 68k and values reach their callers, also across a reset; until there is one, no other code runs inside the critical section, calls nest as `TrapCalls` says, and 68k code runs again |
| `traps_reset` | 2 tasks, 2 invocations, 1 call, 1 reset | **violation**: a reset inside the critical section leaves `trap_mutex` taken |
| `calls` | three machines: 2 threads with 2 calls each and 3 words of room; a thread and the emulation thread with an A2091; the same with a reset | one writer at a time on all three; whole messages, no interrupt missing, calls return and are made where neither reset nor A2091 is in the way |
| `calls_a2091` | 2 threads, A2091 | **violation**: the A2091's update of the word loses a request |
| `storage` | hard file: 2 requests, a table of 1 slot, room for 3 messages, 1 close; locks: 2 handles, 2 packets, 2 records each, a range and one inside it, time-outs 0 and 2, 60 Hz; CD: 2 sectors, buffers of 2, 2 tries, 1 failed read | one reader; all waits end and all commands are answered unless two threads take one slot; no conflicting records, who waits is answered; right sectors, no freed buffers, every sector comes, the reset ends |
| `peripherals` | network: 2 requests, 1 or 2 openers, the pipe of 99, nothing new while one is queued; CIA: latches 0 and 1, start delays 1, 2 cycles a clock; INTREQ: 2 bits, 3 slots, delay 2 | packets sent once, flushes last, writes answered; refinement of `CiaTicks`, the assertions of `cia.c`; the CPU sees every change in time |

The bounds are small on purpose and enough for the interesting cases: a ring of
three slots is full, empty and wraps within a few writes; three packets (numbered in
the order they are sent) with a limit of two have one deferred, one queued and one
in work at the same time; a clock modulo five wraps with delays of two; three traps
on two tasks nest two deep on one while the other is suspended in a call; a pipe of
three words is full in the middle of the second message; a table of one slot overflows
with two requests, and both threads can find its slot free; `Traffic` = 1 lets a request be
queued by `dev_beginio` or an abort, a second by the write thread or a flush and a third by the
lock's holder, so that requests are late, copies run as new commands and the event is set while
the write thread is between look and wait, yet the 99 words are never full (`WriteEnds` fails
with a `Room` of 1: a thread that waits for room with `async_sem` held is a deadlock, listed
among the hazards); two tries and one failure show a sector given again, asked for
again and read again.  `StartHi` and `StartCr` are 3 and 2 in the code and only have to
be more than none.  `PipeRoom` and `BackRoom`
are larger than what `PipesNeverFill` allows, so that the limit and not the room is
what keeps the pipes from filling: `unit_pipe` holds at most the limit and a death
message, `back_pipe` at most twice the limit and one, because a lock may be sent back
for a packet already answered and the thread may be about to send one more (in the code
21 of 33 commands and 41 of 99 words).  The last of these takes more packets to reach
than the run has; the theorem is about any number.

Some properties are stated up to a point where they are known not to hold, each
marked by a bound, by the machine, or by a ghost variable, and listed among the
hazards:

* a reset inside the EXTER server leaves its semaphore taken: `StartedIsAnswered` fails with
  `MaxResets = 1` in `FilesysUnit_unit.cfg`;
* a reset cuts a message to Exec in two, and the A2091 loses a request:
  `MessagesWhole`, `EnoughInterrupts` and `CallsAreMade` except the machines that have these;
* `hurried`: `uaehf.device` used again before its old thread has read the 0.  The request
  then waits for a thread that dies, or its memory is cleared under a living one.  Until the
  old thread has posted its two semaphores even an open may take its post for the new thread's;
* `collided`: both threads have taken one slot of its table of requests;
* `undefined`: both threads in the list of record locks, one of them changing it;
* `torn`: Akiko's buffers exchanged during `cdrom_run_read`.  Without it `BuffersSound`
  fails: the 68k gets the data of another sector;
* `late` (for `FlushLast` only): a request of the network device queued twice, aborted when
  complete, or a read or flush that the server has queued without marking it.  The second copy
  is a command that nobody sent;
* `WriteEnds` leaves out a write whose packet the thread may still remove for the request's
  last use, and a `Room` that fills up;
* `NothingForgotten` leaves out a packet whose record lock timed out;
* `overtaken`: `INTREQ_f` has overwritten `intreq_internal`, or an older snapshot comes
  after a newer value (an immediate clear above a 68020, two snapshots of one cycle in
  different slots), or the table was full;
* `Seen` and `NoConflict` besides take the code's own limits: the delay, and records that
  end before the last position.

`CHECK_DEADLOCK FALSE` is set in three runs in which the system really can stop: `traps`
(after a reset inside the critical section), `calls` (the server waits for the rest of a
message that a reset has cut) and `storage` (a device reopened too early waits for a
thread that is gone; the record locks stop at what is undefined).

The violations are disagreements between the code and its own comments; they are
listed with the quoted lines under `findings`.

### Fairness

* The pipe: each thread's steps (`WF`), and a reader that calls read again, as the
  loop of every reader thread does.  Nobody has to write.
* Units: weak fairness for the threads, for each handler process, for the EXTER
  server and for a reset that has begun.  Nobody has to send.
* Events: only that a call in progress goes on (`Machine`); what the 68k and
  the handlers register is free.
* Traps: the threads run and host functions end; the emulation thread goes on when
  it can.  What 68k code does, and whether a function it calls returns, is not
  assumed; `CodeRunsAgain` holds without.
* Calls: weak fairness for the server and the callers, strong fairness for taking
  `n2asem`: the semaphores of the back ends are pthread or SDL ones, and without it
  one caller could overtake another for ever.
* `storage`: the emulation thread goes on, and so does the thread of the unit or the
  drive (`WF`); who waits for `change_sem` or `akiko_sem` gets it (`SF`); the hsync handler
  calls `cdrom_run_read` again and again, also when it is not always the time for it (`SF`);
  frames come and `record_timeout` ends (`WF`).  What programs ask for is free.  As only one
  component moves in a behaviour, one condition on a step of any of the three is one on
  each.
* `peripherals`: what has begun to queue a request goes on, and so does the write thread when
  its event is set (`WF`); who waits for `async_sem` gets it, the unit's thread for its next step
  and the write thread for each write that it may take (`SF`).  The semaphore is a mutex of the
  host, and the write thread always takes the first write of the list that has a packet.
  Nobody has to send, and no packet has to come.  The CIA and INTREQ are looked at for safety
  only.

## 4. What is proved

Every safety invariant, every action property and every refinement that a passing run
checks is a theorem about the same specification, for every value of the constants that
the module's named assumption allows.  What the runs add is liveness, the
counterexamples, and that the interesting cases occur.

Each proof has the same layout.  The invariant is not inductive; the proof module defines
the strengthening `IInv` in named parts, and there are `Init => IInv`, one lemma per action or group of actions that `IInv` is kept
(a step for each part that the action can disturb), and `IInv => ...` for each theorem.
Sequences are the laborious part: `Holds`, `Distinct` and small lemmas on what an
`Append`, a `Tail` or a removal leaves are stated once per module.

| theorem | of the specification | shows |
|---|---|---|
| `PipeInvariant`, `PipeTypes`, `PipeExclusion`, `PipeIsFifo`, `NobodyStrandsReader` | `CommPipe` | `TypeOK`, `RingExclusion`, `Fifo`, `NoStrandedReader` |
| `CallInvariant`, `CallersTakeTurns`, `MessagesArriveWhole`, `InterruptsAreEnough` | `Native2Amiga` | `OneWriter`, `MessagesWhole`, `EnoughInterrupts` |
| `TrapInvariant`, `TrapTypes`, `OneThreadHasThe68k`, `CodeRunsOutside`, `CallsReturnOwnValue`, `TrapsNestAsCalls` | `ExtendedTrap` | `TypeOK`, `OneHasThe68k`, `AloneInside`, `OwnValue`, `TrapsNest` |
| `UnitInvariant`, `DummyIsQueuedOnce`, `EveryAnswerIsTheOnlyOne`, `EveryCompletionIsSeen`, `LimitKeepsPipesFree`, `ThreadDiesFirst` | `FilesysUnit` | `OneDummy`, `AnsweredOnce`, `NothingForgotten`, `PipesNeverFill`, `UnitOutlivesThread` |
| `SchedInvariant`, `SchedTypes`, `SettledWhen68kRuns`, `ClockStopsAtEvents`, `PendingEventsStay` | `EventSched` | `TypeOK`, `SettledAtCpu`, `NothingSkipped`, `NothingLost` |
| `RecordHitIsOverlap`, `NoConflictHolds` | `RecordLocks` | `HitIsOverlap`, `NoConflict` |
| `PipeHasOneReader`, `LocksNeverConflict`, `RightSectorsOnly` | `MCStorage` | `OneReader`, `NoConflict`, `BuffersSound` |
| `CpuSeesInTime`, `EventIsInTime`, `TimersImplementTicks`, `PacketsAreSentOnce`, `FlushIsLast` | `MCPeripherals` | `Seen`, `Asserted`, `TimersTick`, `SentOnce`, `FlushLast` |

### The pipe

For every `Size` of at least 2, every `Chunks` below it (`PipeAssumption`) and every set of
payloads, under the hypothesis `OneWriter == Exclusive \/ \A v, w \in Writers : v = w`:
there is at most one writer thread, or any number that never overlap two writes, as under
`n2asem`.

`RingExclusion` is not inductive: that the writer may skip the lock depends on where
the reader is when its flag is set, and that neither side needs a second test after
its wait depends on what the other did before its post.  The invariant `IInv` says
for each position of either thread which flags and semaphore counts go with it: the
lock's count is one less for each thread that holds it; a writer in its fast path has
the reader between `"release"` and `"wait"` with nothing posted; a reader that has
been posted finds an item, a writer that has been posted finds a free slot;
`nxwrp` is still the successor of `wrp`; the slots from `rdp` to `wrp` hold items.
For the refinement there are lemmas about `%` and about the contents of the ring after a
store and after an advance.  `NobodyStrandsReader` adds `WakeInv`: a reader that is
asleep has its flag up, a token, or a writer about to post; and while the flag is up
each item in the ring is one that may wait, or its writer has still to decide.
`OneWriter` is needed: the run `pipe_two_writers` is the counterexample without it.

### Calls of Exec

For every set of worker threads and every machine (`CallAssumption`): any room of at least
one word, any numbers of calls and resets, with and without an A2091.  `Semaphore` ties
`n2asem` to who is inside; `Requested` says that words in the pipe have their bit set or a
caller inside that has still to set it; `Whole` says that along the pipe each word is
followed by the one that belongs there, that its end fits the word to be written next and
its head the word read last.  `MessagesWhole` and `EnoughInterrupts` exempt the machines with
a reset and with an A2091, in which they do not hold (`calls_a2091`).

### Extended traps

For all `Tasks`, `NContexts`, `MaxCalls` and `MaxResets` (`TrapAssumption`).  `HandOver`
says who has the 68k: the emulation thread waits for exactly one context, which is in one
of five situations that each fix its semaphores and the trap the PC is at, and every other
context rests with both semaphores empty.  `Mutex` relates `trap_mutex` to that, one way
only after a reset; `Values` and `Frames` say whose frames lie on the stacks: each belongs
to a context that waits for that very call, at the depth at which the context was invoked.
No two frames are of one context, so that a stack is never deeper than there are contexts
(`RoomForFrame`, by the pigeonhole principle).

`TrapsNestAsCalls` is the refinement of `TrapCalls`.  Besides `IInv` it needs `Covered`,
that until a reset every context in work is on a stack or is the one that the emulation
thread serves (`Inner`).  Then what is called on a task is its frames and at most
one trap more (`WhatIsCalled`), an invocation pushes a trap, a call a function, and a return
and an exit take just these off again; all other steps change nothing that
`TrapCalls` sees.  After a reset the mapping is constant: nothing is promised.

### Units of the file system

For any number of units, packets, resets, any limit and any room of the pipes
(`UnitAssumption`).  `Handled` and `Threaded` say where a packet may be, which is in one place of
the handler process and at most one of the thread, and which status goes with it;
`Counted` that `d5` is the number of started packets in the list; `Locks` adds
the commands and locks under way and keeps the sum below twice the limit and one;
`Dummies` relates `cmds_acked` and `cmds_complete` to the dummy message; `Told` that a packet in the list that the
thread has completed has somebody about to make the handler look, or a scan that will
still come to it; `Reaper` how far the death of a thread is.  `NothingForgotten` holds
because `Told` leaves nobody when all are at rest; a time-out marks a packet without anybody
being about to look, so `Told` cannot say it of those, and `TimedOutIsAnswered` is liveness.

### Event scheduling

For any clock width `W` above twice the delays, any number of slots, kinds of handler and
calls a handler makes (`SchedAssumption`).  The C stack is part of the
invariant: calls nest (`Nested`), the `"place"` frames have a slot that is
still theirs (`PlaceOK`), and a walk of `MISC_handler` has a `mintime` that covers what it has
passed unless it is going to walk again (`ScanOK`).  `MainOK` and `SmallOK` are the
minimum properties of `nextevent` and `ev_misc`; the second rests while `recursive` is set.
All comparisons are of distances modulo `W` from `currcycle` (`Until`), with a few lemmas about
`%` in front.

### Record locks

For every `W`, all sets of handles and packets, and all ranges below `W`
(`RecordAssumption`).  `RecordHitIsOverlap` says that the four comparisons of `record_hit`
find two ranges that end before the last position exactly if they have a byte in common;
for `W = 8` TLC evaluates the same as an assumption of `MCStorage`.  For `NoConflict` the invariant
adds the types of the lists and that a closed handle has no records; a step either adds one
record that `record_hit` has compared with all of the other handles, or takes some away.

### MCStorage and MCPeripherals

The theorems are about the composition that the runs check; since the components do not share
variables, each has an invariant of its own, and the steps of the others stutter.

* Hard file (`HardfileAssumption`; `Die` is not a request): unless `hurried` (a call came between
  a close and the old thread's last post), at most one
  thread lives, and one that is being born finds the emulation thread waiting for it.
* CD (`AkikoAssumption`): between the three exchanges each field is that of the old or the new
  buffer (`BuffersOK`); unless `torn`, `cdrom_run_read` knows which sector is in front of it
  (`ReaderOK`); the buffers are freed only when the thread has ended (`StopOK`).
* INTREQ (`InterruptsAssumption`): for each bit, either all snapshots under way and the CPU have
  its present value, or the snapshot of its last change is still to come and comes in time
  (`BitOK`), unless `overtaken`.
* CIA (`CiaAssumption`; there is a highest latch value, which a counter starts from): the event is never later than
  the earliest underflow and equal to one of them.  For the refinement `DivIs` and
  `AfterIs` say what counting all clocks at once does, compared to counting each.
* Network (`Sana2Assumption`; finitely many requests, at least one way to open the unit):
  `WireOK` holds whatever is queued how often: a sent packet is the first of its request, which
  is ready or whose packet the thread is about to remove; a request that the thread begins is not in
  the list.  Unless `late`, a request is in one place (`ThreadOK`, `PipeOK`, `SentOK`), and what a
  flush has to wait for is in the list, with the thread or ahead of it in the pipe (`BeforeOK`).

### Only model-checked

* All liveness properties: `FlushDelivered`, `WriteReturns`, `StartedIsAnswered`,
  `TimedOutIsAnswered`, `ResetEnds`, `ComesBack`, `CodeRunsAgain`, `CallsReturn`, `CallsAreMade`,
  `GoesOn`, `CommandsAnswered`, `WaitEnds`, `Serves`, `WriteEnds`.  The prover does not do
  liveness under fairness, nor `ENABLED`.
* The four violations, which are TLC's to find.
* What a recursive definition computes for every input: induction over data is out of the
  prover's reach as well.  No module has a RECURSIVE operator, so that all stay open to proofs.
* `TypeOK` of `FilesysUnit`, whose bounds are tighter than the types in `UnitInvariant`.  It
  stays out of the two configurations, where it would say little beside the invariants they
  have; TLC finds it to hold under both.

## 5. Plan

Done: `CommPipe`, `FilesysUnit`, `EventSched`, `ExtendedTrap`, `Native2Amiga`,
`HardfileDevice`, `RecordLocks`, `Sana2Device`, `Interrupts`, `Cia`, `AkikoReader`; the
proofs of all their safety properties and of the three refinements.  The runs are kept few,
one for each distinct question; a later module joins a run that exists.

1. Proofs: the types of `FilesysUnit` with their bounds; what is known after a reset of
   `ExtendedTrap` beyond `OwnValue`; the pipe of `FilesysUnit` and of `Native2Amiga` as
   instances of `BoundedPipe`.
2. Models: `hardfile_reset` with a thread that lives through it; the unpack thread of
   `blkdev_cdimage.c`; the unit semaphore of `blkdev.c`; the CD thread of `cdtv.c`.

## 6. Checking

    tlc -workers 2 -config CommPipe_fifo.cfg CommPipe      # a run, see PROJECT.json
    tlc -workers 2 -config Storage.cfg MCStorage           # a few minutes
    for m in *Proof.tla; do tlapm $m; done                 # the proofs, some ten minutes
