------------------------------ MODULE CommPipe ------------------------------
(***************************************************************************)
(* The user-level pipe two emulator threads talk through                   *)
(* (src/include/commpipe.h), one action per shared access of the code.     *)
(*                                                                         *)
(* An item is the uae_pt that goes into the ring together with the         *)
(* no_buffer argument of the write that puts it there; the code stores     *)
(* only the former, so the flag of a stored item is auxiliary.             *)
(***************************************************************************)
EXTENDS Naturals, Sequences

CONSTANTS
  Writers,    \* the threads that call write_comm_pipe_pt
  Msgs,       \* the payloads
  Size,       \* the size argument of init_comm_pipe
  Chunks,     \* the chunks argument of init_comm_pipe
  Exclusive   \* TRUE: callers never overlap two writes (one writer thread, or
              \* a lock such as native2amiga.c's n2asem around the calls)

ASSUME PipeAssumption ==
  /\ Size \in Nat \ {0, 1}
  /\ Chunks \in 1 .. Size - 1
  /\ Exclusive \in BOOLEAN

Items == [msg : Msgs, no_buffer : BOOLEAN]
None == <<>>
Slots == 0 .. Size - 1

VARIABLES
  data, rdp, wrp,                   \* the ring and its two indices
  reader_waiting, writer_waiting,   \* the two flags
  lock, reader_wait, writer_wait,   \* the three semaphores' counts
  wpc, wdata, nxwrp,                \* per writer: where it is, its arguments, its local
  locked,                           \* per writer: it is past a sem_wait(lock)
  rpc, rval, got                    \* the reader: where it is, its local, its last result

ringVars == <<data, rdp, wrp>>
flagVars == <<reader_waiting, writer_waiting>>
semVars == <<lock, reader_wait, writer_wait>>
writerVars == <<wpc, wdata, nxwrp, locked>>
readerVars == <<rpc, rval, got>>
vars == <<ringVars, flagVars, semVars, writerVars, readerVars>>

(* init_comm_pipe; the ring is malloc'ed, so its contents are arbitrary and  *)
(* None stands for every value that was never written.                      *)
Init ==
  /\ data = [i \in Slots |-> None]
  /\ rdp = 0 /\ wrp = 0
  /\ reader_waiting = FALSE /\ writer_waiting = FALSE
  /\ lock = 1 /\ reader_wait = 0 /\ writer_wait = 0
  /\ wpc = [w \in Writers |-> "idle"]
  /\ wdata = [w \in Writers |-> None]
  /\ nxwrp = [w \in Writers |-> 0]
  /\ locked = [w \in Writers |-> FALSE]
  /\ rpc = "idle" /\ rval = None /\ got = None

(* (p->wrp - p->rdp + p->size) % p->size: how many items wait to be read.    *)
Used == (wrp + Size - rdp) % Size

-----------------------------------------------------------------------------
(* write_comm_pipe_pt                                                        *)

WGoto(w, from, to) == wpc[w] = from /\ wpc' = [wpc EXCEPT ![w] = to]

\* The call: nxwrp is computed before any lock is taken.
WCall(w) ==
  /\ Exclusive => \A x \in Writers : wpc[x] = "idle"
  /\ WGoto(w, "idle", "peek")
  /\ \E item \in Items : wdata' = [wdata EXCEPT ![w] = <<item>>]
  /\ nxwrp' = [nxwrp EXCEPT ![w] = (wrp + 1) % Size]
  /\ UNCHANGED <<ringVars, flagVars, semVars, locked, readerVars>>

\* Mutant: the fast path is taken whether or not the reader sleeps.
Mut_WPeek(w) ==
  /\ WGoto(w, "peek", "store")
  /\ UNCHANGED <<ringVars, flagVars, semVars, wdata, nxwrp, locked, readerVars>>

\* if (p->reader_waiting): no locking
WPeek(w) ==
  /\ WGoto(w, "peek", IF reader_waiting THEN "store" ELSE "lock")
  /\ UNCHANGED <<ringVars, flagVars, semVars, wdata, nxwrp, locked, readerVars>>

WLock(w) ==
  /\ WGoto(w, "lock", "full")
  /\ lock > 0 /\ lock' = lock - 1
  /\ locked' = [locked EXCEPT ![w] = TRUE]
  /\ UNCHANGED <<ringVars, flagVars, reader_wait, writer_wait, wdata, nxwrp, readerVars>>

\* Mutant: a full pipe is not noticed.
Mut_WFull(w) ==
  /\ WGoto(w, "full", "store")
  /\ UNCHANGED <<ringVars, flagVars, semVars, wdata, nxwrp, locked, readerVars>>

\* if (nxwrp == p->rdp): pipe full
WFull(w) ==
  /\ WGoto(w, "full", IF nxwrp[w] = rdp THEN "setwait" ELSE "store")
  /\ UNCHANGED <<ringVars, flagVars, semVars, wdata, nxwrp, locked, readerVars>>

WSetWaiting(w) ==
  /\ WGoto(w, "setwait", "release")
  /\ writer_waiting' = TRUE
  /\ UNCHANGED <<ringVars, reader_waiting, semVars, wdata, nxwrp, locked, readerVars>>

WRelease(w) ==
  /\ WGoto(w, "release", "wait")
  /\ lock' = lock + 1
  /\ locked' = [locked EXCEPT ![w] = FALSE]
  /\ UNCHANGED <<ringVars, flagVars, reader_wait, writer_wait, wdata, nxwrp, readerVars>>

WWait(w) ==
  /\ WGoto(w, "wait", "relock")
  /\ writer_wait > 0 /\ writer_wait' = writer_wait - 1
  /\ UNCHANGED <<ringVars, flagVars, lock, reader_wait, wdata, nxwrp, locked, readerVars>>

\* The second sem_wait(lock); the code does not look at rdp again.
WRelock(w) ==
  /\ WGoto(w, "relock", "store")
  /\ lock > 0 /\ lock' = lock - 1
  /\ locked' = [locked EXCEPT ![w] = TRUE]
  /\ UNCHANGED <<ringVars, flagVars, reader_wait, writer_wait, wdata, nxwrp, readerVars>>

WStore(w) ==
  /\ WGoto(w, "store", "advance")
  /\ data' = [data EXCEPT ![wrp] = wdata[w]]
  /\ UNCHANGED <<rdp, wrp, flagVars, semVars, wdata, nxwrp, locked, readerVars>>

WAdvance(w) ==
  /\ WGoto(w, "advance", "wake")
  /\ wrp' = nxwrp[w]
  /\ UNCHANGED <<data, rdp, flagVars, semVars, wdata, nxwrp, locked, readerVars>>

\* Mutant: > for >= in the chunk test.
Mut_WWake_Chunks(w) ==
  /\ WGoto(w, "wake", IF reader_waiting /\ (wdata[w][1].no_buffer \/ Used > Chunks)
                      THEN "clear" ELSE "leave")
  /\ UNCHANGED <<ringVars, flagVars, semVars, wdata, nxwrp, locked, readerVars>>

\* Mutant: no_buffer is ignored.
Mut_WWake_Buffer(w) ==
  /\ WGoto(w, "wake", IF reader_waiting /\ Used >= Chunks THEN "clear" ELSE "leave")
  /\ UNCHANGED <<ringVars, flagVars, semVars, wdata, nxwrp, locked, readerVars>>

\* maybe_wake_reader: the test, the reset of the flag, the post.
WWake(w) ==
  /\ WGoto(w, "wake", IF reader_waiting /\ (wdata[w][1].no_buffer \/ Used >= Chunks)
                      THEN "clear" ELSE "leave")
  /\ UNCHANGED <<ringVars, flagVars, semVars, wdata, nxwrp, locked, readerVars>>

WClear(w) ==
  /\ WGoto(w, "clear", "post")
  /\ reader_waiting' = FALSE
  /\ UNCHANGED <<ringVars, writer_waiting, semVars, wdata, nxwrp, locked, readerVars>>

WPost(w) ==
  /\ WGoto(w, "post", "leave")
  /\ reader_wait' = reader_wait + 1
  /\ UNCHANGED <<ringVars, flagVars, lock, writer_wait, wdata, nxwrp, locked, readerVars>>

\* return; the slow path posts the lock first.
WLeave(w) ==
  /\ WGoto(w, "leave", "idle")
  /\ lock' = IF locked[w] THEN lock + 1 ELSE lock
  /\ locked' = [locked EXCEPT ![w] = FALSE]
  /\ wdata' = [wdata EXCEPT ![w] = None]
  /\ UNCHANGED <<ringVars, flagVars, reader_wait, writer_wait, nxwrp, readerVars>>

-----------------------------------------------------------------------------
(* read_comm_pipe_pt_blocking                                                *)

RGoto(from, to) == rpc = from /\ rpc' = to

RLock ==
  /\ RGoto("idle", "empty")
  /\ lock > 0 /\ lock' = lock - 1
  /\ UNCHANGED <<ringVars, flagVars, reader_wait, writer_wait, writerVars, rval, got>>

REmpty ==
  /\ RGoto("empty", IF rdp = wrp THEN "setwait" ELSE "take")
  /\ UNCHANGED <<ringVars, flagVars, semVars, writerVars, rval, got>>

RSetWaiting ==
  /\ RGoto("setwait", "release")
  /\ reader_waiting' = TRUE
  /\ UNCHANGED <<ringVars, writer_waiting, semVars, writerVars, rval, got>>

RRelease ==
  /\ RGoto("release", "wait")
  /\ lock' = lock + 1
  /\ UNCHANGED <<ringVars, flagVars, reader_wait, writer_wait, writerVars, rval, got>>

RWait ==
  /\ RGoto("wait", "relock")
  /\ reader_wait > 0 /\ reader_wait' = reader_wait - 1
  /\ UNCHANGED <<ringVars, flagVars, lock, writer_wait, writerVars, rval, got>>

\* The second sem_wait(lock); the code does not test for data again.
RRelock ==
  /\ RGoto("relock", "take")
  /\ lock > 0 /\ lock' = lock - 1
  /\ UNCHANGED <<ringVars, flagVars, reader_wait, writer_wait, writerVars, rval, got>>

RTake ==
  /\ RGoto("take", "advance")
  /\ rval' = data[rdp]
  /\ UNCHANGED <<ringVars, flagVars, semVars, writerVars, got>>

\* rdp moves on; from here the call is bound to return rval.
RAdvance ==
  /\ RGoto("advance", "wake")
  /\ rdp' = (rdp + 1) % Size
  /\ got' = rval
  /\ UNCHANGED <<data, wrp, flagVars, semVars, writerVars, rval>>

\* Mutant: the reader never wakes a writer that waits for room.
Mut_RWake ==
  /\ RGoto("wake", "leave")
  /\ UNCHANGED <<ringVars, flagVars, semVars, writerVars, rval, got>>

RWake ==
  /\ RGoto("wake", IF writer_waiting THEN "clear" ELSE "leave")
  /\ UNCHANGED <<ringVars, flagVars, semVars, writerVars, rval, got>>

RClear ==
  /\ RGoto("clear", "post")
  /\ writer_waiting' = FALSE
  /\ UNCHANGED <<ringVars, reader_waiting, semVars, writerVars, rval, got>>

RPost ==
  /\ RGoto("post", "leave")
  /\ writer_wait' = writer_wait + 1
  /\ UNCHANGED <<ringVars, flagVars, lock, reader_wait, writerVars, rval, got>>

RLeave ==
  /\ RGoto("leave", "idle")
  /\ lock' = lock + 1
  /\ rval' = None
  /\ UNCHANGED <<ringVars, flagVars, reader_wait, writer_wait, writerVars, got>>

-----------------------------------------------------------------------------
\* What a writer does between the call and the return.
WStep(w) ==
  \/ WPeek(w) \/ WLock(w) \/ WFull(w) \/ WSetWaiting(w) \/ WRelease(w)
  \/ WWait(w) \/ WRelock(w) \/ WStore(w) \/ WAdvance(w)
  \/ WWake(w) \/ WClear(w) \/ WPost(w) \/ WLeave(w)

Read ==
  \/ RLock \/ REmpty \/ RSetWaiting \/ RRelease \/ RWait \/ RRelock
  \/ RTake \/ RAdvance \/ RWake \/ RClear \/ RPost \/ RLeave

Next == Read \/ \E w \in Writers : WCall(w) \/ WStep(w)

Spec == Init /\ [][Next]_vars

\* Threads run; a reader thread's loop calls read again and again; nobody has
\* to call write.
FairSpec == Spec /\ WF_vars(Read) /\ \A w \in Writers : WF_vars(WStep(w))

-----------------------------------------------------------------------------
Places == {"idle", "peek", "lock", "full", "setwait", "release", "wait", "relock",
           "store", "advance", "wake", "clear", "post", "leave"}
RPlaces == {"idle", "empty", "setwait", "release", "wait", "relock",
            "take", "advance", "wake", "clear", "post", "leave"}
Cells == {<<item>> : item \in Items} \cup {None}

(* The types; every semaphore is binary, so that no sem_post is ever one too *)
(* many and no wake-up is counted twice.                                     *)
TypeOK ==
  /\ data \in [Slots -> Cells]
  /\ rdp \in Slots /\ wrp \in Slots
  /\ reader_waiting \in BOOLEAN /\ writer_waiting \in BOOLEAN
  /\ lock \in {0, 1} /\ reader_wait \in {0, 1} /\ writer_wait \in {0, 1}
  /\ wpc \in [Writers -> Places]
  /\ wdata \in [Writers -> Cells]
  /\ nxwrp \in [Writers -> Slots]
  /\ locked \in [Writers -> BOOLEAN]
  /\ rpc \in RPlaces
  /\ rval \in Cells /\ got \in Cells

Pending == [i \in 1 .. Used |-> data[(rdp + i - 1) % Size][1]]

Abstract == INSTANCE BoundedPipe WITH
              Capacity <- Size - 1, queue <- Pending, got <- got

(* The pipe is a bounded FIFO: what the reader gets is what was written, in  *)
(* the order it was written, no write overwrites an unread item and no read  *)
(* returns a slot that holds none (write_comm_pipe_pt and                    *)
(* read_comm_pipe_pt_blocking, neither of which re-tests after its wait).    *)
Fifo == Abstract!PipeSpec

(* A reader asleep on reader_wait with every writer back in its own code has *)
(* nothing it should have been woken for: no item written with no_buffer and *)
(* fewer than chunks items (maybe_wake_reader, called from both paths).      *)
NoStrandedReader ==
  (rpc = "wait" /\ reader_wait = 0 /\ \A w \in Writers : wpc[w] = "idle")
    => Used < Chunks /\ \A i \in 1 .. Used : ~Pending[i].no_buffer

(* The writer's fast path works on the ring and the flags without the lock.  *)
(* It may do so only because the reader sleeps meanwhile: no writer and      *)
(* reader are ever both inside their critical section, locked or not (the    *)
(* claim of the comment "No need to do all the locking").                    *)
WCritical(w) == wpc[w] \in {"full", "setwait", "store", "advance", "wake", "clear", "post"}
RCritical == rpc \in {"empty", "setwait", "take", "advance", "wake", "clear", "post"}
RingExclusion == \A w \in Writers : ~(WCritical(w) /\ RCritical)

(* An item written with no_buffer is eventually read, whatever the writer    *)
(* does afterwards, and a call of write_comm_pipe_pt eventually returns, the *)
(* full pipe included.                                                       *)
FlushAt(s) == \E i \in 1 .. Used : (rdp + i - 1) % Size = s /\ Pending[i].no_buffer
FlushDelivered == \A s \in Slots : FlushAt(s) ~> ~FlushAt(s)
WriteReturns == \A w \in Writers : wpc[w] # "idle" ~> wpc[w] = "idle"
=============================================================================
