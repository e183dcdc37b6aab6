--------------------------- MODULE HardfileDevice ---------------------------
(***************************************************************************)
(* One unit of uaehf.device (hardfile.c): 68k programs hand it requests,   *)
(* the unit's thread takes them from a comm pipe, does them and replies.   *)
(* A table of the pending requests is read and written by both threads     *)
(* without a lock.  add_async_request looks for a slot, stores the request *)
(* and stores its type in three steps, release_async_request clears the    *)
(* request and then its type; to walk through the table is one step.       *)
(* A reply and a call of a change interrupt are messages of Native2Amiga,  *)
(* which only the emulation thread takes out, and only in 68k code.        *)
(***************************************************************************)
EXTENDS Naturals, Sequences, FiniteSets, SequencesExt

CONSTANTS
  Requests,    \* the requests of the programs that use the unit
  Slots,       \* the entries of d_request (MAX_ASYNC_REQUESTS, 50)
  Room,        \* how many messages fit into native2amiga's pipe
  MaxCloses,   \* bound: how often the device is closed for good
  None         \* no request, no slot

Die == "die"                             \* the 0 that hardfile_close writes

HardfileAssumption ==
  /\ None \notin Requests \cup Slots /\ Die \notin Requests \cup {None} /\ Slots # {}
  /\ Room \in Nat \ {0} /\ MaxCloses \in Nat

Threads == 1 .. 1 + 2 * MaxCloses
Sent == {"io", "add", "rem"}             \* a command that is answered at once,
                                         \* CMD_ADDCHANGEINT, CMD_REMCHANGEINT

VARIABLES
  emu,          \* the emulation thread: in "68k" code, or inside a call for a request
  unit,         \* thread_running, sync_sem, the open count, change_sem
  d_request, d_request_type,
  requests,     \* the comm pipe
  thread,       \* per thread: where it is, its request, the slot it releases
  status,       \* per request: its program's "own", sent, "listening" or "replied"
  replies,      \* messages that the 68k has not got yet
  closes,       \* how often the device was closed
  hurried,      \* ghost: was the device used again before its thread had ended?
  collided      \* ghost: was a request stored in a slot that was no longer free?

table == <<d_request, d_request_type>>
ghosts == <<hurried, collided>>
vars == <<emu, unit, table, requests, thread, status, replies, closes, ghosts>>

Nowhere == [at |-> "none", req |-> None, slot |-> None]
In68k == [at |-> "68k", call |-> "none", req |-> None, slot |-> None, todo |-> {}]

Init ==
  /\ emu = In68k
  /\ unit = [running |-> FALSE, sync |-> 0, opens |-> 0, change |-> 1]
  /\ d_request = [s \in Slots |-> None] /\ d_request_type = [s \in Slots |-> "none"]
  /\ requests = <<>>
  /\ thread = [t \in Threads |-> Nowhere]
  /\ status = [r \in Requests |-> "own"] /\ replies = <<>> /\ closes = 0
  /\ hurried = FALSE /\ collided = FALSE

SlotsOf(r) == {s \in Slots : d_request[s] = r}

\* add_async_request finds the slot of the request, or else a free one, or none;
\* what it does next, "take" the slot first or "mark" its type.
Finds(r) ==
  IF SlotsOf(r) # {} THEN {"mark"} \X SlotsOf(r)
  ELSE IF SlotsOf(None) # {} THEN {"take"} \X SlotsOf(None)
  ELSE {<<"full", None>>}

\* It stores the request, and does not look again whether the slot is still free.
Take(s, r) ==
  /\ d_request' = [d_request EXCEPT ![s] = r]
  /\ collided' = (collided \/ d_request[s] # None)
  /\ UNCHANGED d_request_type

Mark(s, type) ==
  d_request_type' = [d_request_type EXCEPT ![s] = type] /\ UNCHANGED d_request

-----------------------------------------------------------------------------
(* Calls of 68k code.  All but close start the thread if it does not run.    *)

Dying ==
  \/ \E i \in DOMAIN requests : requests[i] = Die
  \/ \E t \in Threads : thread[t].req = Die

Goto(at) == emu' = [emu EXCEPT !.at = at]

\* Bound: no further calls once a ghost is set; the properties say nothing of them.
Call(call, r) ==
  /\ emu.at = "68k" /\ ~hurried /\ ~collided
  /\ \/ call = "open" /\ r = None
     \/ call \in Sent /\ unit.opens > 0 /\ r \in Requests
        /\ status[r] = IF call = "rem" THEN "listening" ELSE "own"
     \/ call = "abort" /\ unit.opens > 0 /\ r \in Requests /\ status[r] # "own"
  /\ emu' = [emu EXCEPT !.at = "start", !.call = call, !.req = r]
  /\ hurried' = (hurried \/ Dying)
  /\ UNCHANGED <<unit, table, requests, thread, status, replies, closes, collided>>

Running == emu.at = "start" /\ unit.running /\ Goto("call")
           /\ UNCHANGED <<unit, table, requests, thread, status, replies, closes, ghosts>>

\* Mutant: the new thread is not waited for.
Mut_WaitForStart == Goto("call")

WaitForStart == Goto("sync")

\* start_thread: memset, a new pipe, a new semaphore, a new thread.
Start ==
  /\ emu.at = "start" /\ ~unit.running
  /\ WaitForStart
  /\ \E t \in Threads :
       /\ thread[t].at = "none" /\ \A x \in Threads : x < t => thread[x].at # "none"
       /\ thread' = [thread EXCEPT ![t].at = "born"]
  /\ unit' = [unit EXCEPT !.sync = 0]
  /\ d_request' = [s \in Slots |-> None] /\ d_request_type' = [s \in Slots |-> "none"]
  /\ requests' = <<>>
  /\ UNCHANGED <<status, replies, closes, ghosts>>

\* It has come up, or the last one has gone down: then the call fails.
Started ==
  /\ emu.at = "sync" /\ unit.sync > 0
  /\ unit' = [unit EXCEPT !.sync = @ - 1]
  /\ emu' = IF unit.running THEN [emu EXCEPT !.at = "call"] ELSE In68k
  /\ UNCHANGED <<table, requests, thread, status, replies, closes, ghosts>>

Open ==
  /\ emu.at = "call" /\ emu.call = "open"
  /\ unit' = [unit EXCEPT !.opens = 1]
  /\ emu' = In68k
  /\ UNCHANGED <<table, requests, thread, status, replies, closes, ghosts>>

\* The last one closes the device; its programs have got all requests back.
Close ==
  /\ emu.at = "68k" /\ unit.opens = 1 /\ \A r \in Requests : status[r] = "own"
  /\ closes < MaxCloses /\ closes' = closes + 1
  /\ unit' = [unit EXCEPT !.opens = 0]
  /\ requests' = Append(requests, Die)
  /\ UNCHANGED <<emu, table, thread, status, replies, ghosts>>

\* add_async_request ...
Find ==
  /\ emu.at = "call" /\ emu.call \in Sent
  /\ \E f \in Finds(emu.req) : emu' = [emu EXCEPT !.at = f[1], !.slot = f[2]]
  /\ UNCHANGED <<unit, table, requests, thread, status, replies, closes, ghosts>>

TakeSlot ==
  /\ emu.at = "take" /\ Goto("mark")
  /\ Take(emu.slot, emu.req)
  /\ UNCHANGED <<unit, requests, thread, status, replies, closes, hurried>>

MarkSlot ==
  /\ emu.at = "mark" /\ Goto("send")
  /\ Mark(emu.slot, "temp")
  /\ UNCHANGED <<unit, requests, thread, status, replies, closes, ghosts>>

\* ... and the pipe, also if the table was full.
BeginIO ==
  /\ emu.at \in {"send", "full"}
  /\ requests' = Append(requests, emu.req)
  /\ status' = [status EXCEPT ![emu.req] = emu.call]
  /\ emu' = In68k
  /\ UNCHANGED <<unit, table, thread, replies, closes, ghosts>>

\* Mutant: a change interrupt is waited for like a command in work.
Mut_Aborting == \A s \in SlotsOf(emu.req) : d_request_type[s] = "none"

\* abort_async goes on when the request is no longer in work.
Aborting == \A s \in SlotsOf(emu.req) : d_request_type[s] # "temp"

\* Then it releases it, first the request (AbortIO) and then its type (Aborted).
AbortIO ==
  /\ emu.at = "call" /\ emu.call = "abort" /\ Aborting
  /\ IF SlotsOf(emu.req) = {} THEN emu' = In68k /\ UNCHANGED <<d_request, status>>
     ELSE LET s == CHOOSE x \in SlotsOf(emu.req) : TRUE IN
            /\ emu' = [emu EXCEPT !.at = "release", !.slot = s]
            /\ d_request' = [d_request EXCEPT ![s] = None]
            /\ status' = [status EXCEPT ![emu.req] = IF @ = "listening" THEN "own" ELSE @]
  /\ UNCHANGED <<unit, d_request_type, requests, thread, replies, closes, ghosts>>

Aborted ==
  /\ emu.at = "release"
  /\ d_request_type' = [d_request_type EXCEPT ![emu.slot] = "none"]
  /\ emu' = In68k
  /\ UNCHANGED <<unit, d_request, requests, thread, status, replies, closes, ghosts>>

\* hardfile_do_disk_change: under change_sem, all change interrupts are called.
\* Bound: disks are changed one at a time, the calls of the last one have been made.
DiskChange ==
  /\ emu.at = "68k" /\ ~Contains(replies, None) /\ Goto("change")
  /\ UNCHANGED <<unit, table, requests, thread, status, replies, closes, ghosts>>

Changing ==
  /\ emu.at = "change" /\ unit.change > 0
  /\ unit' = [unit EXCEPT !.change = @ - 1]
  /\ emu' = [emu EXCEPT !.at = "cause", !.todo = {s \in Slots : d_request_type[s] = "changeint"}]
  /\ UNCHANGED <<table, requests, thread, status, replies, closes, ghosts>>

Cause ==
  /\ emu.at = "cause" /\ emu.todo # {} /\ Len(replies) < Room
  /\ \E s \in emu.todo : emu' = [emu EXCEPT !.todo = @ \ {s}]
  /\ replies' = Append(replies, None)
  /\ UNCHANGED <<unit, table, requests, thread, status, closes, ghosts>>

Changed ==
  /\ emu.at = "cause" /\ emu.todo = {}
  /\ unit' = [unit EXCEPT !.change = @ + 1] /\ emu' = In68k
  /\ UNCHANGED <<table, requests, thread, status, replies, closes, ghosts>>

\* The EXTER server passes a message on to the 68k.
Deliver ==
  /\ emu.at = "68k" /\ replies # <<>>
  /\ replies' = Tail(replies)
  /\ status' = IF Head(replies) = None THEN status
               ELSE [status EXCEPT ![Head(replies)] = "own"]
  /\ UNCHANGED <<emu, unit, table, requests, thread, closes, ghosts>>

-----------------------------------------------------------------------------
(* hardfile_thread                                                           *)

\* Mutant: change_sem is not given back.
Mut_PostChange == UNCHANGED unit

PostChange == unit' = [unit EXCEPT !.change = @ + 1]

TGoto(t, from, to) == thread[t].at = from /\ thread' = [thread EXCEPT ![t].at = to]

TBegin(t) ==
  /\ TGoto(t, "born", "post")
  /\ unit' = [unit EXCEPT !.running = TRUE]
  /\ UNCHANGED <<emu, table, requests, status, replies, closes, ghosts>>

TPost(t) ==
  /\ TGoto(t, "post", "read")
  /\ unit' = [unit EXCEPT !.sync = @ + 1]
  /\ UNCHANGED <<emu, table, requests, status, replies, closes, ghosts>>

TRead(t) ==
  /\ thread[t].at = "read" /\ requests # <<>>
  /\ thread' = [thread EXCEPT ![t] = [@ EXCEPT !.at = "lock", !.req = Head(requests)]]
  /\ requests' = Tail(requests)
  /\ UNCHANGED <<emu, unit, table, status, replies, closes, ghosts>>

TLock(t) ==
  /\ TGoto(t, "lock", IF thread[t].req = Die THEN "die" ELSE "do")
  /\ unit.change > 0 /\ unit' = [unit EXCEPT !.change = @ - 1]
  /\ UNCHANGED <<emu, table, requests, status, replies, closes, ghosts>>

\* The end: thread_running = 0, then both semaphores are posted.
TDie(t) ==
  /\ TGoto(t, "die", "dead")
  /\ unit' = [unit EXCEPT !.running = FALSE]
  /\ UNCHANGED <<emu, table, requests, status, replies, closes, ghosts>>

TDead(t) ==
  /\ thread[t].at = "dead" /\ thread' = [thread EXCEPT ![t] = Nowhere]
  /\ unit' = [unit EXCEPT !.sync = @ + 1, !.change = @ + 1]
  /\ UNCHANGED <<emu, table, requests, status, replies, closes, ghosts>>

\* CMD_ADDCHANGEINT: add_async_request once more, ...
TFind(t) ==
  /\ thread[t].at = "do" /\ status[thread[t].req] = "add"
  /\ \E f \in Finds(thread[t].req) :
       thread' = [thread EXCEPT ![t] = [@ EXCEPT !.at = f[1], !.slot = f[2]]]
  /\ UNCHANGED <<emu, unit, table, requests, status, replies, closes, ghosts>>

TTakeSlot(t) ==
  /\ TGoto(t, "take", "mark")
  /\ Take(thread[t].slot, thread[t].req)
  /\ UNCHANGED <<emu, unit, requests, status, replies, closes, hurried>>

\* ... and the request stays in the table, unanswered.
TListen(t) ==
  /\ thread[t].at = "mark" /\ Mark(thread[t].slot, "changeint")
  /\ status' = [status EXCEPT ![thread[t].req] = "listening"]
  /\ PostChange
  /\ thread' = [thread EXCEPT ![t] = [Nowhere EXCEPT !.at = "read"]]
  /\ UNCHANGED <<emu, requests, replies, closes, ghosts>>

\* All others are done: release_async_request, first the request ...
TRelease(t) ==
  LET r == thread[t].req IN
    /\ thread[t].at = "full" \/ (thread[t].at = "do" /\ status[r] # "add")
    /\ IF SlotsOf(r) = {} THEN TGoto(t, thread[t].at, "reply") /\ UNCHANGED d_request
       ELSE LET s == CHOOSE x \in SlotsOf(r) : TRUE IN
              /\ thread' = [thread EXCEPT ![t] = [@ EXCEPT !.at = "type", !.slot = s]]
              /\ d_request' = [d_request EXCEPT ![s] = None]
    /\ UNCHANGED <<emu, unit, d_request_type, requests, status, replies, closes, ghosts>>

\* ... and then its type,
TReleaseType(t) ==
  /\ TGoto(t, "type", "reply")
  /\ d_request_type' = [d_request_type EXCEPT ![thread[t].slot] = "none"]
  /\ UNCHANGED <<emu, unit, d_request, requests, status, replies, closes, ghosts>>

\* and uae_ReplyMsg.
TReply(t) ==
  LET r == thread[t].req IN
    /\ thread[t].at = "reply" /\ Len(replies) < Room
    /\ replies' = Append(replies, r)
    /\ status' = [status EXCEPT ![r] = "replied"]
    /\ PostChange
    /\ thread' = [thread EXCEPT ![t] = [Nowhere EXCEPT !.at = "read"]]
    /\ UNCHANGED <<emu, table, requests, closes, ghosts>>

-----------------------------------------------------------------------------
Emulation ==
  Running \/ Start \/ Started \/ Open \/ Find \/ TakeSlot \/ MarkSlot \/ BeginIO \/ AbortIO
  \/ Aborted \/ Changing \/ Cause \/ Changed \/ Deliver
HardfileThread(t) ==
  TBegin(t) \/ TPost(t) \/ TRead(t) \/ TLock(t) \/ TDie(t) \/ TDead(t) \/ TFind(t)
  \/ TTakeSlot(t) \/ TListen(t) \/ TRelease(t) \/ TReleaseType(t) \/ TReply(t)

Next ==
  \/ \E c \in Sent \cup {"open", "abort"}, r \in Requests \cup {None} : Call(c, r)
  \/ Close \/ DiskChange \/ Emulation
  \/ \E t \in Threads : HardfileThread(t)

Spec == Init /\ [][Next]_vars

\* The emulation thread goes on, and so does a thread of the unit; who waits for
\* change_sem gets it in the end.
SomeThread == \E t \in Threads : HardfileThread(t)
SomeTLock == \E t \in Threads : TLock(t)
FairSpec ==
  /\ Spec /\ WF_vars(Emulation) /\ WF_vars(SomeThread)
  /\ SF_vars(Changing) /\ SF_vars(SomeTLock)
-----------------------------------------------------------------------------
Alive == {t \in Threads : thread[t].at \notin {"none", "dead"}}

(* start_thread clears pipe, table and semaphores: it must not do so under a  *)
(* thread that lives, and the pipe must not get a second reader.  So it is if *)
(* nobody uses the device after it was closed before its thread has posted    *)
(* both semaphores for the last time.                                        *)
OneReader == ~hurried => Cardinality(Alive) <= 1

(* Whatever the emulation thread waits for (the start of the thread, the end  *)
(* of a command that is to be aborted, change_sem, room for a message) comes, *)
(* unless both threads have taken one slot of the table: then an abort can    *)
(* wait for ever for a request whose type the other one has stored.          *)
GoesOn == emu.at # "68k" ~> emu.at = "68k" \/ hurried \/ collided

(* Every command gets its answer, or stays to listen for disk changes, also   *)
(* when the table is full, and whatever is aborted in the meantime; with the  *)
(* same exception.                                                           *)
Answered ==
  \A r \in Requests : status[r] \in Sent ~> status[r] \notin Sent \/ hurried \/ collided
=============================================================================
