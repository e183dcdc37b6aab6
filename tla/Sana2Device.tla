---------------------------- MODULE Sana2Device ----------------------------
(***************************************************************************)
(* The requests of one unit of the SANA-II network device (sana2.c with    *)
(* uaenet.c).  The unit's thread takes requests from a comm pipe; what it  *)
(* cannot do at once it keeps in the list dev->ar.  There the write thread *)
(* of uaenet.c completes the writes and the interrupt server of the        *)
(* emulation thread the reads and flushes: they put the request into the   *)
(* pipe once more, and a request that comes out of the pipe while it is in *)
(* the list is answered.  An abort does the same.                          *)
(*                                                                         *)
(* async_sem guards the two lists dev->ar and dev->s2p.  Whoever goes      *)
(* through dev->ar to complete requests holds it until the last of them is *)
(* in the pipe: "lock" is who holds it and what is still to be queued, and *)
(* a holder that finds the pipe full waits in there.  What only looks      *)
(* something up, adds or removes it takes async_sem and gives it back: one *)
(* step that waits until it is free.                                       *)
(*                                                                         *)
(* The order of dev->ar is abstracted: any read may get a packet, and a    *)
(* flush may queue what it aborts in any order.  The server runs whenever  *)
(* uaenet_int_requested or, once a frame, uaenet_vsync_requested is set:   *)
(* here, at any time.  A command that is done on the spot (IO_QUICK)       *)
(* changes nothing of this.                                                *)
(***************************************************************************)
EXTENDS Naturals, Sequences, FiniteSets, SequencesExt

CONSTANTS
  Requests,   \* the requests of the programs that use the unit
  Openers,    \* ways to give every request the opener that it belongs to
  Room,       \* what the pipe holds (99 in the code)
  Traffic,    \* bound: with so many in the pipe the emulation thread starts nothing new
  None

Sana2Assumption ==
  /\ None \notin Requests /\ IsFiniteSet(Requests)
  /\ \A o \in Openers : Requests \subseteq DOMAIN o
  /\ Room \in Nat \ {0} /\ Traffic \in 1 .. Room

Commands == {"query", "read", "write", "flush"}      \* query: all done at once

VARIABLES
  opener,     \* the way that was chosen
  command,    \* per request: its io_Command
  sent,       \* the requests that their programs wait for
  s2p,        \* per request: its packets in dev->s2p, "unsent" or "sent"
  ar,         \* per request: in dev->ar ("waiting", "ready") or not ("no")
  lock,       \* async_sem: who holds it, and what it is going to queue
  requests,   \* the comm pipe
  thread,     \* the unit's thread: where it is, with which request
  calling,    \* the request that dev_beginio or dev_abortio is about to queue
  writer,     \* uaenet.c: the write thread "looks" at the list or "waits"
  evttw,      \* its event: set and not yet waited for
  before,     \* ghost, per flush: what was sent before it and not answered yet
  late        \* ghost: was a request queued that was queued already?

vars == <<opener, command, sent, s2p, ar, lock, requests, thread, calling, writer, evttw,
          before, late>>
program == <<opener, command, sent>>
write_thread == <<writer, evttw>>
ghosts == <<before, late>>

At(where, r) == [at |-> where, req |-> r]
Listed == {r \in Requests : ar[r] # "no"}
Waiting(c) == {r \in Requests : ar[r] = "waiting" /\ command[r] = c}

Unlocked == [by |-> "nobody", todo |-> {}]
Free == lock.by = "nobody"
Hold(who, rs) == lock' = IF rs = {} THEN Unlocked ELSE [by |-> who, todo |-> rs]

\* write_comm_pipe_u32 waits for room.
Queue(r) == Len(requests) < Room /\ requests' = Append(requests, r)

\* A request is queued late if it has been and the thread is not through with it.
InWork(r) == Contains(requests, r) \/ r \in lock.todo \/ thread.req = r \/ calling = r
Again(rs) == late' = (late \/ \E r \in rs : InWork(r))

\* flush: what waits in the list for the same opener is aborted; a flush that is
\* aborted promises nothing.
Unready(f) == {r \in Requests : ar[r] = "waiting" /\ opener[r] = opener[f]}
AbortAll(who, f) ==
  /\ Free /\ Hold(who, Unready(f))
  /\ ar' = [r \in Requests |-> IF r \in Unready(f) THEN "ready" ELSE ar[r]]
  /\ before' = [r \in Requests |-> IF r \in Unready(f) THEN {} ELSE before[r]]
  /\ Again(Unready(f))

Init ==
  /\ opener \in Openers
  /\ command = [r \in Requests |-> "query"] /\ sent = {}
  /\ s2p = [r \in Requests |-> <<>>] /\ ar = [r \in Requests |-> "no"]
  /\ lock = Unlocked /\ requests = <<>>
  /\ thread = At("read", None) /\ calling = None
  /\ writer = "looks" /\ evttw = FALSE
  /\ before = [r \in Requests |-> {}] /\ late = FALSE

-----------------------------------------------------------------------------
(* The emulation thread                                                      *)

Idle == calling = None /\ lock.by # "server"
Starts == Idle /\ Len(requests) < Traffic

\* dev_beginio: a write's packet goes into dev->s2p, under async_sem, unless
\* createwritepacket fails.
BeginIO(r) ==
  /\ Starts /\ r \notin sent
  /\ \E c \in Commands :
       /\ command' = [command EXCEPT ![r] = c]
       /\ before' = [before EXCEPT ![r] = IF c = "flush" THEN sent ELSE {}]
       /\ \/ UNCHANGED s2p
          \/ c = "write" /\ Free /\ s2p' = [s2p EXCEPT ![r] = Append(@, "unsent")]
  /\ sent' = sent \cup {r}
  /\ calling' = r
  /\ UNCHANGED <<opener, ar, lock, requests, thread, write_thread, late>>

\* dev_abortio: the request is marked if it is in the list.
AbortIO(r) ==
  /\ Starts /\ Free /\ ar[r] # "no"
  /\ ar' = [ar EXCEPT ![r] = "ready"] /\ calling' = r /\ Again({r})
  /\ before' = [before EXCEPT ![r] = {}]
  /\ UNCHANGED <<program, s2p, lock, requests, thread, write_thread>>

\* Either then queues it, without async_sem.
Called ==
  /\ calling # None /\ Queue(calling) /\ calling' = None
  /\ UNCHANGED <<program, s2p, ar, lock, thread, write_thread, ghosts>>

\* Mutant: a flush waits for the requests of its own opener only.
Mut_Flushed(f) == Listed \cap {r \in Requests : opener[r] = opener[f]} = {f}

\* "do not reply CMD_FLUSH until all other requests are gone"
Flushed(f) == Listed = {f}

\* uaenet_int_handler, which does nothing if async_sem is taken: a packet has come
\* for a read or a flush is over; neither is marked.  Or the flush takes too long
\* and what still waits is aborted.
GotPacket(r) ==
  /\ Starts /\ Free /\ r \in Waiting("read")
  /\ Hold("server", {r}) /\ Again({r})
  /\ UNCHANGED <<program, s2p, ar, requests, thread, calling, write_thread, before>>

FlushDone(f) ==
  /\ Starts /\ Free /\ f \in Waiting("flush") /\ Flushed(f)
  /\ Hold("server", {f}) /\ Again({f})
  /\ UNCHANGED <<program, s2p, ar, requests, thread, calling, write_thread, before>>

FlushTimeout(f) ==
  /\ Idle /\ f \in Waiting("flush") /\ Listed # {f}
  /\ AbortAll("server", f)
  /\ UNCHANGED <<program, s2p, requests, thread, calling, write_thread>>

-----------------------------------------------------------------------------
(* Whoever holds async_sem queues what it has taken on, and gives it back.    *)

Push(r) ==
  /\ r \in lock.todo /\ Queue(r)
  /\ Hold(lock.by, lock.todo \ {r})
  /\ UNCHANGED <<program, s2p, ar, thread, calling, write_thread, ghosts>>

-----------------------------------------------------------------------------
(* The write thread                                                          *)

\* Mutant: the write that is sent is not marked.
Mut_Signal(r) == UNCHANGED ar

\* signalasync
Signal(r) == ar' = [ar EXCEPT ![r] = "ready"]

\* uaenet_getdata takes a write that has a packet ...
Transmit(r) ==
  /\ writer = "looks" /\ Free
  /\ r \in Waiting("write") /\ s2p[r] # <<>>
  /\ s2p' = [s2p EXCEPT ![r] = <<"sent">> \o Tail(@)]
  /\ Signal(r)
  /\ Hold("writer", {r})
  /\ UNCHANGED <<program, requests, thread, calling, write_thread, ghosts>>

\* ... or finds none, and the thread goes on to wait for its event,
Nothing ==
  /\ writer = "looks" /\ Free
  /\ \A r \in Waiting("write") : s2p[r] = <<>>
  /\ writer' = "waits"
  /\ UNCHANGED <<program, s2p, ar, lock, requests, thread, calling, evttw, ghosts>>

\* which may have been set in between; the wait resets it.
Awake ==
  /\ writer = "waits" /\ evttw
  /\ writer' = "looks" /\ evttw' = FALSE
  /\ UNCHANGED <<program, s2p, ar, lock, requests, thread, calling, ghosts>>

-----------------------------------------------------------------------------
(* dev_thread                                                                *)

Read ==
  /\ thread.at = "read" /\ requests # <<>>
  /\ thread' = At("get", Head(requests)) /\ requests' = Tail(requests)
  /\ UNCHANGED <<program, s2p, ar, lock, calling, write_thread, ghosts>>

\* get_async_request: is it in the list?  Then it is ready.
Get ==
  /\ thread.at = "get" /\ Free
  /\ IF ar[thread.req] # "no"
     THEN ar' = [ar EXCEPT ![thread.req] = "ready"] /\ thread' = At("reply", thread.req)
     ELSE thread' = At("do", thread.req) /\ UNCHANGED ar
  /\ UNCHANGED <<program, s2p, lock, requests, calling, write_thread, ghosts>>

\* uae_ReplyMsg: from here on the request is the program's again.
Reply ==
  /\ \/ thread.at = "reply" /\ thread' = At("release", thread.req)
     \/ thread.at = "do" /\ command[thread.req] = "query" /\ thread' = At("remove", thread.req)
  /\ sent' = sent \ {thread.req}
  /\ before' = [f \in Requests |-> before[f] \ {thread.req}]
  /\ UNCHANGED <<opener, command, s2p, ar, lock, requests, calling, write_thread, late>>

\* release_async_request
Release ==
  /\ thread.at = "release" /\ Free /\ thread' = At("remove", thread.req)
  /\ ar' = [ar EXCEPT ![thread.req] = "no"]
  /\ UNCHANGED <<program, s2p, lock, requests, calling, write_thread, ghosts>>

\* rem_async_packet takes the first packet of the request, if it has any.
RemPacket ==
  /\ thread.at = "remove" /\ Free /\ thread' = At("read", None)
  /\ s2p' = [s2p EXCEPT ![thread.req] = IF @ = <<>> THEN @ ELSE Tail(@)]
  /\ UNCHANGED <<program, ar, lock, requests, calling, write_thread, ghosts>>

\* dev_do_io of CMD_FLUSH aborts what waits in the list: the thread writes into
\* the pipe that only it reads.
Flush ==
  /\ thread.at = "do" /\ command[thread.req] = "flush"
  /\ AbortAll("thread", thread.req)
  /\ thread' = At("add", thread.req)
  /\ UNCHANGED <<program, s2p, requests, calling, write_thread>>

Async ==
  /\ thread.at = "do" /\ command[thread.req] \in {"read", "write"}
  /\ thread' = At("add", thread.req)
  /\ UNCHANGED <<program, s2p, ar, lock, requests, calling, write_thread, ghosts>>

\* add_async_request
Add ==
  /\ thread.at = "add" /\ Free /\ thread' = At("trigger", None)
  /\ ar' = [ar EXCEPT ![thread.req] = "waiting"]
  /\ UNCHANGED <<program, s2p, lock, requests, calling, write_thread, ghosts>>

\* Mutant: the write thread is not woken.
Mut_SetEvent == UNCHANGED evttw

SetEvent == evttw' = TRUE

\* uaenet_trigger
Trigger ==
  /\ thread.at = "trigger" /\ thread' = At("read", None)
  /\ SetEvent
  /\ UNCHANGED <<program, s2p, ar, lock, requests, calling, writer, ghosts>>

-----------------------------------------------------------------------------
Emulation(r) == BeginIO(r) \/ AbortIO(r) \/ GotPacket(r) \/ FlushDone(r) \/ FlushTimeout(r)
DevThread == Read \/ Get \/ Reply \/ Release \/ RemPacket \/ Flush \/ Async \/ Add \/ Trigger
Next ==
  \/ \E r \in Requests : Emulation(r) \/ Push(r) \/ Transmit(r)
  \/ Called \/ Nothing \/ Awake \/ DevThread

Spec == Init /\ [][Next]_vars
Pushes == \E r \in Requests : Push(r)
FairSpec ==
  /\ Spec /\ SF_vars(DevThread) /\ WF_vars(Called) /\ WF_vars(Pushes) /\ WF_vars(Awake)
  /\ \A r \in Requests : SF_vars(Transmit(r))

-----------------------------------------------------------------------------
(* Every packet goes on the wire once: a write that the write thread may take *)
(* has its packet unsent, although its request is queued several times when  *)
(* aborts, completions and the program's next use of it meet, and the thread *)
(* takes a copy that comes when the request is listed no more for a new      *)
(* command.                                                                  *)
SentOnce == \A r \in Waiting("write") : s2p[r] # <<>> => Head(s2p[r]) = "unsent"

(* "do not reply CMD_FLUSH until all other requests are gone": what was sent  *)
(* before a flush is answered before it.                                     *)
FlushLast ==
  thread.at = "reply" /\ command[thread.req] = "flush" /\ ~late => before[thread.req] = {}

(* A write is answered, whether the write thread sleeps, is looking at the    *)
(* list or has found nothing and is about to sleep when it comes: from the   *)
(* moment its packet is made, unless the thread is still to remove a packet  *)
(* of the same request, which may be this one.                               *)
Pending(r) ==
  /\ r \in sent /\ command[r] = "write" /\ s2p[r] # <<>>
  /\ ~(thread.at \in {"release", "remove"} /\ thread.req = r)
WriteEnds == \A r \in Requests : Pending(r) ~> r \notin sent
=============================================================================
