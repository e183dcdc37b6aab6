---------------------------- MODULE Native2Amiga ----------------------------
(***************************************************************************)
(* Calls of Exec functions from outside the 68k (native2amiga.c): a caller *)
(* writes a message of several words into the comm pipe native2amiga_      *)
(* pending and requests the EXTER interrupt, whose server (exter_int_      *)
(* helper) takes the messages out and makes the calls.                     *)
(*                                                                         *)
(* uae_int_requested is a plain int: |= and &= are a read and a write, and *)
(* the A2091's own requests are a bit of the same word.  The comm pipe is  *)
(* the bounded FIFO that CommPipe implements as long as one thread writes. *)
(***************************************************************************)
EXTENDS Naturals, Sequences, FiniteSets

CONSTANTS
  Workers,      \* the device and file system threads that make calls
  Emulation,    \* the emulation thread makes calls too
  Machines      \* the machines: the words that fit into the pipe (99); whether the
                \* SCSI controller A2091 is there; bounds for the calls that each
                \* caller makes, and for the resets

ASSUME CallAssumption ==
  /\ Emulation \notin Workers
  /\ \A m \in Machines :
       /\ m.room \in Nat \ {0} /\ m.a2091 \in BOOLEAN /\ m.resets \in Nat
       /\ m.calls \in [Workers \cup {Emulation} -> Nat]

Callers == Workers \cup {Emulation}
Bits == {"call", "a2091"}                      \* 1 and 2 of uae_int_requested

VARIABLES
  machine,            \* the one of Machines that runs, for good
  pending,            \* the pipe: words [from, call, part, of]
  writer_waiting,     \* its flag: a writer waits for room
  n2asem,
  uae_int_requested,  \* the bits that are set
  pc,                 \* per caller: where it is in its call
  word,               \* per caller: the word it writes next
  got,                \* per caller: what it read of uae_int_requested
  server,             \* the emulation thread: "68k" code, the "server", "args" of a
                      \* message, or inside a |= or &= of uae_int_requested
  seen,               \* what it read of uae_int_requested
  received,           \* per caller: the number of its last call that was made
  resets

vars == <<machine, pending, writer_waiting, n2asem, uae_int_requested, pc, word, got, server,
          seen, received, resets>>
Limit(c) == machine.calls[c]
Room == machine.room
callerVars == <<pc, word, got>>
serverVars == <<server, seen, received>>
fixed == <<machine, resets>>

First(c, n, len) == [from |-> c, call |-> n, part |-> 1, of |-> len]

Init ==
  /\ machine \in Machines
  /\ pending = <<>> /\ writer_waiting = FALSE
  /\ n2asem = 1 /\ uae_int_requested = {}
  /\ pc = [c \in Callers |-> "idle"]
  /\ word = [c \in Callers |-> First(c, 0, 2)]
  /\ got = [c \in Callers |-> {}]
  /\ server = "68k" /\ seen = {} /\ received = [c \in Callers |-> 0]
  /\ resets = 0

-----------------------------------------------------------------------------
(* A call: uae_Cause and uae_ReplyMsg have two words, the others three.      *)

Goto(c, from, to) == pc[c] = from /\ pc' = [pc EXCEPT ![c] = to]

Call(c) ==
  /\ c = Emulation => server = "68k"
  /\ word[c].call < Limit(c)
  /\ Goto(c, "idle", "enter")
  /\ \E len \in {2, 3} : word' = [word EXCEPT ![c] = First(c, word[c].call + 1, len)]
  /\ UNCHANGED <<pending, writer_waiting, n2asem, uae_int_requested, got, serverVars, fixed>>

\* Mutant: the callers do not take turns.
Mut_Enter(c) ==
  /\ Goto(c, "enter", "write")
  /\ UNCHANGED <<pending, writer_waiting, n2asem, uae_int_requested, word, got, serverVars,
                 fixed>>

Enter(c) ==
  /\ Goto(c, "enter", "write")
  /\ n2asem > 0 /\ n2asem' = n2asem - 1
  /\ UNCHANGED <<pending, writer_waiting, uae_int_requested, word, got, serverVars, fixed>>

\* A word into the pipe.
Write(c) ==
  /\ Len(pending) < Room
  /\ pending' = Append(pending, word[c])
  /\ IF word[c].part = word[c].of
     THEN Goto(c, "write", "read") /\ UNCHANGED word
     ELSE Goto(c, "write", "write") /\ word' = [word EXCEPT ![c].part = @ + 1]
  /\ UNCHANGED <<writer_waiting, n2asem, uae_int_requested, got, serverVars, fixed>>

\* The pipe is full: the writer sleeps until the reader wakes it.
Sleep(c) ==
  /\ Goto(c, "write", "asleep")
  /\ Len(pending) = Room
  /\ writer_waiting' = TRUE
  /\ UNCHANGED <<pending, n2asem, uae_int_requested, word, got, serverVars, fixed>>

\* do_uae_int_requested: uae_int_requested |= 1
ReadInt(c) ==
  /\ Goto(c, "read", "set")
  /\ got' = [got EXCEPT ![c] = uae_int_requested]
  /\ UNCHANGED <<pending, writer_waiting, n2asem, uae_int_requested, word, serverVars, fixed>>

SetInt(c) ==
  /\ Goto(c, "set", "post")
  /\ uae_int_requested' = got[c] \cup {"call"}
  /\ UNCHANGED <<pending, writer_waiting, n2asem, word, got, serverVars, fixed>>

Leave(c) ==
  /\ Goto(c, "post", "idle")
  /\ n2asem' = n2asem + 1
  /\ UNCHANGED <<pending, writer_waiting, uae_int_requested, word, got, serverVars, fixed>>

-----------------------------------------------------------------------------
(* The emulation thread, while it makes no call itself                       *)

SGoto(from, to) == pc[Emulation] = "idle" /\ server = from /\ server' = to

\* rethink_a2091, INT2, and the read of the SCSI status: uae_int_requested |= 2, &= ~2
ReadA2091 ==
  /\ machine.a2091
  /\ SGoto("68k", "raise") \/ SGoto("68k", "drop")
  /\ seen' = uae_int_requested
  /\ UNCHANGED <<pending, writer_waiting, n2asem, uae_int_requested, callerVars, received, fixed>>

WriteA2091 ==
  /\ \/ SGoto("raise", "68k") /\ uae_int_requested' = seen \cup {"a2091"}
     \/ SGoto("drop", "68k") /\ uae_int_requested' = seen \ {"a2091"}
  /\ UNCHANGED <<pending, writer_waiting, n2asem, callerVars, seen, received, fixed>>

\* exter_int_helper (0): it is for us, uae_int_requested &= ~1
ReadClear ==
  /\ "call" \in uae_int_requested
  /\ SGoto("68k", "clear")
  /\ seen' = uae_int_requested
  /\ UNCHANGED <<pending, writer_waiting, n2asem, uae_int_requested, callerVars, received, fixed>>

WriteClear ==
  /\ SGoto("clear", "server")
  /\ uae_int_requested' = seen \ {"call"}
  /\ UNCHANGED <<pending, writer_waiting, n2asem, callerVars, seen, received, fixed>>

Woken == [c \in Callers |-> IF pc[c] = "asleep" THEN "write" ELSE pc[c]]

\* Mutant: the reader leaves the writer asleep.
Mut_Take ==
  /\ pending # <<>> /\ pending' = Tail(pending)
  /\ UNCHANGED <<pc, writer_waiting>>

\* The next word, and a writer that waits for room goes on.
Take ==
  /\ pending # <<>> /\ pending' = Tail(pending)
  /\ pc' = (IF writer_waiting THEN Woken ELSE pc)
  /\ writer_waiting' = FALSE

\* exter_int_helper (2): the first word says what is called.
ReadCommand ==
  /\ SGoto("server", "args")
  /\ Take
  /\ UNCHANGED <<n2asem, uae_int_requested, word, got, seen, received, fixed>>

\* The others are its arguments; then the 68k makes the call.
ReadArgument ==
  /\ Take
  /\ LET w == Head(pending) IN
       IF w.part = w.of
       THEN SGoto("args", "server") /\ received' = [received EXCEPT ![w.from] = w.call]
       ELSE SGoto("args", "args") /\ UNCHANGED received
  /\ UNCHANGED <<n2asem, uae_int_requested, word, got, seen, fixed>>

\* Mutant: one message is enough for one interrupt.
Mut_Exit ==
  /\ SGoto("server", "68k")
  /\ UNCHANGED <<pending, writer_waiting, n2asem, uae_int_requested, callerVars, seen, received,
                 fixed>>

\* exter_int_helper (2) that finds nothing, and (4).
Exit ==
  /\ SGoto("server", "68k")
  /\ pending = <<>>
  /\ UNCHANGED <<pending, writer_waiting, n2asem, uae_int_requested, callerVars, seen, received,
                 fixed>>

\* native2amiga_reset
Reset ==
  /\ SGoto("68k", "68k")
  /\ resets < machine.resets /\ resets' = resets + 1
  /\ pending' = <<>> /\ writer_waiting' = FALSE
  /\ UNCHANGED <<machine, n2asem, uae_int_requested, callerVars, seen, received>>

-----------------------------------------------------------------------------
Inside(c) == pc[c] \notin {"idle", "enter"}
InCall(c) ==
  Enter(c) \/ Write(c) \/ Sleep(c) \/ ReadInt(c) \/ SetInt(c) \/ Leave(c)
Server == ReadClear \/ WriteClear \/ ReadCommand \/ ReadArgument \/ Exit

Idle == pc = [c \in Callers |-> "idle"] /\ server = "68k" /\ UNCHANGED vars

Next ==
  \/ \E c \in Callers : Call(c) \/ InCall(c)
  \/ Server \/ ReadA2091 \/ WriteA2091 \/ Reset \/ Idle

Spec == Init /\ [][Next]_vars

\* n2asem is fair enough for two callers; the interrupt is served.
FairSpec == Spec /\ WF_vars(Server) /\ \A c \in Callers : WF_vars(InCall(c)) /\ SF_vars(Enter(c))

-----------------------------------------------------------------------------
(* One thread writes into the pipe at a time, which is what the comm pipe     *)
(* relies on, whatever the other callers, the server, the A2091 and a reset  *)
(* do.                                                                       *)
OneWriter == \A c, d \in Callers : Inside(c) /\ Inside(d) => c = d

(* "This pipe is filled by Signal() with pairs of 0/task/signal_set, by      *)
(* PutMsg() with 1/port/msg and by ReplyMsg() with 2/msg": where the server  *)
(* looks for a command there is one, and its arguments follow it, as long as *)
(* the machine is not reset.                                                 *)
MessagesWhole ==
  machine.resets = 0 =>
    /\ server \in {"68k", "clear", "server"} /\ pending # <<>> => Head(pending).part = 1
    /\ server = "args" /\ pending # <<>> => Head(pending).part > 1
    /\ \A i \in 1 .. Len(pending) - 1 :
         LET v == pending[i] w == pending[i + 1] IN
           IF v.part < v.of THEN w = [v EXCEPT !.part = @ + 1] ELSE w.part = 1

(* "We can get too many interrupts, but never not enough": a message that is *)
(* complete has the interrupt requested, unless its caller is still to do it *)
(* or the server is at work.                                                 *)
NeverNotEnough ==
  pending # <<>> /\ server \notin {"clear", "server", "args"}
    => "call" \in uae_int_requested \/ \E c \in Callers : pc[c] \notin {"idle", "enter"}

(* The same where the A2091 does not write the word.                         *)
EnoughInterrupts == ~machine.a2091 => NeverNotEnough

(* Every call returns to its caller, and every call that was begun is made.  *)
CallsReturn == \A c \in Callers : pc[c] = "enter" ~> pc[c] = "idle" \/ machine.resets > 0
CallsAreMade ==
  \A c \in Callers : \A n \in 1 .. 2 :
    word[c].call = n /\ ~machine.a2091 ~> received[c] >= n \/ machine.resets > 0
=============================================================================
