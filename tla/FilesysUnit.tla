---------------------------- MODULE FilesysUnit ----------------------------
(***************************************************************************)
(* Virtual file systems: how a DOS packet travels from the AmigaOS handler *)
(* process (filesys.asm) to the thread of its unit and back (filesys.c).   *)
(*                                                                         *)
(* The emulation thread runs the 68k, and on it the handler processes of   *)
(* all units and the EXTER interrupt server, which none of them preempts;  *)
(* a C trap is one step for it.  The unit threads run beside it.  The      *)
(* comm pipes appear as the bounded FIFOs CommPipe implements.             *)
(***************************************************************************)
EXTENDS Naturals, Sequences, FiniteSets, SequencesExt

CONSTANTS
  NUnits,      \* MAX_FILESYSTEM_UNITS
  NPackets,    \* bound: the packets a unit is sent between two resets
  MaxStarted,  \* the #20 in FSML_FromDOS
  PipeRoom,    \* how many 3-word commands fit into unit_pipe (99 words: 33)
  BackRoom,    \* how many lock lists fit into back_pipe (99)
  MaxResets    \* bound: the resets of the machine

ASSUME UnitAssumption ==
  /\ {NUnits, NPackets, MaxStarted, PipeRoom, BackRoom} \subseteq Nat \ {0}
  /\ MaxResets \in Nat

Units == 1 .. NUnits
Packets == Units \X (1 .. NPackets)
Home(p) == p[1]
Dummy == <<0, 0>>               \* the message without a packet
Death == <<0, 0>>               \* the command without one

VARIABLES
  port,            \* per unit: its message port, oldest message first
  hpc, hmsg,       \* per unit: where its handler process is, the message it got
                   \* (Dummy when it is done with it)
  list, scan,      \* per unit: the commands not answered yet, newest first; the scan of it
  d5,              \* per unit: "commands in the queue", a register of the process
  status,          \* per packet: offset 4 of its message; "complete" is 0xffffffff,
                   \* "timedout" 0xfffffffe
  answers,         \* per packet: how often it has been answered
  ipc, unit_no,    \* the interrupt server: running or not; exter_int_helper's static
  int_sem,         \* singlethread_int_sem
  int_requested,   \* uae_int_requested & 1
  unit_pipe, back_pipe,                  \* per unit; back_pipe: how many lock lists
  tpc, tcmd,       \* per unit: where its thread is, the command it read (Death
                   \* when it is done with it)
  waitingrecords,  \* per unit: the packets that wait for a record lock
  self,            \* per unit: uip->self # 0
  cmds_sent, cmds_acked, cmds_complete,  \* per unit
  reset_state, reset_sync_sem,           \* per unit
  rpc, resets      \* the reset in progress; how many there were

amigaVars == <<port, hpc, hmsg, list, scan, d5, answers>>
intVars == <<ipc, unit_no, int_sem>>
cmdsVars == <<cmds_sent, cmds_acked, cmds_complete>>
threadVars == <<tpc, tcmd, waitingrecords>>
resetVars == <<reset_state, reset_sync_sem, rpc, resets>>
vars == <<amigaVars, status, intVars, int_requested, unit_pipe, back_pipe, threadVars,
          self, cmdsVars, resetVars>>

Done == {"complete", "timedout"}

\* Mutant: only what the unit's thread has completed counts.
Mut_Marked(p) == status[p] = "complete"

\* FSML_check_old looks at the sign of offset 4.
Marked(p) == status[p] \in Done

All(x) == [u \in Units |-> x]
Update(f, u, x) == [f EXCEPT ![u] = x]

Init ==
  /\ port = All(<<>>) /\ hpc = All("boot") /\ hmsg = All(Dummy)
  /\ list = All(<<>>) /\ scan = All(0) /\ d5 = All(0)
  /\ answers = [p \in Packets |-> 0] /\ status = [p \in Packets |-> "new"]
  /\ ipc = "off" /\ unit_no = 1 /\ int_sem = 1 /\ int_requested = FALSE
  /\ unit_pipe = All(<<>>) /\ back_pipe = All(0)
  /\ tpc = All("read") /\ tcmd = All(Death) /\ waitingrecords = All({})
  /\ self = All(FALSE)
  /\ cmds_sent = All(0) /\ cmds_acked = All(0) /\ cmds_complete = All(0)
  /\ reset_state = All("FS_STARTUP") /\ reset_sync_sem = All(0)
  /\ rpc = 0 /\ resets = 0

-----------------------------------------------------------------------------
(* The handler process of unit u (FSML_loop); it runs while neither the      *)
(* interrupt server nor a reset has the emulation thread.                    *)

HGoto(u, from, to) ==
  /\ rpc = 0 /\ ipc = "off"
  /\ hpc[u] = from /\ hpc' = Update(hpc, u, to)

\* The startup packet: startup_handler makes the Unit.
HBoot(u) ==
  /\ HGoto(u, "boot", "loop")
  /\ self' = Update(self, u, TRUE)
  /\ cmds_sent' = Update(cmds_sent, u, 0)
  /\ cmds_acked' = Update(cmds_acked, u, 0)
  /\ cmds_complete' = Update(cmds_complete, u, 0)
  /\ UNCHANGED <<port, hmsg, list, scan, d5, answers, status, intVars, int_requested,
                 unit_pipe, back_pipe, threadVars, resetVars>>

\* Some task sends a packet; a unit's packets are numbered in that order.
Send(p) ==
  LET u == Home(p) IN
    /\ rpc = 0 /\ ipc = "off" /\ hpc[u] # "boot"
    /\ status[p] = "new" /\ \A n \in 1 .. p[2] - 1 : status[<<u, n>>] # "new"
    /\ status' = [status EXCEPT ![p] = "sent"]
    /\ port' = Update(port, u, Append(port[u], p))
    /\ UNCHANGED <<hpc, hmsg, list, scan, d5, answers, intVars, int_requested, unit_pipe,
                   back_pipe, threadVars, self, cmdsVars, resetVars>>

\* Mutant: no limit.
Mut_HGetMsg(u) ==
  /\ port[u] # <<>>
  /\ HGoto(u, "loop", IF Head(port[u]) = Dummy THEN "release" ELSE "start")
  /\ hmsg' = Update(hmsg, u, Head(port[u]))
  /\ port' = Update(port, u, Tail(port[u]))
  /\ UNCHANGED <<list, scan, d5, answers, status, intVars, int_requested, unit_pipe,
                 back_pipe, threadVars, self, cmdsVars, resetVars>>

\* GetMsg, and what kind of message it is.
HGetMsg(u) ==
  /\ port[u] # <<>>
  /\ HGoto(u, "loop", IF Head(port[u]) = Dummy THEN "release"
                      ELSE IF d5[u] >= MaxStarted THEN "defer" ELSE "start")
  /\ hmsg' = Update(hmsg, u, Head(port[u]))
  /\ port' = Update(port, u, Tail(port[u]))
  /\ UNCHANGED <<list, scan, d5, answers, status, intVars, int_requested, unit_pipe,
                 back_pipe, threadVars, self, cmdsVars, resetVars>>

\* "Too many commands queued."
HDefer(u) ==
  /\ HGoto(u, "defer", "loop")
  /\ status' = [status EXCEPT ![hmsg[u]] = "unstarted"]
  /\ list' = Update(list, u, <<hmsg[u]>> \o list[u])
  /\ hmsg' = Update(hmsg, u, Dummy)
  /\ UNCHANGED <<port, scan, d5, answers, intVars, int_requested, unit_pipe,
                 back_pipe, threadVars, self, cmdsVars, resetVars>>

\* filesys_handler: the command goes to the unit's thread.
HStart(u) ==
  /\ HGoto(u, "start", "enqueue")
  /\ Len(unit_pipe[u]) < PipeRoom
  /\ status' = [status EXCEPT ![hmsg[u]] = "started"]
  /\ unit_pipe' = Update(unit_pipe, u, Append(unit_pipe[u], hmsg[u]))
  /\ UNCHANGED <<port, hmsg, list, scan, d5, answers, intVars, int_requested, back_pipe,
                 threadVars, self, cmdsVars, resetVars>>

\* filesys_handler fails at once (FSML_Reply).
HRefuse(u) ==
  /\ HGoto(u, "start", "loop")
  /\ status' = [status EXCEPT ![hmsg[u]] = "complete"]
  /\ answers' = [answers EXCEPT ![hmsg[u]] = @ + 1]
  /\ hmsg' = Update(hmsg, u, Dummy)
  /\ UNCHANGED <<port, list, scan, d5, intVars, int_requested, unit_pipe, back_pipe,
                 threadVars, self, cmdsVars, resetVars>>

\* Mutant: the command is counted and forgotten.
Mut_HEnqueue(u) ==
  /\ HGoto(u, "enqueue", "loop")
  /\ d5' = Update(d5, u, d5[u] + 1)
  /\ UNCHANGED <<port, hmsg, list, scan, answers, status, intVars, int_requested, unit_pipe,
                 back_pipe, threadVars, self, cmdsVars, resetVars>>

\* The command "did not complete yet": FSML_Enqueue.
HEnqueue(u) ==
  /\ HGoto(u, "enqueue", "loop")
  /\ d5' = Update(d5, u, d5[u] + 1)
  /\ list' = Update(list, u, <<hmsg[u]>> \o list[u])
  /\ hmsg' = Update(hmsg, u, Dummy)
  /\ UNCHANGED <<port, scan, answers, status, intVars, int_requested, unit_pipe,
                 back_pipe, threadVars, self, cmdsVars, resetVars>>

\* Mutant: commands count as acknowledged that no message was sent for.
Mut_HRelease_Sent(u) ==
  /\ HGoto(u, "release", "check")
  /\ cmds_complete' = Update(cmds_complete, u, cmds_sent[u])
  /\ back_pipe' = Update(back_pipe, u, 0)
  /\ scan' = Update(scan, u, 1)
  /\ UNCHANGED <<port, hmsg, list, d5, answers, status, intVars, int_requested, unit_pipe,
                 threadVars, self, cmds_sent, cmds_acked, resetVars>>

\* exter_int_helper (1): the dummy message has arrived.
HRelease(u) ==
  /\ HGoto(u, "release", "check")
  /\ cmds_complete' = Update(cmds_complete, u, cmds_acked[u])
  /\ back_pipe' = Update(back_pipe, u, 0)
  /\ scan' = Update(scan, u, 1)
  /\ UNCHANGED <<port, hmsg, list, d5, answers, status, intVars, int_requested, unit_pipe,
                 threadVars, self, cmds_sent, cmds_acked, resetVars>>

\* Mutant: every command that was handed over is answered.
Mut_HReply(u) ==
  /\ HGoto(u, "check", "check")
  /\ scan[u] <= Len(list[u]) /\ status[list[u][scan[u]]] \in {"started"} \cup Done
  /\ answers' = [answers EXCEPT ![list[u][scan[u]]] = @ + 1]
  /\ list' = Update(list, u, RemoveAt(list[u], scan[u]))
  /\ d5' = Update(d5, u, d5[u] - 1)
  /\ UNCHANGED <<port, hmsg, scan, status, intVars, int_requested, unit_pipe, back_pipe,
                 threadVars, self, cmdsVars, resetVars>>

\* FSML_check_old at a command that is complete: ReplyOne.
HReply(u) ==
  /\ HGoto(u, "check", "check")
  /\ scan[u] <= Len(list[u]) /\ Marked(list[u][scan[u]])
  /\ answers' = [answers EXCEPT ![list[u][scan[u]]] = @ + 1]
  /\ list' = Update(list, u, RemoveAt(list[u], scan[u]))
  /\ d5' = Update(d5, u, d5[u] - 1)
  /\ UNCHANGED <<port, hmsg, scan, status, intVars, int_requested, unit_pipe, back_pipe,
                 threadVars, self, cmdsVars, resetVars>>

\* FSML_check_next
HCheckNext(u) ==
  /\ HGoto(u, "check", "check")
  /\ scan[u] <= Len(list[u]) /\ ~Marked(list[u][scan[u]])
  /\ scan' = Update(scan, u, scan[u] + 1)
  /\ UNCHANGED <<port, hmsg, list, d5, answers, status, intVars, int_requested, unit_pipe,
                 back_pipe, threadVars, self, cmdsVars, resetVars>>

HChecked(u) ==
  /\ HGoto(u, "check", "loop")
  /\ scan[u] > Len(list[u])
  /\ scan' = Update(scan, u, 0)
  /\ UNCHANGED <<port, hmsg, list, d5, answers, status, intVars, int_requested, unit_pipe,
                 back_pipe, threadVars, self, cmdsVars, resetVars>>

-----------------------------------------------------------------------------
(* The EXTER interrupt server (exter_server, exter_int_helper)               *)

\* exter_int_helper (0): is it for us?
IEnter ==
  /\ rpc = 0 /\ ipc = "off"
  /\ int_requested /\ int_sem > 0
  /\ ipc' = "on" /\ int_sem' = int_sem - 1 /\ unit_no' = 1
  /\ int_requested' = FALSE
  /\ UNCHANGED <<amigaVars, status, unit_pipe, back_pipe, threadVars, self, cmdsVars, resetVars>>

\* Mutant: a unit whose dummy message is still on its way counts.
Mut_NeedsMessage(u) == self[u] /\ cmds_acked[u] # cmds_sent[u]

\* "a unit that needs a message sent"
NeedsMessage(u) ==
  /\ self[u]
  /\ cmds_acked[u] = cmds_complete[u]
  /\ cmds_acked[u] # cmds_sent[u]

\* exter_int_helper (2) that finds one, and the PutMsg.
IPutMsg(u) ==
  /\ rpc = 0 /\ ipc = "on"
  /\ u >= unit_no /\ NeedsMessage(u) /\ \A v \in unit_no .. u - 1 : ~NeedsMessage(v)
  /\ cmds_acked' = Update(cmds_acked, u, cmds_sent[u])
  /\ port' = Update(port, u, Append(port[u], Dummy))
  /\ unit_no' = u + 1
  /\ UNCHANGED <<hpc, hmsg, list, scan, d5, answers, status, ipc, int_sem, int_requested,
                 unit_pipe, back_pipe, threadVars, self, cmds_sent, cmds_complete, resetVars>>

\* exter_int_helper (2) that finds none, and (4).
IExit ==
  /\ rpc = 0 /\ ipc = "on"
  /\ \A v \in unit_no .. NUnits : ~NeedsMessage(v)
  /\ ipc' = "off" /\ int_sem' = int_sem + 1 /\ unit_no' = 1
  /\ UNCHANGED <<amigaVars, status, int_requested, unit_pipe, back_pipe, threadVars, self,
                 cmdsVars, resetVars>>

-----------------------------------------------------------------------------
(* record_timeout, once a frame on the emulation thread, wherever the 68k    *)
(* is: a packet has waited for a record lock long enough.  It is marked, and *)
(* the handler process gets a signal, through native2amiga and its           *)
(* interrupt; the process takes it for the news that a disk was changed and  *)
(* does not look at its queue.  What happens if the unit's thread works in   *)
(* the same list is RecordLocks' matter.                                     *)
RecordTimeout(u) ==
  /\ rpc = 0
  /\ \E p \in waitingrecords[u] :
       /\ status' = [status EXCEPT ![p] = "timedout"]
       /\ waitingrecords' = Update(waitingrecords, u, waitingrecords[u] \ {p})
  /\ int_requested' = TRUE
  /\ UNCHANGED <<amigaVars, intVars, unit_pipe, back_pipe, tpc, tcmd, self, cmdsVars, resetVars>>

-----------------------------------------------------------------------------
(* The thread of unit u (filesys_thread)                                     *)

TGoto(u, from, to) == tpc[u] = from /\ tpc' = Update(tpc, u, to)

TRead(u) ==
  /\ unit_pipe[u] # <<>>
  /\ LET cmd == Head(unit_pipe[u]) IN
       /\ TGoto(u, "read", IF reset_state[u] # "FS_GO_DOWN" THEN "handle"
                           ELSE IF cmd = Death THEN "die" ELSE "read")
       /\ tcmd' = Update(tcmd, u, cmd)
  /\ unit_pipe' = Update(unit_pipe, u, Tail(unit_pipe[u]))
  /\ UNCHANGED <<amigaVars, status, intVars, int_requested, back_pipe, waitingrecords, self,
                 cmdsVars, resetVars>>

\* handle_packet and the mark; a packet that frees a record lock completes
\* others, one that asks for a taken record lock waits itself.
THandle(u) ==
  /\ TGoto(u, "handle", "sent")
  /\ \/ \E freed \in SUBSET waitingrecords[u] :
          /\ waitingrecords' = Update(waitingrecords, u, waitingrecords[u] \ freed)
          /\ status' = [p \in Packets |->
                          IF p \in freed \cup {tcmd[u]} THEN "complete" ELSE status[p]]
     \/ /\ waitingrecords' = Update(waitingrecords, u, waitingrecords[u] \cup {tcmd[u]})
        /\ UNCHANGED status
  /\ tcmd' = Update(tcmd, u, Death)
  /\ UNCHANGED <<amigaVars, intVars, int_requested, unit_pipe, back_pipe, self, cmdsVars,
                 resetVars>>

TSent(u) ==
  /\ TGoto(u, "sent", "int")
  /\ cmds_sent' = Update(cmds_sent, u, cmds_sent[u] + 1)
  /\ UNCHANGED <<amigaVars, status, intVars, int_requested, unit_pipe, back_pipe, tcmd,
                 waitingrecords, self, cmds_acked, cmds_complete, resetVars>>

\* do_uae_int_requested
TInt(u) ==
  /\ TGoto(u, "int", "locks")
  /\ int_requested' = TRUE
  /\ UNCHANGED <<amigaVars, status, intVars, unit_pipe, back_pipe, tcmd, waitingrecords,
                 self, cmdsVars, resetVars>>

\* "Send back the locks", if any are left.
TLocks(u) ==
  /\ TGoto(u, "locks", "read")
  /\ \/ back_pipe[u] < BackRoom /\ back_pipe' = Update(back_pipe, u, back_pipe[u] + 1)
     \/ UNCHANGED back_pipe
  /\ UNCHANGED <<amigaVars, status, intVars, int_requested, unit_pipe, tcmd, waitingrecords,
                 self, cmdsVars, resetVars>>

\* Mutant: the thread dies without a word.
Mut_TDie(u) ==
  /\ TGoto(u, "die", "dead")
  /\ UNCHANGED <<amigaVars, status, intVars, int_requested, unit_pipe, back_pipe, tcmd,
                 waitingrecords, self, cmdsVars, resetVars>>

TDie(u) ==
  /\ TGoto(u, "die", "dead")
  /\ reset_sync_sem' = Update(reset_sync_sem, u, reset_sync_sem[u] + 1)
  /\ UNCHANGED <<amigaVars, status, intVars, int_requested, unit_pipe, back_pipe, tcmd,
                 waitingrecords, self, cmdsVars, reset_state, rpc, resets>>

-----------------------------------------------------------------------------
(* A reset of the machine, which takes the emulation thread wherever the 68k *)
(* was (reset_all_systems): filesys_prepare_reset2 for one unit after the    *)
(* other, filesys_reset, filesys_start_threads.                              *)

\* rpc = 2u - 1: the death message of unit u is to be sent; 2u: awaited.
RBegin ==
  /\ rpc = 0 /\ resets < MaxResets
  /\ rpc' = 1 /\ resets' = resets + 1
  /\ UNCHANGED <<amigaVars, status, intVars, int_requested, unit_pipe, back_pipe, threadVars,
                 self, cmdsVars, reset_state, reset_sync_sem>>

RDown(u) ==
  /\ rpc = 2 * u - 1
  /\ Len(unit_pipe[u]) < PipeRoom
  /\ reset_sync_sem' = Update(reset_sync_sem, u, 0)
  /\ reset_state' = Update(reset_state, u, "FS_GO_DOWN")
  /\ unit_pipe' = Update(unit_pipe, u, Append(unit_pipe[u], Death))
  /\ rpc' = rpc + 1
  /\ UNCHANGED <<amigaVars, status, intVars, int_requested, back_pipe, threadVars, self,
                 cmdsVars, resets>>

\* Mutant: nobody waits for the thread.
Mut_RWait(u) ==
  /\ rpc = 2 * u
  /\ rpc' = rpc + 1
  /\ UNCHANGED <<amigaVars, status, intVars, int_requested, unit_pipe, back_pipe, threadVars,
                 self, cmdsVars, reset_state, reset_sync_sem, resets>>

RWait(u) ==
  /\ rpc = 2 * u
  /\ reset_sync_sem[u] > 0 /\ reset_sync_sem' = Update(reset_sync_sem, u, reset_sync_sem[u] - 1)
  /\ rpc' = rpc + 1
  /\ UNCHANGED <<amigaVars, status, intVars, int_requested, unit_pipe, back_pipe, threadVars,
                 self, cmdsVars, reset_state, resets>>

\* The units are freed, pipes and threads are new, and the 68k boots.
RStart ==
  /\ rpc = 2 * NUnits + 1
  /\ port' = All(<<>>) /\ hpc' = All("boot") /\ hmsg' = All(Dummy)
  /\ list' = All(<<>>) /\ scan' = All(0) /\ d5' = All(0)
  /\ answers' = [p \in Packets |-> 0] /\ status' = [p \in Packets |-> "new"]
  /\ self' = All(FALSE) /\ waitingrecords' = All({})
  /\ unit_pipe' = All(<<>>) /\ back_pipe' = All(0)
  /\ reset_state' = All("FS_STARTUP") /\ reset_sync_sem' = reset_sync_sem
  /\ tpc' = All("read") /\ tcmd' = All(Death)
  /\ ipc' = "off" /\ UNCHANGED <<unit_no, int_sem>>
  /\ rpc' = 0
  /\ UNCHANGED <<int_requested, cmdsVars, resets>>

-----------------------------------------------------------------------------
Handler(u) ==
  \/ HBoot(u) \/ HGetMsg(u) \/ HDefer(u) \/ HStart(u) \/ HRefuse(u) \/ HEnqueue(u)
  \/ HRelease(u) \/ HReply(u) \/ HCheckNext(u) \/ HChecked(u)
Interrupt == IEnter \/ IExit \/ \E u \in Units : IPutMsg(u)
Thread(u) == TRead(u) \/ THandle(u) \/ TSent(u) \/ TInt(u) \/ TLocks(u) \/ TDie(u)
Reset == RStart \/ \E u \in Units : RDown(u) \/ RWait(u)

\* The machine is idle: nobody sends any more.
Quiet ==
  /\ rpc = 0 /\ resets = MaxResets /\ ipc = "off" /\ ~(int_requested /\ int_sem > 0)
  /\ \A u \in Units : hpc[u] = "loop" /\ port[u] = <<>> /\ tpc[u] = "read" /\ unit_pipe[u] = <<>>
  /\ \A p \in Packets : status[p] # "new"
  /\ UNCHANGED vars

Next ==
  \/ Interrupt \/ RBegin \/ Reset \/ Quiet
  \/ \E u \in Units : Handler(u) \/ Thread(u) \/ RecordTimeout(u)
  \/ \E p \in Packets : Send(p)

Spec == Init /\ [][Next]_vars

\* The threads run, and on the emulation thread the interrupt server, the
\* handler processes and a reset that has begun.  Nobody has to send.
FairSpec ==
  /\ Spec
  /\ WF_vars(Interrupt) /\ WF_vars(Reset)
  /\ \A u \in Units : WF_vars(Handler(u)) /\ WF_vars(Thread(u))

-----------------------------------------------------------------------------
(* The types; the counters never run ahead of the commands.                  *)
TypeOK ==
  /\ port \in [Units -> Seq(Packets \cup {Dummy})]
  /\ hpc \in [Units -> {"boot", "loop", "start", "defer", "enqueue", "release", "check"}]
  /\ hmsg \in [Units -> Packets \cup {Dummy}]
  /\ list \in [Units -> Seq(Packets)] /\ scan \in [Units -> 0 .. NPackets + 1]
  /\ d5 \in [Units -> 0 .. NPackets]
  /\ status \in [Packets -> {"new", "sent", "unstarted", "started"} \cup Done]
  /\ answers \in [Packets -> Nat]
  /\ ipc \in {"on", "off"} /\ unit_no \in 1 .. NUnits + 1 /\ int_sem \in {0, 1}
  /\ int_requested \in BOOLEAN
  /\ unit_pipe \in [Units -> Seq(Packets \cup {Death})]
  /\ back_pipe \in [Units -> 0 .. BackRoom]
  /\ tpc \in [Units -> {"read", "handle", "sent", "int", "locks", "die", "dead"}]
  /\ tcmd \in [Units -> Packets \cup {Death}]
  /\ waitingrecords \in [Units -> SUBSET Packets]
  /\ self \in [Units -> BOOLEAN]
  /\ \A u \in Units : /\ cmds_sent[u] \in 0 .. NPackets
                      /\ cmds_acked[u] \in 0 .. cmds_sent[u]
                      /\ cmds_complete[u] \in 0 .. cmds_acked[u]
  /\ reset_state \in [Units -> {"FS_STARTUP", "FS_GO_DOWN"}]
  /\ reset_sync_sem \in [Units -> {0, 1}]
  /\ rpc \in 0 .. 2 * NUnits + 1 /\ resets \in 0 .. MaxResets

(* A unit has one dummy message and the interrupt server uses it again and   *)
(* again: it is never queued while the port or the handler still has it      *)
(* (exter_int_helper, cmds_acked = cmds_complete).                           *)
OneDummy ==
  \A u \in Units :
    Cardinality({i \in 1 .. Len(port[u]) : port[u][i] = Dummy})
      + (IF hpc[u] = "release" THEN 1 ELSE 0) <= 1

(* A packet is answered at most once, and not while the unit's thread still  *)
(* has it to do, works on it or keeps it for a record lock (the concurrent   *)
(* scan of FSML_check_old).                                                  *)
AnsweredOnce ==
  \A p \in Packets :
    /\ answers[p] <= 1
    /\ (answers[p] = 1 /\ rpc = 0) =>
         LET u == Home(p) IN
           /\ \A i \in 1 .. Len(unit_pipe[u]) : unit_pipe[u][i] # p
           /\ ~(tpc[u] = "handle" /\ tcmd[u] = p)
           /\ p \notin waitingrecords[u]

(* The limit on started commands keeps both pipes of a unit from filling:    *)
(* neither the emulation thread nor the unit's thread ever blocks on a       *)
(* write, so they cannot wait for each other.  The locks of commands already *)
(* replied to may still be in the pipe or, of one command, on their way: up  *)
(* to the limit are, while as many new commands are started, and that one.   *)
PipesNeverFill ==
  \A u \in Units :
    /\ Len(unit_pipe[u]) <= MaxStarted + (IF reset_state[u] = "FS_GO_DOWN" THEN 1 ELSE 0)
    /\ back_pipe[u] <= 2 * MaxStarted + 1

(* When everybody is at rest no command that the unit's thread has completed *)
(* is left in a queue: the interrupt for it has come, and the scan has seen  *)
(* it.  One whose record lock timed out does lie there: nobody scans for it. *)
NothingForgotten ==
  \A u \in Units :
    (/\ rpc = 0 /\ ipc = "off" /\ ~int_requested
     /\ hpc[u] = "loop" /\ port[u] = <<>>
     /\ tpc[u] = "read" /\ unit_pipe[u] = <<>>)
      => \A i \in 1 .. Len(list[u]) : status[list[u][i]] # "complete"

(* The thread of a unit touches the unit only while there is one: a reset    *)
(* frees it after the thread has died.                                       *)
UnitOutlivesThread ==
  \A u \in Units :
    /\ tpc[u] \in {"handle", "sent", "int", "locks"} => self[u]
    /\ rpc > 2 * u => tpc[u] = "dead"

(* Every command that was started is answered, unless it waits for a record  *)
(* lock or the machine is reset.                                             *)
StartedIsAnswered ==
  \A p \in Packets :
    status[p] = "started" ~>
      answers[p] > 0 \/ p \in waitingrecords[Home(p)] \/ rpc # 0

(* A packet whose record lock timed out is answered together with the next   *)
(* command of its unit, whatever that one is: no scan passes it over.        *)
TimedOutIsAnswered ==
  \A p \in Packets :
    LET u == Home(p) IN
      status[p] = "timedout" /\ cmds_sent[u] # cmds_acked[u] ~> answers[p] > 0 \/ rpc # 0

(* A packet that had to wait for others to finish is started in the end.     *)
UnstartedIsStarted ==
  \A p \in Packets : status[p] = "unstarted" ~> status[p] # "unstarted"

(* A reset that has begun comes to its end: every unit's thread gets its     *)
(* death message and confirms it.                                            *)
ResetEnds == rpc # 0 ~> rpc = 0
=============================================================================
