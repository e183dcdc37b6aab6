---------------------------- MODULE ExtendedTrap ----------------------------
(***************************************************************************)
(* Extended traps (traps.c): 68k code calls a host function that may call  *)
(* 68k functions.  Every invocation has a thread of its own, and the 68k   *)
(* is handed to and fro between that thread and the emulation thread with  *)
(* two semaphores per invocation, a mutex, the interrupt mask of the 68k   *)
(* and a pointer that the 68k carries on its stack.                        *)
(***************************************************************************)
EXTENDS Naturals, Sequences, FiniteSets, SequencesExt

CONSTANTS
  Tasks,      \* the Amiga tasks that use extended traps
  NContexts,  \* bound: the invocations made
  MaxCalls,   \* bound: the 68k functions one host function calls
  MaxResets   \* bound: the resets of the machine

ASSUME TrapAssumption ==
  /\ Tasks # {} /\ {NContexts, MaxCalls} \subseteq Nat \ {0} /\ MaxResets \in Nat

Contexts == 1 .. NContexts
Null == 0

VARIABLES
  emu,              \* the emulation thread: it runs "68k" code, or waits for the
                    \* "mutex" (m68k_return_handler) or the "switch" back
  emu_context,      \* whose switch_to_emu_sem it waits for
  regs,             \* the 68k: its task, how much is on that task's stack (a7), what
                    \* the PC is at ("code" or one of two traps), all interrupts masked?
  stack,            \* per task: what m68k_call_handler pushed, a context and the
                    \* number of the call; what is above a7 is garbage
  switched,         \* per task: its a7 and PC while it does not run
  trap_mutex, current_context,
  thread,           \* per context: where its thread is
  to_trap, to_emu,  \* switch_to_trap_sem, switch_to_emu_sem
  saved_regs, ncalls, call68k_retval,
  resets            \* how many there were

machine == <<emu, emu_context, regs, stack, switched>>
contextVars == <<thread, to_trap, to_emu, saved_regs, ncalls, call68k_retval>>
vars == <<machine, trap_mutex, current_context, contextVars, resets>>

Fresh(t) == [task |-> t, sp |-> 0, pc |-> "code", masked |-> FALSE]

Init ==
  /\ emu = "68k" /\ emu_context = Null
  /\ \E t \in Tasks : regs = Fresh(t)
  /\ stack = [t \in Tasks |-> <<>>]
  /\ switched = [t \in Tasks |-> [sp |-> 0, pc |-> "code"]]
  /\ trap_mutex = 1 /\ current_context = Null
  /\ thread = [c \in Contexts |-> "none"]
  /\ to_trap = [c \in Contexts |-> 0] /\ to_emu = [c \in Contexts |-> 0]
  /\ saved_regs = [c \in Contexts |-> regs]
  /\ ncalls = [c \in Contexts |-> 0] /\ call68k_retval = [c \in Contexts |-> 0]
  /\ resets = 0

Wait(sem, c) == sem[c] > 0 /\ sem' = [sem EXCEPT ![c] = @ - 1]
Post(sem, c) == sem' = [sem EXCEPT ![c] = @ + 1]
WaitMutex == trap_mutex > 0 /\ trap_mutex' = trap_mutex - 1
PostMutex == trap_mutex' = trap_mutex + 1
Goto(c, from, to) == thread[c] = from /\ thread' = [thread EXCEPT ![c] = to]

-----------------------------------------------------------------------------
(* The emulation thread                                                      *)

\* 68k code invokes an extended trap (trap_HandleExtendedTrap up to its wait).
EnterTrap(c) ==
  /\ emu = "68k" /\ regs.pc = "code"
  /\ \A d \in Contexts : d < c => thread[d] # "none"
  /\ Goto(c, "none", "start")
  /\ saved_regs' = [saved_regs EXCEPT ![c] = regs]
  /\ Post(to_trap, c)
  /\ emu' = "switch" /\ emu_context' = c
  /\ UNCHANGED <<regs, stack, switched, trap_mutex, current_context, to_emu, ncalls,
                 call68k_retval, resets>>

\* The context has switched back: the trap that waited for it is over.
SwitchedBack ==
  /\ emu = "switch"
  /\ Wait(to_emu, emu_context)
  /\ emu' = "68k"
  /\ UNCHANGED <<emu_context, regs, stack, switched, trap_mutex, current_context, thread,
                 to_trap, saved_regs, ncalls, call68k_retval, resets>>

\* Mutant: the critical section never ends.
Mut_CallHandler ==
  /\ emu = "68k" /\ regs.pc = "call"
  /\ LET t == regs.task
         frame == [context |-> current_context, call |-> ncalls[current_context]] IN
       /\ stack' = [stack EXCEPT ![t] = Append(SubSeq(@, 1, regs.sp), frame)]
       /\ regs' = [task |-> t, sp |-> regs.sp + 1, pc |-> "code",
                   masked |-> saved_regs[current_context].masked]
  /\ UNCHANGED <<emu, emu_context, switched, trap_mutex, current_context, contextVars, resets>>

\* m68k_call_handler: into the 68k function.
CallHandler ==
  /\ emu = "68k" /\ regs.pc = "call"
  /\ LET t == regs.task
         frame == [context |-> current_context, call |-> ncalls[current_context]] IN
       /\ stack' = [stack EXCEPT ![t] = Append(SubSeq(@, 1, regs.sp), frame)]
       /\ regs' = [task |-> t, sp |-> regs.sp + 1, pc |-> "code",
                   masked |-> saved_regs[current_context].masked]
  /\ PostMutex
  /\ UNCHANGED <<emu, emu_context, switched, current_context, contextVars, resets>>

\* The 68k function returns, into m68k_return_handler.
ReturnHandler ==
  /\ emu = "68k" /\ regs.pc = "code" /\ regs.sp > 0
  /\ emu' = "mutex"
  /\ UNCHANGED <<emu_context, regs, stack, switched, trap_mutex, current_context,
                 contextVars, resets>>

\* Mutant: the value is not handed over.
Mut_ReturnSwitch ==
  /\ emu = "mutex"
  /\ WaitMutex
  /\ LET frame == stack[regs.task][regs.sp] IN
       Post(to_trap, frame.context) /\ emu_context' = frame.context
  /\ regs' = [regs EXCEPT !.sp = @ - 1]
  /\ emu' = "switch"
  /\ UNCHANGED <<stack, switched, current_context, thread, to_emu, saved_regs, ncalls,
                 call68k_retval, resets>>

\* Mutant: nobody waits for the switch back.
Mut_ReturnSwitch_Wait ==
  /\ emu = "mutex"
  /\ WaitMutex
  /\ LET frame == stack[regs.task][regs.sp] IN
       /\ call68k_retval' = [call68k_retval EXCEPT ![frame.context] = frame.call]
       /\ Post(to_trap, frame.context)
       /\ emu_context' = frame.context
  /\ regs' = [regs EXCEPT !.sp = @ - 1]
  /\ emu' = "68k"
  /\ UNCHANGED <<stack, switched, current_context, thread, to_emu, saved_regs, ncalls, resets>>

\* It has the mutex: its context is on the stack, the function's value in d0.
ReturnSwitch ==
  /\ emu = "mutex"
  /\ WaitMutex
  /\ LET frame == stack[regs.task][regs.sp] IN
       /\ call68k_retval' = [call68k_retval EXCEPT ![frame.context] = frame.call]
       /\ Post(to_trap, frame.context)
       /\ emu_context' = frame.context
  /\ regs' = [regs EXCEPT !.sp = @ - 1]
  /\ emu' = "switch"
  /\ UNCHANGED <<stack, switched, current_context, thread, to_emu, saved_regs, ncalls, resets>>

\* exit_trap_handler, once the thread has ended.
ExitHandler ==
  /\ emu = "68k" /\ regs.pc = "exit"
  /\ Goto(current_context, "gone", "freed")
  /\ regs' = saved_regs[current_context]
  /\ PostMutex
  /\ UNCHANGED <<emu, emu_context, stack, switched, current_context, to_trap, to_emu,
                 saved_regs, ncalls, call68k_retval, resets>>

\* An interrupt makes another task run.
Switch(t) ==
  /\ emu = "68k" /\ ~regs.masked /\ t # regs.task
  /\ switched' = [switched EXCEPT ![regs.task] = [sp |-> regs.sp, pc |-> regs.pc]]
  /\ regs' = [task |-> t, sp |-> switched[t].sp, pc |-> switched[t].pc, masked |-> FALSE]
  /\ UNCHANGED <<emu, emu_context, stack, trap_mutex, current_context, contextVars, resets>>

\* The machine is reset between two instructions; traps.c does not hear of it.
Reset ==
  /\ emu = "68k" /\ resets < MaxResets
  /\ \E t \in Tasks : regs' = Fresh(t)
  /\ stack' = [t \in Tasks |-> <<>>]
  /\ switched' = [t \in Tasks |-> [sp |-> 0, pc |-> "code"]]
  /\ resets' = resets + 1
  /\ UNCHANGED <<emu, emu_context, trap_mutex, current_context, contextVars>>

-----------------------------------------------------------------------------
(* The thread of context c (trap_thread)                                     *)

Start(c) ==
  /\ Goto(c, "start", "handler")
  /\ Wait(to_trap, c)
  /\ UNCHANGED <<machine, trap_mutex, current_context, to_emu, saved_regs, ncalls,
                 call68k_retval, resets>>

\* The host function calls a 68k function (trap_Call68k), or it is done.
Call68k(c) ==
  /\ ncalls[c] < MaxCalls
  /\ Goto(c, "handler", "call")
  /\ UNCHANGED <<machine, trap_mutex, current_context, to_trap, to_emu, saved_regs, ncalls,
                 call68k_retval, resets>>

Done(c) ==
  /\ Goto(c, "handler", "done")
  /\ UNCHANGED <<machine, trap_mutex, current_context, to_trap, to_emu, saved_regs, ncalls,
                 call68k_retval, resets>>

\* "only one trap at a time, please!"
Enter(c) ==
  /\ Goto(c, "call", "calling") \/ Goto(c, "done", "leaving")
  /\ WaitMutex
  /\ UNCHANGED <<machine, current_context, to_trap, to_emu, saved_regs, ncalls,
                 call68k_retval, resets>>

\* Mutant: interrupts are not masked.
Mut_Calling(c) ==
  /\ Goto(c, "calling", "called")
  /\ current_context' = c
  /\ ncalls' = [ncalls EXCEPT ![c] = @ + 1]
  /\ regs' = [regs EXCEPT !.pc = "call"]
  /\ Post(to_emu, c)
  /\ UNCHANGED <<emu, emu_context, stack, switched, trap_mutex, to_trap, saved_regs,
                 call68k_retval, resets>>

\* The call is set up and the emulation thread goes on.
Calling(c) ==
  /\ Goto(c, "calling", "called")
  /\ current_context' = c
  /\ ncalls' = [ncalls EXCEPT ![c] = @ + 1]
  /\ regs' = [regs EXCEPT !.pc = "call", !.masked = TRUE]
  /\ Post(to_emu, c)
  /\ UNCHANGED <<emu, emu_context, stack, switched, trap_mutex, to_trap, saved_regs,
                 call68k_retval, resets>>

\* The 68k function has returned.
Called(c) ==
  /\ Goto(c, "called", "back")
  /\ Wait(to_trap, c)
  /\ UNCHANGED <<machine, trap_mutex, current_context, to_emu, saved_regs, ncalls,
                 call68k_retval, resets>>

Back(c) ==
  /\ Goto(c, "back", "handler")
  /\ PostMutex
  /\ UNCHANGED <<machine, current_context, to_trap, to_emu, saved_regs, ncalls,
                 call68k_retval, resets>>

\* Mutant: the registers stay as the last 68k function left them, masked.
Mut_Leaving(c) ==
  /\ Goto(c, "leaving", "gone")
  /\ regs' = [regs EXCEPT !.pc = "exit", !.masked = TRUE, !.sp = 0]
  /\ current_context' = c
  /\ Post(to_emu, c)
  /\ UNCHANGED <<emu, emu_context, stack, switched, trap_mutex, to_trap, saved_regs, ncalls,
                 call68k_retval, resets>>

\* The exit trap is set up and the thread ends.
Leaving(c) ==
  /\ Goto(c, "leaving", "gone")
  /\ regs' = [saved_regs[c] EXCEPT !.pc = "exit", !.masked = TRUE]
  /\ current_context' = c
  /\ Post(to_emu, c)
  /\ UNCHANGED <<emu, emu_context, stack, switched, trap_mutex, to_trap, saved_regs, ncalls,
                 call68k_retval, resets>>

-----------------------------------------------------------------------------
Emulation == SwitchedBack \/ CallHandler \/ ReturnHandler \/ ReturnSwitch \/ ExitHandler
Blocked == SwitchedBack \/ CallHandler \/ ReturnSwitch \/ ExitHandler
Thread(c) ==
  \/ Start(c) \/ Call68k(c) \/ Done(c) \/ Enter(c) \/ Calling(c) \/ Called(c) \/ Back(c)
  \/ Leaving(c)

Next ==
  \/ Emulation \/ Reset
  \/ \E t \in Tasks : Switch(t)
  \/ \E c \in Contexts : EnterTrap(c) \/ Thread(c)

Spec == Init /\ [][Next]_vars

\* The threads run, the host functions come to an end, and the emulation thread
\* goes on when it can; what 68k code does is its own affair.
FairSpec == Spec /\ WF_vars(Blocked) /\ \A c \in Contexts : WF_vars(Thread(c))

-----------------------------------------------------------------------------
Registers ==
  [task : Tasks, sp : 0 .. NContexts, pc : {"code", "call", "exit"}, masked : BOOLEAN]

(* The types; every semaphore is binary.                                     *)
TypeOK ==
  /\ emu \in {"68k", "mutex", "switch"} /\ emu_context \in Contexts \cup {Null}
  /\ regs \in Registers
  /\ stack \in [Tasks -> Seq([context : Contexts, call : 1 .. MaxCalls])]
  /\ switched \in [Tasks -> [sp : 0 .. NContexts, pc : {"code", "call", "exit"}]]
  /\ trap_mutex \in {0, 1} /\ current_context \in Contexts \cup {Null}
  /\ thread \in [Contexts -> {"none", "start", "handler", "call", "calling", "called", "back",
                              "done", "leaving", "gone", "freed"}]
  /\ to_trap \in [Contexts -> {0, 1}] /\ to_emu \in [Contexts -> {0, 1}]
  /\ saved_regs \in [Contexts -> Registers]
  /\ ncalls \in [Contexts -> 0 .. MaxCalls]
  /\ call68k_retval \in [Contexts -> 0 .. MaxCalls]
  /\ resets \in 0 .. MaxResets

(* Only one thread has the 68k and may touch regs: the emulation thread, or  *)
(* the thread of one context between its wake-up and its switch back.        *)
OneHasThe68k ==
  Cardinality({c \in Contexts : thread[c] \in {"handler", "call", "calling", "back", "done",
                                               "leaving"}})
    + (IF emu = "68k" THEN 1 ELSE 0) <= 1

(* "Don't allow an interrupt and thus potentially another trap to be invoked *)
(* while we hold the above mutex": 68k code never runs inside the critical   *)
(* section, neither another task's nor, after a reset, the booting system's. *)
NoTrapInside == emu = "68k" /\ regs.pc = "code" => trap_mutex = 1

(* The same as long as the machine is not reset.                             *)
AloneInside == resets = 0 => NoTrapInside

(* A host function gets the value of the function it called last.            *)
OwnValue == \A c \in Contexts : thread[c] = "back" => call68k_retval[c] = ncalls[c]

(* The emulation thread is never stuck in a trap: 68k code runs again, when  *)
(* the host functions end and the machine is not reset.                      *)
CodeRunsAgain ==
  ~(emu = "68k" /\ regs.pc = "code") ~> (emu = "68k" /\ regs.pc = "code") \/ resets > 0

(* Traps and calls nest: TrapCalls is implemented.  What is on a task's      *)
(* stack is a trap and the 68k function it called, again and again; a trap   *)
(* that has called nothing comes last.                                       *)
OnStack(t) == SubSeq(stack[t], 1, IF t = regs.task THEN regs.sp ELSE switched[t].sp)
Pending(t) ==
  [j \in 1 .. 2 * Len(OnStack(t)) |->
     [kind |-> IF j % 2 = 1 THEN "trap" ELSE "func", context |-> OnStack(t)[(j + 1) \div 2].context]]
Innermost ==
  {c \in Contexts : /\ thread[c] \notin {"none", "freed"}
                    /\ \A t \in Tasks : \A i \in 1 .. Len(OnStack(t)) : OnStack(t)[i].context # c}

Down == resets > 0
Task == IF Down THEN CHOOSE t \in Tasks : TRUE ELSE regs.task
Invoked == {c \in Contexts : thread[c] # "none" /\ ~Down}
CallStacks ==
  [t \in Tasks |->
     IF Down THEN <<>>
     ELSE Pending(t) \o IF t = regs.task
                        THEN SetToSeq({[kind |-> "trap", context |-> c] : c \in Innermost})
                        ELSE <<>>]

Nested == INSTANCE TrapCalls WITH
  down <- Down, running <- Task, used <- Invoked, calls <- CallStacks

TrapsNest == Nested!Spec
=============================================================================
