----------------------------- MODULE TrapCalls -----------------------------
(***************************************************************************)
(* What the extended traps of UAE promise: a host function invoked by 68k  *)
(* code, and 68k functions invoked by it, nest like procedure calls on the *)
(* stack of the Amiga task that made them, whatever the other tasks do in  *)
(* the meantime; a task is not left while a host function runs on it.      *)
(* Of what a reset of the machine finds in work nothing is promised.       *)
(***************************************************************************)
EXTENDS Naturals, Sequences, SequencesExt

CONSTANTS
  Tasks,     \* the tasks of the Amiga
  Contexts   \* one for every invocation of an extended trap

VARIABLES
  running,   \* the task that runs
  calls,     \* per task: what has been called and not finished, innermost last
  used,      \* the invocations made so far
  down       \* was the machine reset?

vars == <<running, calls, used, down>>

Trap(c) == [kind |-> "trap", context |-> c]       \* c's host function
Func(c) == [kind |-> "func", context |-> c]       \* a 68k function that it called

In68k == ~down /\ (calls[running] = <<>> \/ Last(calls[running]).kind = "func")
InTrap(c) == calls[running] # <<>> /\ Last(calls[running]) = Trap(c)
InFunc(c) == calls[running] # <<>> /\ Last(calls[running]) = Func(c)

Push(x) == calls' = [calls EXCEPT ![running] = Append(@, x)]
Pop == calls' = [calls EXCEPT ![running] = Front(@)]

Init == running \in Tasks /\ calls = [t \in Tasks |-> <<>>] /\ used = {} /\ down = FALSE

Enter(c) == In68k /\ c \notin used /\ Push(Trap(c)) /\ used' = used \cup {c}
            /\ UNCHANGED <<running, down>>
Call(c) == InTrap(c) /\ Push(Func(c)) /\ UNCHANGED <<running, used, down>>
Return(c) == InFunc(c) /\ Pop /\ UNCHANGED <<running, used, down>>
Exit(c) == InTrap(c) /\ Pop /\ UNCHANGED <<running, used, down>>
Switch(t) == In68k /\ running' = t /\ UNCHANGED <<calls, used, down>>
Reset == down' = TRUE /\ running' \in Tasks /\ calls' = [t \in Tasks |-> <<>>] /\ used' = {}

Next ==
  \/ \E c \in Contexts : Enter(c) \/ Call(c) \/ Return(c) \/ Exit(c)
  \/ \E t \in Tasks : Switch(t)
  \/ Reset

Spec == Init /\ [][Next]_vars
=============================================================================
