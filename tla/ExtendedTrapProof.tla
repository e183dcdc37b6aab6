------------------------- MODULE ExtendedTrapProof -------------------------
(***************************************************************************)
(* Extended traps for every set of tasks, any number of invocations, calls *)
(* and resets: the 68k is in one pair of hands at a time, and every 68k    *)
(* function that is running has its frame on the stack of its task.        *)
(***************************************************************************)
EXTENDS ExtendedTrap, FiniteSetTheorems, SequenceTheorems, TLAPS

Frame == [context : Contexts, call : 1 .. MaxCalls]
SavedRegs == [task : Tasks, sp : 0 .. NContexts, pc : {"code"}, masked : {FALSE}]
Sp(t) == IF t = regs.task THEN regs.sp ELSE switched[t].sp

(* TypeOK, with what saved registers and tasks that do not run are known for:*)
(* they are in 68k code.                                                     *)
Types ==
  /\ emu \in {"68k", "mutex", "switch"} /\ emu_context \in Contexts \cup {Null}
  /\ regs \in Registers /\ (regs.pc = "code" <=> ~regs.masked)
  /\ stack \in [Tasks -> Seq(Frame)]
  /\ switched \in [Tasks -> [sp : 0 .. NContexts, pc : {"code"}]]
  /\ \A t \in Tasks : Sp(t) <= Len(stack[t])
  /\ trap_mutex \in {0, 1} /\ current_context \in Contexts \cup {Null}
  /\ thread \in [Contexts -> {"none", "start", "handler", "call", "calling", "called", "back",
                              "done", "leaving", "gone", "freed"}]
  /\ to_trap \in [Contexts -> {0, 1}] /\ to_emu \in [Contexts -> {0, 1}]
  /\ saved_regs \in [Contexts -> SavedRegs]
  /\ ncalls \in [Contexts -> 0 .. MaxCalls]
  /\ call68k_retval \in [Contexts -> 0 .. MaxCalls]
  /\ resets \in 0 .. MaxResets

Running == {"handler", "call", "calling", "back", "done", "leaving"}

(* The registers are those of the trap that context c was invoked with.      *)
AtTrap(c) == regs.task = saved_regs[c].task /\ regs.sp = saved_regs[c].sp

(* A context that does not have the 68k has no token in either semaphore.    *)
Resting(c) ==
  thread[c] \in {"none", "called", "gone", "freed"} /\ to_trap[c] = 0 /\ to_emu[c] = 0

(* Where the thread of the context is that the emulation thread waits for.   *)
Starting(c) == thread[c] = "start" /\ to_trap[c] = 1 /\ to_emu[c] = 0 /\ regs.pc = "code"
Active(c) == thread[c] \in Running /\ to_trap[c] = 0 /\ to_emu[c] = 0 /\ regs.pc = "code"
Returning(c) == /\ thread[c] = "called" /\ to_trap[c] = 1 /\ to_emu[c] = 0 /\ regs.pc = "code"
                /\ call68k_retval[c] = ncalls[c]
CallingUp(c) == /\ thread[c] = "called" /\ to_trap[c] = 0 /\ to_emu[c] = 1
                /\ regs.pc = "call" /\ current_context = c
Exiting(c) == /\ thread[c] = "gone" /\ to_trap[c] = 0 /\ to_emu[c] = 1
              /\ regs.pc = "exit" /\ current_context = c

(* The hand-over: who has the 68k, and where every other thread rests.       *)
HandOver ==
  /\ emu # "switch" => \A c \in Contexts : Resting(c)
  /\ emu = "switch" =>
       /\ emu_context \in Contexts /\ AtTrap(emu_context)
       /\ \A c \in Contexts \ {emu_context} : Resting(c)
       /\ \/ Starting(emu_context) \/ Active(emu_context) \/ Returning(emu_context)
          \/ CallingUp(emu_context) \/ Exiting(emu_context)
  /\ emu = "mutex" => regs.pc = "code" /\ regs.sp > 0
  /\ emu = "68k" /\ regs.pc # "code" =>
       /\ current_context \in Contexts /\ AtTrap(current_context)
       /\ regs.pc = "call" => thread[current_context] = "called"
       /\ regs.pc = "exit" => thread[current_context] = "gone"

(* The critical section of trap_mutex, which a reset may leave locked.       *)
Critical ==
  \/ emu = "switch" /\ \/ thread[emu_context] \in {"calling", "back", "leaving", "called", "gone"}
  \/ emu = "68k" /\ regs.pc # "code"
Mutex ==
  /\ Critical => trap_mutex = 0
  /\ resets = 0 /\ trap_mutex = 0 => Critical

Values ==
  \A c \in Contexts :
    /\ thread[c] \in {"call", "calling"} => ncalls[c] < MaxCalls
    /\ thread[c] = "called" => ncalls[c] > 0
    /\ thread[c] = "back" => call68k_retval[c] = ncalls[c]

(* A frame belongs to a context that waits for its 68k function, and lies    *)
(* where that context's trap was: no two frames are of the same context.     *)
FrameOK(t, i) ==
  LET c == stack[t][i].context IN
    /\ thread[c] = "called" /\ stack[t][i].call = ncalls[c]
    /\ saved_regs[c].task = t /\ saved_regs[c].sp = i - 1
Frames == \A t \in Tasks : \A i \in 1 .. Sp(t) : FrameOK(t, i)

IInv == Types /\ HandOver /\ Mutex /\ Values /\ Frames

-----------------------------------------------------------------------------
LEMMA InitIInv == Init => IInv
<1> SUFFICES ASSUME Init PROVE IInv
  OBVIOUS
<1>1. PICK t \in Tasks : regs = Fresh(t)
  BY DEF Init
<1>2. \A u \in Tasks : Sp(u) = 0 /\ stack[u] = <<>> /\ Len(stack[u]) = 0
  BY <1>1 DEF Init, Sp, Fresh
<1>3. NContexts \in Nat /\ MaxCalls \in Nat \ {0} /\ MaxResets \in Nat
  BY TrapAssumption
<1>4. 0 \in 0 .. NContexts /\ 0 \in 0 .. MaxCalls /\ 0 \in 0 .. MaxResets
  BY <1>3
<1>5. regs \in SavedRegs /\ regs \in Registers
  BY <1>1, <1>4 DEF Fresh, SavedRegs, Registers
<1>6. stack \in [Tasks -> Seq(Frame)] /\ switched \in [Tasks -> [sp : 0 .. NContexts, pc : {"code"}]]
  BY <1>4, EmptySeq DEF Init
<1>7. Types
  <2>1. regs.pc = "code" /\ ~regs.masked
    BY <1>1 DEF Fresh
  <2>2. \A u \in Tasks : Sp(u) <= Len(stack[u])
    BY <1>2
  <2>3. saved_regs \in [Contexts -> SavedRegs]
    BY <1>5 DEF Init
  <2>4. ncalls \in [Contexts -> 0 .. MaxCalls] /\ call68k_retval \in [Contexts -> 0 .. MaxCalls]
    BY <1>4 DEF Init
  <2> QED BY <1>4, <1>5, <1>6, <2>1, <2>2, <2>3, <2>4 DEF Init, Types
<1>8. HandOver /\ Mutex /\ Values
  BY <1>1 DEF Init, HandOver, Resting, Mutex, Critical, Values, Fresh
<1>9. Frames
  BY <1>2 DEF Frames
<1> QED BY <1>7, <1>8, <1>9 DEF IInv

(* A thread that is not at rest is that of the context waited for.           *)
LEMMA Holder ==
  ASSUME IInv, NEW c \in Contexts, ~Resting(c)
  PROVE  /\ emu = "switch" /\ c = emu_context /\ AtTrap(c)
         /\ \A d \in Contexts \ {c} : Resting(d)
         /\ Starting(c) \/ Active(c) \/ Returning(c) \/ CallingUp(c) \/ Exiting(c)
  BY DEF IInv, Types, HandOver

(* Where the stacks and the saved registers of the contexts on them stay.    *)
LEMMA FramesStay ==
  ASSUME IInv, UNCHANGED <<regs, stack, switched>>,
         \A c \in Contexts : thread[c] = "called" /\ Resting(c) =>
           UNCHANGED <<thread[c], ncalls[c], saved_regs[c]>>,
         \A c \in Contexts : thread[c] = "called" /\ ~Resting(c) =>
           AtTrap(c)
  PROVE  Frames'
<1> SUFFICES ASSUME NEW t \in Tasks, NEW i \in 1 .. Sp(t) PROVE FrameOK(t, i)'
  BY DEF Frames, Sp
<1> DEFINE c == stack[t][i].context
<1>1. FrameOK(t, i)
  BY DEF IInv, Frames
<1>2. c \in Contexts /\ Sp(t) \in Nat
  <2>1. stack[t] \in Seq(Frame) /\ Sp(t) <= Len(stack[t]) /\ Sp(t) \in 0 .. NContexts
    BY DEF IInv, Types, Sp, Registers
  <2>2. i \in 1 .. Len(stack[t])
    BY <2>1
  <2>3. stack[t][i] \in Frame
    BY <2>1, <2>2, ElementOfSeq
  <2> QED BY <2>1, <2>3 DEF Frame
<1>3. ~AtTrap(c)
  BY <1>1, <1>2 DEF FrameOK, AtTrap, Sp, IInv, Types, Registers
<1>4. UNCHANGED <<thread[c], ncalls[c], saved_regs[c]>>
  BY <1>1, <1>2, <1>3 DEF FrameOK
<1> QED BY <1>1, <1>4 DEF FrameOK

-----------------------------------------------------------------------------
(* The steps of a context's thread: it has the 68k before and, unless it     *)
(* gives it back, after.                                                     *)

LEMMA StartKeeps ==
  ASSUME IInv, NEW c \in Contexts, Start(c)
  PROVE  IInv'
<1> USE DEF Start, Goto, Wait, machine
<1>1. /\ emu = "switch" /\ c = emu_context /\ AtTrap(c) /\ Starting(c)
      /\ \A d \in Contexts \ {c} : Resting(d)
  BY Holder DEF Resting, Starting, Active, Returning, CallingUp, Exiting, Running
<1>2. Types'
  BY <1>1 DEF IInv, Types, Sp, Starting
<1>3. Active(c)' /\ AtTrap(c)' /\ \A d \in Contexts \ {c} : Resting(d)'
  BY <1>1 DEF IInv, Types, Starting, Active, AtTrap, Resting, Running
<1>4. HandOver'
  BY <1>1, <1>3 DEF HandOver
<1>5. Mutex' /\ Values'
  BY <1>1 DEF IInv, Types, Mutex, Critical, Values, Starting
<1>6. Frames'
  BY <1>1, FramesStay DEF IInv, Types, Starting
<1> QED BY <1>2, <1>4, <1>5, <1>6 DEF IInv

LEMMA ActiveKeeps ==
  ASSUME IInv, NEW c \in Contexts, Call68k(c) \/ Done(c) \/ Enter(c) \/ Back(c)
  PROVE  IInv'
<1> USE DEF Call68k, Done, Enter, Back, Goto, machine
<1>1. /\ emu = "switch" /\ c = emu_context /\ AtTrap(c) /\ Active(c)
      /\ \A d \in Contexts \ {c} : Resting(d)
  BY Holder DEF Resting, Starting, Active, Returning, CallingUp, Exiting, Running
<1>2. Types'
  <2>1. trap_mutex' \in {0, 1}
    BY <1>1 DEF IInv, Types, Mutex, Critical, WaitMutex, PostMutex
  <2> QED BY <1>1, <2>1 DEF IInv, Types, Sp, Active
<1>3. Active(c)' /\ AtTrap(c)' /\ \A d \in Contexts \ {c} : Resting(d)'
  BY <1>1 DEF IInv, Types, Active, AtTrap, Resting, Running
<1>4. HandOver'
  BY <1>1, <1>3 DEF HandOver
<1>5. Mutex' /\ Values'
  BY <1>1 DEF IInv, Types, Mutex, Critical, Values, WaitMutex, PostMutex
<1>6. Frames'
  BY <1>1, FramesStay DEF IInv, Types, Active, Running
<1> QED BY <1>2, <1>4, <1>5, <1>6 DEF IInv

LEMMA CalledKeeps ==
  ASSUME IInv, NEW c \in Contexts, Called(c)
  PROVE  IInv'
<1> USE DEF Called, Goto, Wait, machine
<1>1. /\ emu = "switch" /\ c = emu_context /\ AtTrap(c) /\ Returning(c)
      /\ \A d \in Contexts \ {c} : Resting(d)
  BY Holder DEF Resting, Starting, Active, Returning, CallingUp, Exiting, Running
<1>2. Types'
  BY <1>1 DEF IInv, Types, Sp, Returning
<1>3. Active(c)' /\ AtTrap(c)' /\ \A d \in Contexts \ {c} : Resting(d)'
  BY <1>1 DEF IInv, Types, Returning, Active, AtTrap, Resting, Running
<1>4. HandOver'
  BY <1>1, <1>3 DEF HandOver
<1>5. Mutex' /\ Values'
  BY <1>1 DEF IInv, Types, Mutex, Critical, Values, Returning
<1>6. Frames'
  BY <1>1, FramesStay DEF IInv, Types, Resting
<1> QED BY <1>2, <1>4, <1>5, <1>6 DEF IInv

LEMMA CallingKeeps ==
  ASSUME IInv, NEW c \in Contexts, Calling(c)
  PROVE  IInv'
<1> USE DEF Calling, Goto, Post
<1>1. /\ emu = "switch" /\ c = emu_context /\ AtTrap(c) /\ Active(c)
      /\ \A d \in Contexts \ {c} : Resting(d)
  BY Holder DEF Resting, Starting, Active, Returning, CallingUp, Exiting, Running
<1>2. /\ regs' \in Registers /\ regs'.task = regs.task /\ regs'.sp = regs.sp
      /\ regs'.pc = "call" /\ regs'.masked
  BY DEF IInv, Types, Registers
<1>3. ncalls'[c] = ncalls[c] + 1 /\ ncalls'[c] \in 1 .. MaxCalls
  BY TrapAssumption DEF IInv, Types, Values
<1>4. Types'
  <2>1. \A t \in Tasks : Sp(t)' = Sp(t)
    BY <1>2 DEF Sp
  <2>2. ncalls' \in [Contexts -> 0 .. MaxCalls]
    BY <1>3, TrapAssumption DEF IInv, Types
  <2>3. to_emu' \in [Contexts -> {0, 1}]
    BY <1>1 DEF IInv, Types, Active
  <2> QED BY <1>1, <1>2, <2>1, <2>2, <2>3 DEF IInv, Types
<1>5. CallingUp(c)' /\ AtTrap(c)' /\ \A d \in Contexts \ {c} : Resting(d)'
  BY <1>1, <1>2 DEF IInv, Types, Active, CallingUp, AtTrap, Resting
<1>6. HandOver'
  BY <1>1, <1>5 DEF HandOver
<1>7. Mutex' /\ Values'
  BY <1>1, <1>3 DEF IInv, Types, Mutex, Critical, Values
<1>8. Frames'
  <2> SUFFICES ASSUME NEW t \in Tasks, NEW i \in 1 .. Sp(t) PROVE FrameOK(t, i)'
    BY <1>2 DEF Frames, Sp
  <2>1. FrameOK(t, i) /\ stack[t][i].context # c
    BY <1>1 DEF IInv, Frames, FrameOK, Active, Running
  <2> QED BY <2>1 DEF FrameOK, IInv, Types
<1> QED BY <1>4, <1>6, <1>7, <1>8 DEF IInv

LEMMA LeavingKeeps ==
  ASSUME IInv, NEW c \in Contexts, Leaving(c)
  PROVE  IInv'
<1> USE DEF Leaving, Goto, Post
<1>1. /\ emu = "switch" /\ c = emu_context /\ AtTrap(c) /\ Active(c)
      /\ \A d \in Contexts \ {c} : Resting(d)
  BY Holder DEF Resting, Starting, Active, Returning, CallingUp, Exiting, Running
<1>2. /\ regs' \in Registers /\ regs'.task = regs.task /\ regs'.sp = regs.sp
      /\ regs'.pc = "exit" /\ regs'.masked
  BY <1>1 DEF IInv, Types, Registers, SavedRegs, AtTrap
<1>3. Types'
  <2>1. \A t \in Tasks : Sp(t)' = Sp(t)
    BY <1>2 DEF Sp
  <2>2. to_emu' \in [Contexts -> {0, 1}]
    BY <1>1 DEF IInv, Types, Active
  <2> QED BY <1>1, <1>2, <2>1, <2>2 DEF IInv, Types
<1>4. Exiting(c)' /\ AtTrap(c)' /\ \A d \in Contexts \ {c} : Resting(d)'
  BY <1>1, <1>2 DEF IInv, Types, Active, Exiting, AtTrap, Resting
<1>5. HandOver'
  BY <1>1, <1>4 DEF HandOver
<1>6. Mutex' /\ Values'
  BY <1>1 DEF IInv, Types, Mutex, Critical, Values
<1>7. Frames'
  <2> SUFFICES ASSUME NEW t \in Tasks, NEW i \in 1 .. Sp(t) PROVE FrameOK(t, i)'
    BY <1>2 DEF Frames, Sp
  <2>1. FrameOK(t, i) /\ stack[t][i].context # c
    BY <1>1 DEF IInv, Frames, FrameOK, Active, Running
  <2> QED BY <2>1 DEF FrameOK, IInv, Types
<1> QED BY <1>3, <1>5, <1>6, <1>7 DEF IInv

-----------------------------------------------------------------------------
(* The steps of the emulation thread                                         *)

(* What lies on the stack of a task is a sequence of frames.                 *)
LEMMA OnTheStack ==
  ASSUME IInv, NEW t \in Tasks, NEW i \in 1 .. Sp(t)
  PROVE  /\ i \in 1 .. Len(stack[t]) /\ i \in Nat /\ Sp(t) \in 0 .. NContexts
         /\ stack[t][i] \in Frame /\ stack[t][i].context \in Contexts
         /\ FrameOK(t, i) /\ stack[t] \in Seq(Frame)
<1>1. stack[t] \in Seq(Frame) /\ Sp(t) <= Len(stack[t]) /\ Sp(t) \in 0 .. NContexts
  BY DEF IInv, Types, Sp, Registers
<1>2. i \in 1 .. Len(stack[t])
  BY <1>1
<1>3. stack[t][i] \in Frame
  BY <1>1, <1>2, ElementOfSeq
<1>4. FrameOK(t, i)
  BY DEF IInv, Frames
<1> QED BY <1>1, <1>2, <1>3, <1>4 DEF Frame

(* There are never more frames on a stack than there are contexts, so that   *)
(* one more fits if its context has none.                                    *)
LEMMA RoomForFrame ==
  ASSUME IInv, NEW c \in Contexts, AtTrap(c)
  PROVE  regs.sp < NContexts
<1> DEFINE t == regs.task
           n == regs.sp
           f == [i \in 1 .. n + 1 |-> IF i <= n THEN stack[t][i].context ELSE c]
<1>1. t \in Tasks /\ n \in 0 .. NContexts /\ n \in Nat /\ Sp(t) = n /\ NContexts \in Nat
  BY TrapAssumption DEF IInv, Types, Registers, Sp
<1>2. f \in [1 .. n + 1 -> Contexts]
  <2> SUFFICES ASSUME NEW i \in 1 .. n + 1, i <= n PROVE stack[t][i].context \in Contexts
    OBVIOUS
  <2>1. i \in 1 .. Sp(t)
    BY <1>1
  <2> QED BY <1>1, <2>1, OnTheStack
<1>3. ASSUME NEW x \in 1 .. n + 1, NEW y \in 1 .. n + 1, x < y PROVE f[x] # f[y]
  <2>1. saved_regs[f[x]].sp = x - 1
    <3>1. x \in 1 .. Sp(t) /\ x <= n
      BY <1>1, <1>3
    <3>2. FrameOK(t, x) /\ f[x] = stack[t][x].context
      BY <1>1, <3>1, OnTheStack
    <3> HIDE DEF f
    <3> QED BY <3>2 DEF FrameOK
  <2>2. saved_regs[f[y]].sp = y - 1
    <3>1. CASE y <= n
      <4>1. y \in 1 .. Sp(t)
        BY <1>1, <3>1
      <4>2. FrameOK(t, y) /\ f[y] = stack[t][y].context
        BY <1>1, <3>1, <4>1, OnTheStack
      <4> HIDE DEF f
      <4> QED BY <4>2 DEF FrameOK
    <3>2. CASE y = n + 1
      <4>1. f[y] = c
        BY <1>1, <3>2
      <4>2. saved_regs[c].sp = y - 1
        BY <1>1, <3>2 DEF AtTrap
      <4> HIDE DEF f
      <4> QED BY <4>1, <4>2
    <3> QED BY <1>1, <3>1, <3>2
  <2> HIDE DEF f
  <2> QED BY <1>1, <1>3, <2>1, <2>2
<1>4. ASSUME n = NContexts PROVE FALSE
  <2>1. /\ IsFiniteSet(1 .. n + 1) /\ Cardinality(1 .. n + 1) = n + 1
        /\ IsFiniteSet(Contexts) /\ Cardinality(Contexts) = n
    BY <1>1, <1>4, FS_Interval DEF Contexts
  <2> HIDE DEF f
  <2>2. \E x, y \in 1 .. n + 1 : x # y /\ f[x] = f[y]
    BY <1>1, <1>2, <2>1, FS_PigeonHole
  <2> QED BY <1>1, <1>3, <2>2
<1> QED BY <1>1, <1>4

LEMMA EnterTrapKeeps ==
  ASSUME IInv, NEW c \in Contexts, EnterTrap(c)
  PROVE  IInv'
<1> USE DEF EnterTrap, Goto, Post
<1>1. regs \in SavedRegs /\ regs.pc = "code"
  BY DEF IInv, Types, Registers, SavedRegs
<1>2. \A d \in Contexts : Resting(d)
  BY DEF IInv, HandOver
<1>3. Types'
  BY <1>1, <1>2 DEF IInv, Types, Sp, Resting
<1>4. Starting(c)' /\ AtTrap(c)' /\ \A d \in Contexts \ {c} : Resting(d)'
  BY <1>1, <1>2 DEF IInv, Types, Starting, AtTrap, Resting
<1>5. HandOver'
  BY <1>4 DEF HandOver
<1>6. Mutex' /\ Values'
  BY <1>1 DEF IInv, Types, Mutex, Critical, Values
<1>7. Frames'
  <2> SUFFICES ASSUME NEW t \in Tasks, NEW i \in 1 .. Sp(t) PROVE FrameOK(t, i)'
    BY DEF Frames, Sp
  <2>1. FrameOK(t, i) /\ stack[t][i].context # c
    BY DEF IInv, Frames, FrameOK
  <2> QED BY <2>1 DEF FrameOK, IInv, Types
<1> QED BY <1>3, <1>5, <1>6, <1>7 DEF IInv

LEMMA SwitchedBackKeeps ==
  ASSUME IInv, SwitchedBack
  PROVE  IInv'
<1> USE DEF SwitchedBack, Wait
<1> DEFINE c == emu_context
<1>1. /\ c \in Contexts /\ AtTrap(c) /\ \A d \in Contexts \ {c} : Resting(d)
      /\ CallingUp(c) \/ Exiting(c)
  BY DEF IInv, HandOver, Starting, Active, Returning
<1>2. Types'
  BY <1>1 DEF IInv, Types, Sp, CallingUp, Exiting
<1>3. /\ \A d \in Contexts : Resting(d)'
      /\ current_context = c /\ regs.pc \in {"call", "exit"}
      /\ regs.pc = "call" => thread[c] = "called"
      /\ regs.pc = "exit" => thread[c] = "gone"
  BY <1>1 DEF IInv, Types, Resting, CallingUp, Exiting
<1>4. HandOver'
  BY <1>1, <1>3 DEF HandOver, AtTrap
<1>5. Mutex' /\ Values'
  BY <1>1, <1>3 DEF IInv, Types, Mutex, Critical, Values
<1>6. Frames'
  BY DEF IInv, Frames, FrameOK, Sp
<1> QED BY <1>2, <1>4, <1>5, <1>6 DEF IInv

LEMMA CallHandlerKeeps ==
  ASSUME IInv, CallHandler
  PROVE  IInv'
<1>0. PICK c \in Contexts, t \in Tasks, n \in Nat :
        c = current_context /\ t = regs.task /\ n = regs.sp
  BY DEF CallHandler, IInv, Types, HandOver, Registers
<1> DEFINE frame == [context |-> c, call |-> ncalls[c]]
<1>1. /\ AtTrap(c) /\ thread[c] = "called" /\ \A d \in Contexts : Resting(d)
      /\ Sp(t) = n /\ n <= Len(stack[t]) /\ stack[t] \in Seq(Frame)
  BY <1>0 DEF CallHandler, IInv, HandOver, Types, Sp
<1>2. /\ emu = "68k" /\ regs.pc = "call"
      /\ stack' = [stack EXCEPT ![t] = Append(SubSeq(stack[t], 1, n), frame)]
      /\ regs' = [task |-> t, sp |-> n + 1, pc |-> "code", masked |-> saved_regs[c].masked]
      /\ UNCHANGED <<emu, emu_context, switched, current_context, contextVars, resets>>
  BY <1>0 DEF CallHandler
<1>3. n + 1 \in 0 .. NContexts
  BY <1>0, <1>1, RoomForFrame, TrapAssumption
<1>4. frame \in Frame
  BY <1>1, TrapAssumption DEF IInv, Types, Values, Frame
<1>5. /\ SubSeq(stack[t], 1, n) \in Seq(Frame) /\ Len(SubSeq(stack[t], 1, n)) = n
      /\ \A i \in 1 .. n : SubSeq(stack[t], 1, n)[i] = stack[t][i]
  <2>1. \A i \in 1 .. n : stack[t][i] \in Frame
    BY <1>1, ElementOfSeq
  <2> QED BY <1>1, <2>1, SubSeqProperties
<1>6. /\ stack'[t] \in Seq(Frame) /\ Len(stack'[t]) = n + 1 /\ stack'[t][n + 1] = frame
      /\ \A i \in 1 .. n : stack'[t][i] = stack[t][i]
      /\ \A u \in Tasks \ {t} : stack'[u] = stack[u]
      /\ stack' \in [Tasks -> Seq(Frame)]
  <2>1. stack \in [Tasks -> Seq(Frame)] /\ stack'[t] = Append(SubSeq(stack[t], 1, n), frame)
    BY <1>2 DEF IInv, Types
  <2>2. Append(SubSeq(stack[t], 1, n), frame) \in Seq(Frame)
    BY <1>4, <1>5, AppendProperties
  <2> QED BY <1>2, <1>4, <1>5, <2>1, <2>2, AppendProperties
<1>7. /\ regs' \in Registers /\ regs'.task = t /\ regs'.sp = n + 1
      /\ regs'.pc = "code" /\ ~regs'.masked
  <2>1. ~saved_regs[c].masked
    BY DEF IInv, Types, SavedRegs
  <2>2. regs' = [task |-> t, sp |-> n + 1, pc |-> "code", masked |-> FALSE]
    BY <1>2, <2>1 DEF IInv, Types, SavedRegs
  <2> QED BY <1>3, <2>2 DEF Registers
<1>8. Sp(t)' = n + 1 /\ \A u \in Tasks \ {t} : Sp(u)' = Sp(u)
  BY <1>0, <1>2, <1>7 DEF Sp
<1>9. trap_mutex' = 1
  BY <1>2 DEF CallHandler, IInv, Mutex, Critical, PostMutex
<1>10. Types'
  <2>1. \A u \in Tasks : Sp(u)' <= Len(stack'[u])
    <3>1. \A u \in Tasks : Sp(u) <= Len(stack[u])
      BY DEF IInv, Types
    <3> SUFFICES ASSUME NEW u \in Tasks PROVE Sp(u)' <= Len(stack'[u])
      OBVIOUS
    <3>2. CASE u = t
      BY <1>6, <1>8, <3>2
    <3>3. CASE u # t
      BY <1>6, <1>8, <3>1, <3>3
    <3> QED BY <3>2, <3>3
  <2> QED BY <1>2, <1>6, <1>7, <1>9, <2>1 DEF IInv, Types, contextVars
<1>11. HandOver'
  BY <1>1, <1>2, <1>7 DEF HandOver, Resting, contextVars
<1>12. Mutex' /\ Values'
  BY <1>2, <1>7, <1>9 DEF IInv, Mutex, Critical, Values, contextVars
<1>13. Frames'
  <2> SUFFICES ASSUME NEW u \in Tasks, NEW i \in 1 .. Sp(u)' PROVE FrameOK(u, i)'
    BY DEF Frames
  <2>1. CASE u = t /\ i = n + 1
    <3>1. stack'[u][i].context = c /\ stack'[u][i].call = ncalls[c]
      BY <1>6, <2>1
    <3>2. saved_regs[c].task = t /\ saved_regs[c].sp = i - 1
      BY <1>0, <1>1, <2>1 DEF AtTrap
    <3> QED BY <1>1, <1>2, <2>1, <3>1, <3>2 DEF FrameOK, contextVars
  <2>2. CASE ~(u = t /\ i = n + 1)
    <3>1. i \in 1 .. Sp(u) /\ stack'[u][i] = stack[u][i]
      <4>1. CASE u = t
        BY <1>1, <1>6, <1>8, <2>2, <4>1
      <4>2. CASE u # t
        BY <1>6, <1>8, <4>2
      <4> QED BY <4>1, <4>2
    <3>2. FrameOK(u, i)
      BY <3>1 DEF IInv, Frames
    <3> QED BY <1>2, <3>1, <3>2 DEF FrameOK, contextVars
  <2> QED BY <2>1, <2>2
<1> QED BY <1>10, <1>11, <1>12, <1>13 DEF IInv

LEMMA ReturnHandlerKeeps ==
  ASSUME IInv, ReturnHandler
  PROVE  IInv'
<1> USE DEF ReturnHandler, contextVars
<1>1. Types'
  BY DEF IInv, Types, Sp
<1>2. HandOver'
  BY DEF IInv, HandOver, Resting
<1>3. Mutex' /\ Values'
  BY DEF IInv, Mutex, Critical, Values
<1>4. Frames'
  BY DEF IInv, Frames, FrameOK, Sp
<1> QED BY <1>1, <1>2, <1>3, <1>4 DEF IInv

LEMMA ReturnSwitchKeeps ==
  ASSUME IInv, ReturnSwitch
  PROVE  IInv'
<1>1. PICK t \in Tasks, n \in 1 .. NContexts : t = regs.task /\ n = regs.sp
  BY DEF ReturnSwitch, IInv, Types, HandOver, Registers
<1>2. Sp(t) = n /\ n \in Nat /\ n \in 1 .. Sp(t) /\ \A d \in Contexts : Resting(d)
  BY <1>1 DEF ReturnSwitch, IInv, HandOver, Sp
<1>3. PICK c \in Contexts : c = stack[t][n].context
  BY <1>2, OnTheStack
<1>4. /\ thread[c] = "called" /\ saved_regs[c].task = t /\ saved_regs[c].sp = n - 1
      /\ stack[t][n].call = ncalls[c] /\ regs.pc = "code"
  <2>1. FrameOK(t, n) /\ stack[t][n].context = c
    BY <1>2, <1>3, OnTheStack
  <2>2. regs.pc = "code"
    BY DEF ReturnSwitch, IInv, HandOver
  <2> QED BY <2>1, <2>2 DEF FrameOK
<1>5. /\ emu = "mutex" /\ trap_mutex > 0 /\ trap_mutex' = trap_mutex - 1
      /\ call68k_retval' = [call68k_retval EXCEPT ![c] = ncalls[c]]
      /\ to_trap' = [to_trap EXCEPT ![c] = to_trap[c] + 1]
      /\ emu_context' = c /\ emu' = "switch"
      /\ regs' = [regs EXCEPT !.sp = n - 1]
      /\ UNCHANGED <<stack, switched, current_context, thread, to_emu, saved_regs, ncalls, resets>>
  BY <1>1, <1>3, <1>4 DEF ReturnSwitch, WaitMutex, Post
<1>6. to_trap' = [to_trap EXCEPT ![c] = 1] /\ trap_mutex' = 0
  <2>1. to_trap[c] = 0 /\ trap_mutex \in {0, 1}
    BY <1>2 DEF IInv, Types, Resting
  <2>2. to_trap[c] + 1 = 1
    BY <2>1
  <2> QED BY <1>5, <2>1, <2>2
<1>7. /\ regs' \in Registers /\ regs'.task = t /\ regs'.sp = n - 1
      /\ regs'.pc = "code" /\ regs'.masked = regs.masked
  <2>1. n - 1 \in 0 .. NContexts
    BY <1>1, TrapAssumption
  <2> QED BY <1>1, <1>4, <1>5, <2>1 DEF IInv, Types, Registers
<1>8. Sp(t)' = n - 1 /\ \A u \in Tasks \ {t} : Sp(u)' = Sp(u)
  BY <1>1, <1>5, <1>7 DEF Sp
<1>9. Types'
  <2>1. \A u \in Tasks : Sp(u)' <= Len(stack'[u])
    <3>1. Len(stack[t]) \in Nat /\ n - 1 <= Len(stack[t])
      BY <1>2, OnTheStack, LenProperties
    <3> QED BY <1>5, <1>8, <3>1 DEF IInv, Types
  <2>2. /\ call68k_retval' \in [Contexts -> 0 .. MaxCalls]
        /\ to_trap' \in [Contexts -> {0, 1}]
    BY <1>5, <1>6 DEF IInv, Types
  <2>3. regs'.pc = "code" <=> ~regs'.masked
    BY <1>4, <1>7 DEF IInv, Types
  <2> QED BY <1>5, <1>6, <1>7, <2>1, <2>2, <2>3 DEF IInv, Types
<1>10. Returning(c)' /\ AtTrap(c)' /\ \A d \in Contexts \ {c} : Resting(d)'
  BY <1>2, <1>4, <1>5, <1>6, <1>7 DEF IInv, Types, Returning, AtTrap, Resting
<1>11. HandOver'
  BY <1>5, <1>10 DEF HandOver
<1>12. Mutex' /\ Values'
  BY <1>4, <1>5, <1>6 DEF IInv, Mutex, Critical, Values, Types
<1>13. Frames'
  <2> SUFFICES ASSUME NEW u \in Tasks, NEW i \in 1 .. Sp(u)' PROVE FrameOK(u, i)'
    BY DEF Frames
  <2>1. i \in 1 .. Sp(u)
    BY <1>2, <1>8
  <2>2. FrameOK(u, i)
    BY <2>1 DEF IInv, Frames
  <2> QED BY <1>5, <2>2 DEF FrameOK
<1> QED BY <1>9, <1>11, <1>12, <1>13 DEF IInv

LEMMA ExitHandlerKeeps ==
  ASSUME IInv, ExitHandler
  PROVE  IInv'
<1> USE DEF ExitHandler, Goto
<1> DEFINE c == current_context
<1>1. c \in Contexts /\ AtTrap(c) /\ \A d \in Contexts : Resting(d)
  BY DEF IInv, HandOver
<1>2. /\ regs' \in Registers /\ regs'.task = regs.task /\ regs'.sp = regs.sp
      /\ regs'.pc = "code" /\ ~regs'.masked
  BY <1>1 DEF IInv, Types, SavedRegs, Registers, AtTrap
<1>3. \A t \in Tasks : Sp(t)' = Sp(t)
  BY <1>2 DEF Sp
<1>4. trap_mutex' = 1
  BY DEF IInv, Mutex, Critical, PostMutex
<1>5. Types'
  BY <1>2, <1>3, <1>4 DEF IInv, Types
<1>6. HandOver'
  BY <1>1, <1>2 DEF IInv, Types, HandOver, Resting
<1>7. Mutex' /\ Values'
  BY <1>2, <1>4 DEF IInv, Types, Mutex, Critical, Values
<1>8. Frames'
  <2> SUFFICES ASSUME NEW t \in Tasks, NEW i \in 1 .. Sp(t) PROVE FrameOK(t, i)'
    BY <1>3 DEF Frames
  <2>1. FrameOK(t, i) /\ stack[t][i].context # c
    BY DEF IInv, Frames, FrameOK
  <2> QED BY <2>1 DEF FrameOK, IInv, Types
<1> QED BY <1>5, <1>6, <1>7, <1>8 DEF IInv

LEMMA SwitchKeeps ==
  ASSUME IInv, NEW t \in Tasks, Switch(t)
  PROVE  IInv'
<1> USE DEF Switch, contextVars
<1>1. /\ regs' \in Registers /\ regs'.task = t /\ regs'.pc = "code" /\ ~regs'.masked
      /\ regs.pc = "code" /\ regs.task \in Tasks
  BY DEF IInv, Types, Registers
<1>2. \A u \in Tasks : Sp(u)' = Sp(u)
  BY <1>1 DEF IInv, Types, Sp
<1>3. Types'
  BY <1>1, <1>2 DEF IInv, Types, Registers
<1>4. HandOver'
  BY <1>1 DEF IInv, HandOver, Resting
<1>5. Mutex' /\ Values'
  BY <1>1 DEF IInv, Mutex, Critical, Values
<1>6. Frames'
  BY <1>2 DEF IInv, Frames, FrameOK
<1> QED BY <1>3, <1>4, <1>5, <1>6 DEF IInv

LEMMA ResetKeeps ==
  ASSUME IInv, Reset
  PROVE  IInv'
<1> USE DEF Reset, contextVars
<1>1. PICK t \in Tasks : regs' = Fresh(t)
  OBVIOUS
<1>2. 0 \in 0 .. NContexts
  BY TrapAssumption
<1>3. regs' \in Registers /\ regs'.pc = "code" /\ ~regs'.masked /\ regs'.sp = 0
  BY <1>1, <1>2 DEF Fresh, Registers
<1>4. \A u \in Tasks : Sp(u)' = 0 /\ stack'[u] = <<>>
  BY <1>3 DEF Sp
<1>5. Types'
  <2>1. resets' \in 0 .. MaxResets
    BY TrapAssumption DEF IInv, Types
  <2>2. \A u \in Tasks : Sp(u)' <= Len(stack'[u])
    BY <1>4
  <2>3. stack' \in [Tasks -> Seq(Frame)] /\ switched' \in [Tasks -> [sp : 0 .. NContexts, pc : {"code"}]]
    BY <1>2, EmptySeq
  <2> QED BY <1>3, <2>1, <2>2, <2>3 DEF IInv, Types
<1>6. HandOver'
  BY <1>3 DEF IInv, HandOver, Resting
<1>7. Mutex' /\ Values'
  BY <1>3 DEF IInv, Types, Mutex, Critical, Values
<1>8. Frames'
  BY <1>4 DEF Frames
<1> QED BY <1>5, <1>6, <1>7, <1>8 DEF IInv

LEMMA NextKeeps == IInv /\ [Next]_vars => IInv'
<1> SUFFICES ASSUME IInv, [Next]_vars PROVE IInv'
  OBVIOUS
<1>1. CASE UNCHANGED vars
  BY <1>1 DEF vars, machine, contextVars, IInv, Types, Sp, HandOver, AtTrap, Resting, Starting,
     Active, Returning, CallingUp, Exiting, Mutex, Critical, Values, Frames, FrameOK
<1>2. CASE Emulation \/ Reset
  BY <1>2, SwitchedBackKeeps, CallHandlerKeeps, ReturnHandlerKeeps, ReturnSwitchKeeps,
     ExitHandlerKeeps, ResetKeeps DEF Emulation
<1>3. ASSUME NEW c \in Contexts, EnterTrap(c) \/ Thread(c) PROVE IInv'
  BY <1>3, EnterTrapKeeps, StartKeeps, ActiveKeeps, CallingKeeps, CalledKeeps, LeavingKeeps
     DEF Thread
<1> QED BY <1>1, <1>2, <1>3, SwitchKeeps DEF Next

-----------------------------------------------------------------------------
(* At every moment one thread has the 68k and the tokens of all semaphores,  *)
(* the mutex and the stacks agree with it.                                   *)
THEOREM TrapInvariant == Spec => []IInv
BY InitIInv, NextKeeps, PTL DEF Spec

(* The types, among them that the semaphores stay binary and that a stack    *)
(* holds no more than one frame per context, for any number of contexts.     *)
THEOREM TrapTypes == Spec => []TypeOK
<1>1. IInv => TypeOK
  <2> SUFFICES ASSUME IInv PROVE TypeOK
    OBVIOUS
  <2>1. Types
    BY DEF IInv
  <2>2. switched \in [Tasks -> [sp : 0 .. NContexts, pc : {"code", "call", "exit"}]]
    BY <2>1 DEF Types
  <2>3. saved_regs \in [Contexts -> Registers]
    BY <2>1 DEF Types, SavedRegs, Registers
  <2> QED BY <2>1, <2>2, <2>3 DEF Types, TypeOK, Frame
<1> QED BY <1>1, TrapInvariant, PTL

(* regs is never touched by two threads: the emulation thread runs, or one   *)
(* trap thread that it waits for.                                            *)
THEOREM OneThreadHasThe68k == Spec => []OneHasThe68k
<1>1. IInv => OneHasThe68k
  <2> SUFFICES ASSUME IInv PROVE OneHasThe68k
    OBVIOUS
  <2> DEFINE S == {c \in Contexts : thread[c] \in Running}
  <2>1. CASE S = {}
    <3>1. Cardinality(S) = 0
      BY <2>1, FS_EmptySet
    <3> QED BY <3>1 DEF OneHasThe68k, Running
  <2>2. CASE S # {}
    <3>1. PICK c \in S : TRUE
      BY <2>2
    <3>2. emu = "switch" /\ S = {c}
      BY <3>1, Holder DEF Resting, Running
    <3>3. Cardinality(S) = 1
      BY <3>2, FS_Singleton
    <3> QED BY <3>2, <3>3 DEF OneHasThe68k, Running
  <2> QED BY <2>1, <2>2
<1> QED BY <1>1, TrapInvariant, PTL

(* "Don't allow an interrupt and thus potentially another trap to be invoked *)
(* while we hold the above mutex": no 68k code runs in the critical section, *)
(* until the machine is reset.                                               *)
THEOREM CodeRunsOutside == Spec => []AloneInside
<1>1. IInv => AloneInside
  BY DEF IInv, Types, Mutex, Critical, AloneInside, NoTrapInside
<1> QED BY <1>1, TrapInvariant, PTL

(* What trap_Call68k returns is the value of the function it called, however *)
(* many traps and functions of other tasks ran in between, resets included.  *)
THEOREM CallsReturnOwnValue == Spec => []OwnValue
<1>1. IInv => OwnValue
  BY DEF IInv, Values, OwnValue
<1> QED BY <1>1, TrapInvariant, PTL

-----------------------------------------------------------------------------
(* The calls nest.  What has been called on a task's stack, from the frames   *)
(* on it and the contexts (one at most) that have the task but no frame.      *)

Call68kd == [kind : {"trap", "func"}, context : Contexts]
Item(s, j) ==
  [kind |-> IF j % 2 = 1 THEN "trap" ELSE "func", context |-> s[(j + 1) \div 2].context]
Calls(s, n, inner) ==
  [j \in 1 .. 2 * Len(SubSeq(s, 1, n)) |-> Item(SubSeq(s, 1, n), j)]
    \o SetToSeq({[kind |-> "trap", context |-> c] : c \in inner})

LEMMA SingleToSeq ==
  /\ SetToSeq({}) = <<>>
  /\ \A x : SetToSeq({x}) = <<x>>
<1>1. SetToSeq({}) = <<>>
  <2>1. Cardinality({}) = 0
    BY FS_EmptySet
  <2>2. PICK f : f = SetToSeq({})
    OBVIOUS
  <2>3. f = CHOOSE g \in [1 .. 0 -> {}] : IsInjective(g)
    BY <2>1, <2>2 DEF SetToSeq
  <2>4. [i \in 1 .. 0 |-> 0] \in [1 .. 0 -> {}] /\ IsInjective([i \in 1 .. 0 |-> 0])
    BY DEF IsInjective
  <2>5. f \in [1 .. 0 -> {}]
    BY <2>3, <2>4
  <2>6. f \in Seq({}) /\ Len(f) = 0
    BY <2>5
  <2> QED  BY <2>2, <2>6, EmptySeq
<1>2. ASSUME NEW x PROVE SetToSeq({x}) = <<x>>
  <2>1. Cardinality({x}) = 1
    BY FS_Singleton
  <2>2. PICK f : f = SetToSeq({x})
    OBVIOUS
  <2>3. f = CHOOSE g \in [1 .. 1 -> {x}] : IsInjective(g)
    BY <2>1, <2>2 DEF SetToSeq
  <2>4. [i \in 1 .. 1 |-> x] \in [1 .. 1 -> {x}] /\ IsInjective([i \in 1 .. 1 |-> x])
    BY DEF IsInjective
  <2>5. f \in [1 .. 1 -> {x}]
    BY <2>3, <2>4
  <2>6. f \in Seq({x}) /\ Len(f) = 1 /\ f[1] = x
    BY <2>5
  <2> QED  BY <2>2, <2>6
<1> QED  BY <1>1, <1>2

LEMMA FramesOnly ==
  ASSUME NEW s \in Seq(Frame), NEW n \in Nat, n <= Len(s)
  PROVE  /\ Calls(s, n, {}) \in Seq(Call68kd) /\ Len(Calls(s, n, {})) = 2 * n
         /\ \A j \in 1 .. 2 * n : Calls(s, n, {})[j] = Item(s, j)
<1>1. \A i \in 1 .. n : s[i] \in Frame
  BY ElementOfSeq
<1>2. PICK p : p = SubSeq(s, 1, n)
  OBVIOUS
<1>3. Len(p) = n /\ \A i \in 1 .. n : p[i] = s[i]
  BY <1>1, <1>2, SubSeqProperties
<1>4. \A j \in 1 .. 2 * n : (j + 1) \div 2 \in 1 .. n
  OBVIOUS
<1>5. \A j \in 1 .. 2 * n : Item(p, j) = Item(s, j) /\ Item(s, j) \in Call68kd
  BY <1>1, <1>3, <1>4 DEF Item, Frame, Call68kd
<1>6. PICK q : q = [j \in 1 .. 2 * n |-> Item(p, j)]
  OBVIOUS
<1>7. q \in Seq(Call68kd) /\ Len(q) = 2 * n /\ \A j \in 1 .. 2 * n : q[j] = Item(s, j)
  BY <1>5, <1>6
<1>8. {[kind |-> "trap", context |-> c] : c \in {}} = {}
  OBVIOUS
<1>9. Calls(s, n, {}) = q
  BY <1>2, <1>3, <1>6, <1>7, <1>8, SingleToSeq, ConcatEmptySeq DEF Calls
<1> QED  BY <1>7, <1>9

LEMMA TrapPushed ==
  ASSUME NEW s \in Seq(Frame), NEW n \in Nat, n <= Len(s), NEW c \in Contexts
  PROVE  Calls(s, n, {c}) = Append(Calls(s, n, {}), Nested!Trap(c))
<1>1. Calls(s, n, {}) \in Seq(Call68kd) /\ Nested!Trap(c) \in Call68kd
  BY FramesOnly DEF Nested!Trap, Call68kd
<1>2. PICK q : q = [j \in 1 .. 2 * Len(SubSeq(s, 1, n)) |-> Item(SubSeq(s, 1, n), j)]
  OBVIOUS
<1>3. Calls(s, n, {}) = q \o <<>>
  <2>1. {[kind |-> "trap", context |-> d] : d \in {}} = {}
    OBVIOUS
  <2> QED  BY <1>2, <2>1, SingleToSeq DEF Calls
<1>4. Calls(s, n, {c}) = q \o <<Nested!Trap(c)>>
  <2>1. {[kind |-> "trap", context |-> d] : d \in {c}} = {Nested!Trap(c)}
    BY DEF Nested!Trap
  <2> QED  BY <1>2, <2>1, SingleToSeq DEF Calls
<1>5. q \in Seq(Call68kd)
  <2>1. \A i \in 1 .. n : s[i] \in Frame
    BY ElementOfSeq
  <2>2. PICK p : p = SubSeq(s, 1, n)
    OBVIOUS
  <2>3. Len(p) = n /\ \A i \in 1 .. n : p[i] = s[i]
    BY <2>1, <2>2, SubSeqProperties
  <2>4. \A j \in 1 .. 2 * n : (j + 1) \div 2 \in 1 .. n
    OBVIOUS
  <2>5. \A j \in 1 .. 2 * n : Item(p, j) \in Call68kd
    BY <2>1, <2>3, <2>4 DEF Item, Frame, Call68kd
  <2> QED  BY <1>2, <2>2, <2>3, <2>5
<1>6. Calls(s, n, {}) = q
  BY <1>3, <1>5, ConcatEmptySeq
<1> QED  BY <1>1, <1>4, <1>5, <1>6, AppendIsConcat

LEMMA FuncPushed ==
  ASSUME NEW s \in Seq(Frame), NEW n \in Nat, n + 1 <= Len(s), NEW c \in Contexts,
         s[n + 1].context = c,
         NEW r \in Seq(Frame), n <= Len(r), \A i \in 1 .. n : r[i] = s[i]
  PROVE  Calls(s, n + 1, {}) = Append(Calls(r, n, {c}), Nested!Func(c))
<1>1. /\ Calls(s, n + 1, {}) \in Seq(Call68kd) /\ Len(Calls(s, n + 1, {})) = 2 * n + 2
      /\ \A j \in 1 .. 2 * n + 2 : Calls(s, n + 1, {})[j] = Item(s, j)
  BY FramesOnly
<1>2. /\ Calls(r, n, {}) \in Seq(Call68kd) /\ Len(Calls(r, n, {})) = 2 * n
      /\ \A j \in 1 .. 2 * n : Calls(r, n, {})[j] = Item(r, j)
  BY FramesOnly
<1>3. Nested!Trap(c) \in Call68kd /\ Nested!Func(c) \in Call68kd
  BY DEF Nested!Trap, Nested!Func, Call68kd
<1>4. PICK u : u = Append(Calls(r, n, {}), Nested!Trap(c))
  OBVIOUS
<1>5. /\ u \in Seq(Call68kd) /\ Len(u) = 2 * n + 1 /\ u[2 * n + 1] = Nested!Trap(c)
      /\ \A j \in 1 .. 2 * n : u[j] = Item(r, j)
  BY <1>2, <1>3, <1>4, AppendProperties
<1>6. PICK v : v = Append(u, Nested!Func(c))
  OBVIOUS
<1>7. /\ v \in Seq(Call68kd) /\ Len(v) = 2 * n + 2 /\ v[2 * n + 2] = Nested!Func(c)
      /\ v[2 * n + 1] = Nested!Trap(c) /\ \A j \in 1 .. 2 * n : v[j] = Item(r, j)
  <2>1. /\ v \in Seq(Call68kd) /\ Len(v) = Len(u) + 1 /\ v[Len(u) + 1] = Nested!Func(c)
        /\ \A j \in 1 .. Len(u) : v[j] = u[j]
    <3>1. PICK x \in Call68kd : x = Nested!Func(c)
      BY <1>3
    <3>2. u \in Seq(Call68kd) /\ v = Append(u, x)
      BY <1>5, <1>6, <3>1
    <3> QED  BY <3>1, <3>2, AppendProperties
  <2>2. Len(u) + 1 = 2 * n + 2 /\ 2 * n + 1 \in 1 .. Len(u) /\ 1 .. 2 * n \subseteq 1 .. Len(u)
    BY <1>5
  <2> QED  BY <1>5, <2>1, <2>2
<1>8. \A j \in 1 .. 2 * n : Item(r, j) = Item(s, j)
  <2>1. \A j \in 1 .. 2 * n : (j + 1) \div 2 \in 1 .. n
    OBVIOUS
  <2> QED  BY <2>1 DEF Item
<1>9. Item(s, 2 * n + 1) = Nested!Trap(c)
  <2>1. (2 * n + 1) % 2 = 1 /\ ((2 * n + 1) + 1) \div 2 = n + 1
    OBVIOUS
  <2> QED  BY <2>1 DEF Item, Nested!Trap
<1>10. Item(s, 2 * n + 2) = Nested!Func(c)
  <2>1. (2 * n + 2) % 2 = 0 /\ ((2 * n + 2) + 1) \div 2 = n + 1
    OBVIOUS
  <2> QED  BY <2>1 DEF Item, Nested!Func
<1>11. \A j \in 1 .. 2 * n + 2 : v[j] = Calls(s, n + 1, {})[j]
  BY <1>1, <1>7, <1>8, <1>9, <1>10
<1>12. Calls(s, n + 1, {}) = v
  BY <1>1, <1>7, <1>11, SeqEqual
<1> QED  BY <1>4, <1>6, <1>12, TrapPushed

LEMMA FrontLast ==
  ASSUME NEW S, NEW s \in Seq(S), NEW x \in S
  PROVE  /\ Nested!Front(Append(s, x)) = s /\ Nested!Last(Append(s, x)) = x
         /\ Append(s, x) # <<>>
<1>1. PICK v : v = Append(s, x)
  OBVIOUS
<1>2. /\ v \in Seq(S) /\ Len(v) = Len(s) + 1 /\ v[Len(s) + 1] = x
      /\ \A i \in 1 .. Len(s) : v[i] = s[i]
  BY <1>1, AppendProperties
<1>3. Len(s) \in Nat
  OBVIOUS
<1>4. Nested!Front(v) = s
  <2>1. PICK w : w = SubSeq(v, 1, Len(s))
    OBVIOUS
  <2>2. \A i \in 1 .. Len(s) : v[i] \in S
    BY <1>2
  <2>3. w \in Seq(S) /\ Len(w) = Len(s) /\ \A i \in 1 .. Len(s) : w[i] = v[i]
    BY <1>3, <2>1, <2>2, SubSeqProperties
  <2>4. w = s
    BY <1>2, <2>3, SeqEqual
  <2>5. Len(v) - 1 = Len(s)
    BY <1>2, <1>3
  <2> QED  BY <2>1, <2>4, <2>5 DEF Nested!Front
<1>5. Nested!Last(v) = x
  BY <1>2 DEF Nested!Last
<1>6. v # <<>>
  BY <1>2, <1>3
<1> QED  BY <1>1, <1>4, <1>5, <1>6

(* The context that has the task that runs and no frame on a stack.          *)
Inner ==
  IF emu = "switch" THEN {emu_context}
  ELSE IF emu = "68k" /\ regs.pc # "code" THEN {current_context} ELSE {}

OnAStack(c) == \E t \in Tasks : \E i \in 1 .. Sp(t) : stack[t][i].context = c

(* No context is ever left that is neither on a stack nor at work.           *)
Covered ==
  resets = 0 =>
    \A c \in Contexts : thread[c] \notin {"none", "freed"} => c \in Inner \/ OnAStack(c)

(* There is one such context, and it is not on a stack.                      *)
LEMMA InnerOne ==
  ASSUME IInv, NEW c \in Inner
  PROVE  /\ c \in Contexts /\ Inner = {c} /\ AtTrap(c)
         /\ thread[c] \notin {"none", "freed"} /\ ~OnAStack(c)
<1>1. c \in Contexts /\ Inner = {c} /\ AtTrap(c) /\ thread[c] \notin {"none", "freed"}
  BY DEF IInv, HandOver, Inner, Starting, Active, Returning, CallingUp, Exiting, Running,
         Types, Registers
<1>2. ASSUME NEW t \in Tasks, NEW i \in 1 .. Sp(t), stack[t][i].context = c PROVE FALSE
  <2>1. FrameOK(t, i) /\ i \in Nat /\ Sp(t) \in 0 .. NContexts
    BY OnTheStack
  <2>2. saved_regs[c].task = t /\ saved_regs[c].sp = i - 1
    BY <1>2, <2>1 DEF FrameOK
  <2>3. Sp(t) = i - 1
    BY <1>1, <2>2 DEF AtTrap, Sp
  <2> QED  BY <2>1, <2>3
<1> QED  BY <1>1, <1>2 DEF OnAStack

LEMMA InitCovered == Init => Covered
BY DEF Init, Covered

(* The frames and Inner stay: so does what Covered says, if no context goes.  *)
LEMMA CoveredStays ==
  ASSUME Covered, resets' = resets, Inner' = Inner,
         \A t \in Tasks : Sp(t)' = Sp(t), stack' = stack,
         \A c \in Contexts : thread'[c] \notin {"none", "freed"} =>
                               thread[c] \notin {"none", "freed"}
  PROVE  Covered'
BY DEF Covered, OnAStack

LEMMA ThreadCovered ==
  ASSUME IInv, Covered, NEW c \in Contexts, Thread(c)
  PROVE  /\ Covered' /\ Inner' = Inner /\ regs'.task = regs.task
         /\ \A t \in Tasks : Sp(t)' = Sp(t)
         /\ UNCHANGED <<stack, resets>>
         /\ \A d \in Contexts : thread'[d] = "none" <=> thread[d] = "none"
<1>1. emu = "switch" /\ c = emu_context /\ thread[c] \notin {"none", "freed"}
  BY Holder DEF Resting, Starting, Active, Returning, CallingUp, Exiting, Running, Thread,
     Start, Call68k, Done, Enter, Calling, Called, Back, Leaving, Goto, Wait
<1>2. UNCHANGED <<emu, emu_context, stack, switched, resets>>
  BY DEF Thread, Start, Call68k, Done, Enter, Calling, Called, Back, Leaving, machine
<1>3. regs'.task = regs.task /\ regs'.sp = regs.sp
  <2>1. CASE Calling(c)
    BY <2>1 DEF Calling, IInv, Types, Registers
  <2>2. CASE Leaving(c)
    <3>1. AtTrap(c)
      BY <1>1 DEF IInv, HandOver
    <3>2. saved_regs[c] \in SavedRegs
      BY DEF IInv, Types
    <3>3. regs'.task = saved_regs[c].task /\ regs'.sp = saved_regs[c].sp
      BY <2>2, <3>2 DEF Leaving, SavedRegs
    <3> QED  BY <3>1, <3>3 DEF AtTrap
  <2>3. CASE Start(c) \/ Call68k(c) \/ Done(c) \/ Enter(c) \/ Called(c) \/ Back(c)
    BY <2>3 DEF Start, Call68k, Done, Enter, Called, Back, machine
  <2> QED  BY <2>1, <2>2, <2>3 DEF Thread
<1>4. /\ \A d \in Contexts \ {c} : thread'[d] = thread[d]
      /\ thread'[c] \notin {"none", "freed"}
  BY DEF Thread, Start, Call68k, Done, Enter, Calling, Called, Back, Leaving, Goto, IInv, Types
<1>5. \A t \in Tasks : Sp(t)' = Sp(t)
  BY <1>2, <1>3 DEF Sp
<1>6. Inner' = Inner
  BY <1>1, <1>2 DEF Inner
<1>7. Covered'
  BY <1>1, <1>2, <1>4, <1>5, <1>6, CoveredStays
<1> QED  BY <1>1, <1>2, <1>3, <1>4, <1>5, <1>6, <1>7

LEMMA EmulationCovered ==
  ASSUME IInv, Covered, SwitchedBack \/ ReturnHandler
  PROVE  /\ Covered' /\ Inner' = Inner /\ regs' = regs
         /\ \A t \in Tasks : Sp(t)' = Sp(t)
         /\ UNCHANGED <<stack, resets, thread>>
<1>1. UNCHANGED <<regs, stack, switched, resets, thread, current_context>>
  BY DEF SwitchedBack, ReturnHandler, contextVars
<1>2. \A t \in Tasks : Sp(t)' = Sp(t)
  BY <1>1 DEF Sp
<1>3. Inner' = Inner
  <2>1. CASE SwitchedBack
    <3>1. CallingUp(emu_context) \/ Exiting(emu_context)
      BY <2>1 DEF SwitchedBack, Wait, IInv, HandOver, Starting, Active, Returning
    <3> QED  BY <1>1, <2>1, <3>1 DEF SwitchedBack, Inner, CallingUp, Exiting
  <2>2. CASE ReturnHandler
    BY <1>1, <2>2 DEF ReturnHandler, Inner
  <2> QED  BY <2>1, <2>2
<1>4. Covered'
  BY <1>1, <1>2, <1>3, CoveredStays
<1> QED  BY <1>1, <1>2, <1>3, <1>4

LEMMA EnterTrapCovered ==
  ASSUME IInv, Covered, NEW c \in Contexts, EnterTrap(c)
  PROVE  /\ Covered' /\ Inner = {} /\ Inner' = {c}
         /\ \A t \in Tasks : Sp(t)' = Sp(t)
<1>1. Inner = {} /\ Inner' = {c}
  BY DEF EnterTrap, Inner
<1>2. \A t \in Tasks : Sp(t)' = Sp(t)
  BY DEF EnterTrap, Sp
<1>3. Covered'
  <2> SUFFICES ASSUME resets' = 0, NEW d \in Contexts, thread'[d] \notin {"none", "freed"}, d # c
               PROVE  OnAStack(d)'
    BY <1>1 DEF Covered
  <2>1. thread[d] = thread'[d]
    BY DEF EnterTrap, Goto, IInv, Types
  <2>2. OnAStack(d)
    BY <1>1, <2>1 DEF EnterTrap, Covered
  <2> QED  BY <1>2, <2>2 DEF EnterTrap, OnAStack
<1> QED  BY <1>1, <1>2, <1>3

LEMMA CallHandlerCovered ==
  ASSUME IInv, Covered, CallHandler
  PROVE  /\ Covered' /\ Inner' = {} /\ resets' = resets /\ thread' = thread
         /\ \E c \in Contexts, t \in Tasks, n \in Nat :
              /\ Inner = {c} /\ t = regs.task /\ t = regs'.task
              /\ Sp(t) = n /\ Sp(t)' = n + 1 /\ stack'[t][n + 1].context = c
              /\ \A i \in 1 .. n : stack'[t][i] = stack[t][i]
              /\ \A u \in Tasks \ {t} : stack'[u] = stack[u] /\ Sp(u)' = Sp(u)
<1>1. PICK c \in Contexts, t \in Tasks, n \in Nat :
        c = current_context /\ t = regs.task /\ n = regs.sp
  BY DEF CallHandler, IInv, Types, HandOver, Registers
<1>2. Sp(t) = n /\ n <= Len(stack[t]) /\ stack[t] \in Seq(Frame) /\ stack \in [Tasks -> Seq(Frame)]
  BY <1>1 DEF IInv, Types, Sp
<1>3. PICK frame : frame = [context |-> c, call |-> ncalls[c]]
  OBVIOUS
<1>4. /\ emu = "68k" /\ regs.pc = "call" /\ frame.context = c
      /\ stack' = [stack EXCEPT ![t] = Append(SubSeq(stack[t], 1, n), frame)]
      /\ regs' = [task |-> t, sp |-> n + 1, pc |-> "code", masked |-> saved_regs[c].masked]
      /\ UNCHANGED <<emu, emu_context, switched, current_context, thread, resets>>
  BY <1>1, <1>3 DEF CallHandler, contextVars
<1>5. frame \in Frame
  BY <1>1, <1>3, <1>4, TrapAssumption DEF IInv, HandOver, Types, Values, Frame
<1>6. PICK p : p = SubSeq(stack[t], 1, n)
  OBVIOUS
<1>7. p \in Seq(Frame) /\ Len(p) = n /\ \A i \in 1 .. n : p[i] = stack[t][i]
  <2>1. \A i \in 1 .. n : stack[t][i] \in Frame
    BY <1>2, ElementOfSeq
  <2> QED BY <1>2, <1>6, <2>1, SubSeqProperties
<1>8. /\ stack'[t][n + 1] = frame /\ \A i \in 1 .. n : stack'[t][i] = stack[t][i]
      /\ \A u \in Tasks \ {t} : stack'[u] = stack[u]
  <2>1. stack'[t] = Append(p, frame)
    BY <1>2, <1>4, <1>6
  <2>2. stack'[t][n + 1] = frame /\ \A i \in 1 .. n : stack'[t][i] = p[i]
    BY <1>5, <1>7, <2>1, AppendProperties
  <2> QED  BY <1>2, <1>4, <1>7, <2>2
<1>9. Sp(t)' = n + 1 /\ \A u \in Tasks \ {t} : Sp(u)' = Sp(u)
  BY <1>1, <1>4 DEF Sp
<1>10. Inner = {c} /\ Inner' = {}
  BY <1>1, <1>4 DEF Inner
<1>11. Covered'
  <2> SUFFICES ASSUME resets' = 0, NEW d \in Contexts, thread'[d] \notin {"none", "freed"}
               PROVE  OnAStack(d)'
    BY DEF Covered
  <2>1. CASE d = c
    <3>1. n + 1 \in 1 .. Sp(t)' /\ stack'[t][n + 1].context = c
      BY <1>4, <1>8, <1>9
    <3> QED  BY <2>1, <3>1 DEF OnAStack
  <2>2. CASE d # c
    <3>1. PICK u \in Tasks : \E i \in 1 .. Sp(u) : stack[u][i].context = d
      BY <1>4, <1>10, <2>2 DEF Covered, OnAStack
    <3>2. PICK i \in 1 .. Sp(u) : stack[u][i].context = d
      BY <3>1
    <3>3. i \in 1 .. Sp(u)' /\ stack'[u][i] = stack[u][i]
      BY <1>2, <1>8, <1>9
    <3> QED  BY <3>2, <3>3 DEF OnAStack
  <2> QED  BY <2>1, <2>2
<1>12. stack'[t][n + 1].context = c /\ regs'.task = t
  BY <1>4, <1>8
<1>13. \E d \in Contexts, v \in Tasks, m \in Nat :
         /\ Inner = {d} /\ v = regs.task /\ v = regs'.task
         /\ Sp(v) = m /\ Sp(v)' = m + 1 /\ stack'[v][m + 1].context = d
         /\ \A i \in 1 .. m : stack'[v][i] = stack[v][i]
         /\ \A u \in Tasks \ {v} : stack'[u] = stack[u] /\ Sp(u)' = Sp(u)
  <2> WITNESS c \in Contexts, t \in Tasks, n \in Nat
  <2> QED  BY <1>1, <1>2, <1>8, <1>9, <1>10, <1>12
<1> QED  BY <1>4, <1>10, <1>11, <1>13

LEMMA ReturnSwitchCovered ==
  ASSUME IInv, Covered, ReturnSwitch
  PROVE  /\ Covered' /\ Inner = {} /\ resets' = resets /\ thread' = thread /\ stack' = stack
         /\ \E c \in Contexts, t \in Tasks, n \in Nat :
              /\ Inner' = {c} /\ t = regs.task /\ t = regs'.task
              /\ Sp(t) = n + 1 /\ Sp(t)' = n /\ stack[t][n + 1].context = c
              /\ \A u \in Tasks \ {t} : Sp(u)' = Sp(u)
<1>1. PICK t \in Tasks, m \in 1 .. NContexts : t = regs.task /\ m = regs.sp
  BY DEF ReturnSwitch, IInv, Types, HandOver, Registers
<1>2. PICK n \in Nat : m = n + 1 /\ n = m - 1
  <2>1. m - 1 \in Nat /\ m = (m - 1) + 1
    BY TrapAssumption
  <2> QED  BY <2>1
<1>3. Sp(t) = n + 1 /\ n + 1 \in 1 .. Sp(t)
  BY <1>1, <1>2 DEF Sp
<1>4. PICK c \in Contexts : c = stack[t][n + 1].context
  BY <1>3, OnTheStack
<1>5. /\ emu = "mutex" /\ emu' = "switch" /\ emu_context' = c
      /\ regs' = [regs EXCEPT !.sp = n]
      /\ UNCHANGED <<stack, switched, thread, resets>>
  <2>1. regs.sp - 1 = n
    BY <1>1, <1>2
  <2> QED  BY <1>1, <1>2, <1>4, <2>1 DEF ReturnSwitch
<1>6. regs'.task = t /\ regs'.sp = n
  BY <1>1, <1>5 DEF IInv, Types, Registers
<1>7. Sp(t)' = n /\ \A u \in Tasks \ {t} : Sp(u)' = Sp(u)
  BY <1>1, <1>5, <1>6 DEF Sp
<1>8. Inner = {} /\ Inner' = {c}
  BY <1>5 DEF Inner
<1>9. Covered'
  <2> SUFFICES ASSUME resets' = 0, NEW d \in Contexts, thread'[d] \notin {"none", "freed"}, d # c
               PROVE  OnAStack(d)'
    BY <1>8 DEF Covered
  <2>1. PICK u \in Tasks : \E i \in 1 .. Sp(u) : stack[u][i].context = d
    BY <1>5, <1>8 DEF Covered, OnAStack
  <2>2. PICK i \in 1 .. Sp(u) : stack[u][i].context = d
    BY <2>1
  <2>3. i \in 1 .. Sp(u)'
    BY <1>3, <1>4, <1>7, <2>2
  <2> QED  BY <1>5, <2>2, <2>3 DEF OnAStack
<1>10. \E d \in Contexts, v \in Tasks, k \in Nat :
         /\ Inner' = {d} /\ v = regs.task /\ v = regs'.task
         /\ Sp(v) = k + 1 /\ Sp(v)' = k /\ stack[v][k + 1].context = d
         /\ \A u \in Tasks \ {v} : Sp(u)' = Sp(u)
  <2> WITNESS c \in Contexts, t \in Tasks, n \in Nat
  <2> QED  BY <1>1, <1>3, <1>4, <1>6, <1>7, <1>8
<1> QED  BY <1>5, <1>8, <1>9, <1>10

LEMMA ExitHandlerCovered ==
  ASSUME IInv, Covered, ExitHandler
  PROVE  /\ Covered' /\ Inner = {current_context} /\ current_context \in Contexts
         /\ Inner' = {} /\ regs'.task = regs.task
         /\ \A t \in Tasks : Sp(t)' = Sp(t)
<1>1. current_context \in Contexts /\ AtTrap(current_context)
  BY DEF ExitHandler, IInv, HandOver
<1>2. regs'.task = regs.task /\ regs'.sp = regs.sp /\ regs'.pc = "code"
  BY <1>1 DEF ExitHandler, IInv, Types, SavedRegs, AtTrap
<1>3. Inner = {current_context} /\ Inner' = {}
  BY <1>2 DEF ExitHandler, Inner
<1>4. \A t \in Tasks : Sp(t)' = Sp(t)
  BY <1>2 DEF ExitHandler, Sp
<1>5. Covered'
  <2> SUFFICES ASSUME resets' = 0, NEW d \in Contexts, thread'[d] \notin {"none", "freed"}
               PROVE  OnAStack(d)'
    BY DEF Covered
  <2>1. d # current_context /\ thread[d] = thread'[d]
    BY <1>1 DEF ExitHandler, Goto, IInv, Types
  <2>2. OnAStack(d)
    BY <1>3, <2>1 DEF ExitHandler, Covered
  <2> QED  BY <1>4, <2>2 DEF ExitHandler, OnAStack
<1> QED  BY <1>1, <1>2, <1>3, <1>4, <1>5

LEMMA SwitchCovered ==
  ASSUME IInv, Covered, NEW t \in Tasks, Switch(t)
  PROVE  /\ Covered' /\ Inner = {} /\ Inner' = {} /\ regs'.task = t
         /\ \A u \in Tasks : Sp(u)' = Sp(u)
<1>1. regs'.task = t /\ regs'.pc = "code" /\ regs'.sp = switched[t].sp /\ regs.pc = "code"
      /\ regs.task \in Tasks
  BY DEF Switch, IInv, Types, Registers
<1>2. \A u \in Tasks : Sp(u)' = Sp(u)
  BY <1>1 DEF Switch, IInv, Types, Sp
<1>3. Inner = {} /\ Inner' = {}
  BY <1>1 DEF Switch, Inner
<1>4. Covered'
  BY <1>2, <1>3, CoveredStays DEF Switch, contextVars
<1> QED  BY <1>1, <1>2, <1>3, <1>4

LEMMA ResetCovered == Reset /\ IInv => Covered'
BY DEF Reset, Covered, IInv, Types

LEMMA NextCovered == IInv /\ Covered /\ [Next]_vars => Covered'
<1> SUFFICES ASSUME IInv, Covered, [Next]_vars PROVE Covered'
  OBVIOUS
<1>1. CASE UNCHANGED vars
  BY <1>1 DEF vars, machine, contextVars, Covered, Inner, OnAStack, Sp
<1>2. CASE Emulation \/ Reset
  BY <1>2, EmulationCovered, CallHandlerCovered, ReturnSwitchCovered, ExitHandlerCovered,
     ResetCovered DEF Emulation
<1>3. ASSUME NEW c \in Contexts, EnterTrap(c) \/ Thread(c) PROVE Covered'
  BY <1>3, EnterTrapCovered, ThreadCovered
<1> QED  BY <1>1, <1>2, <1>3, SwitchCovered DEF Next

-----------------------------------------------------------------------------
(* The refinement, state by state and step by step.                           *)

At(t) == Calls(stack[t], Sp(t), IF t = regs.task THEN Inner ELSE {})

LEMMA InnermostIsInner ==
  ASSUME IInv, Covered, resets = 0
  PROVE  Innermost = Inner
<1>1. \A t \in Tasks : /\ Len(OnStack(t)) = Sp(t)
                       /\ \A i \in 1 .. Sp(t) : OnStack(t)[i] = stack[t][i]
  <2> TAKE t \in Tasks
  <2>1. stack[t] \in Seq(Frame) /\ Sp(t) <= Len(stack[t]) /\ Sp(t) \in Nat
    BY DEF IInv, Types, Sp, Registers
  <2>2. PICK n \in Nat : n = Sp(t)
    BY <2>1
  <2>3. OnStack(t) = SubSeq(stack[t], 1, n)
    BY <2>2 DEF OnStack, Sp
  <2>4. \A i \in 1 .. n : stack[t][i] \in Frame
    BY <2>1, <2>2, ElementOfSeq
  <2>5. Len(SubSeq(stack[t], 1, n)) = n /\ \A i \in 1 .. n : SubSeq(stack[t], 1, n)[i] = stack[t][i]
    BY <2>1, <2>2, <2>4, SubSeqProperties
  <2> QED  BY <2>2, <2>3, <2>5
<1>2. \A c \in Contexts :
        (\A t \in Tasks : \A i \in 1 .. Len(OnStack(t)) : OnStack(t)[i].context # c) <=> ~OnAStack(c)
  BY <1>1 DEF OnAStack
<1>3. Innermost = {c \in Contexts : thread[c] \notin {"none", "freed"} /\ ~OnAStack(c)}
  BY <1>2 DEF Innermost
<1>4. \A c \in Inner : c \in Contexts /\ thread[c] \notin {"none", "freed"} /\ ~OnAStack(c)
  BY InnerOne
<1>5. \A c \in Contexts : thread[c] \notin {"none", "freed"} /\ ~OnAStack(c) => c \in Inner
  BY DEF Covered
<1> QED  BY <1>3, <1>4, <1>5

(* What the promise sees of the traps: before a reset the calls of each task, *)
(* after one nothing.                                                         *)
Mapped ==
  /\ CallStacks = [t \in Tasks |-> At(t)]
  /\ ~Down /\ Task = regs.task /\ Invoked = {c \in Contexts : thread[c] # "none"}
Forgotten ==
  /\ CallStacks = [t \in Tasks |-> <<>>]
  /\ Down /\ Task = (CHOOSE t \in Tasks : TRUE) /\ Invoked = {}
View ==
  /\ Task \in Tasks
  /\ resets = 0 => Mapped
  /\ resets # 0 => Forgotten

LEMMA WhatIsCalled ==
  ASSUME IInv, Covered
  PROVE  View
<1>1. regs.task \in Tasks /\ resets \in Nat
  BY TrapAssumption DEF IInv, Types, Registers
<1>2. ASSUME resets = 0, NEW t \in Tasks
      PROVE  (Pending(t) \o IF t = regs.task
                            THEN SetToSeq({[kind |-> "trap", context |-> c] : c \in Innermost})
                            ELSE <<>>) = At(t)
  <2>1. OnStack(t) = SubSeq(stack[t], 1, Sp(t))
    BY DEF OnStack, Sp
  <2>2. PICK s : s = OnStack(t)
    OBVIOUS
  <2>3. Pending(t) = [j \in 1 .. 2 * Len(s) |-> Item(s, j)]
    BY <2>2 DEF Pending, Item
  <2>4. CASE t = regs.task
    <3>1. At(t) = [j \in 1 .. 2 * Len(s) |-> Item(s, j)]
                    \o SetToSeq({[kind |-> "trap", context |-> c] : c \in Inner})
      BY <2>1, <2>2, <2>4 DEF At, Calls
    <3> QED  BY <2>3, <2>4, <3>1, <1>2, InnermostIsInner
  <2>5. CASE t # regs.task
    <3>1. {[kind |-> "trap", context |-> c] : c \in {}} = {}
      OBVIOUS
    <3>2. At(t) = [j \in 1 .. 2 * Len(s) |-> Item(s, j)] \o SetToSeq({})
      BY <2>1, <2>2, <2>5, <3>1 DEF At, Calls
    <3> QED  BY <2>3, <2>5, <3>2, SingleToSeq
  <2> QED  BY <2>4, <2>5
<1>3. resets = 0 => Mapped
  <2> SUFFICES ASSUME resets = 0 PROVE Mapped
    OBVIOUS
  <2>1. ~Down
    BY DEF Down
  <2>2. CallStacks = [t \in Tasks |-> At(t)]
    BY <1>2, <2>1, Zenon DEF CallStacks
  <2> QED  BY <2>1, <2>2 DEF Mapped, Task, Invoked
<1>4. resets # 0 => Forgotten
  BY <1>1 DEF Forgotten, CallStacks, Down, Task, Invoked
<1>5. Task \in Tasks
  BY <1>1, TrapAssumption DEF Task
<1> QED  BY <1>3, <1>4, <1>5 DEF View

(* With nobody at work, what was called last is a 68k function, if anything.  *)
LEMMA CodeRuns ==
  ASSUME IInv, View, resets = 0, Inner = {}
  PROVE  Nested!In68k
<1>1. PICK t \in Tasks, n \in Nat : t = regs.task /\ n = Sp(t)
  BY DEF IInv, Types, Registers, Sp
<1>2. stack[t] \in Seq(Frame) /\ n <= Len(stack[t])
  BY <1>1 DEF IInv, Types
<1>3. PICK s : s = Calls(stack[t], n, {})
  OBVIOUS
<1>4. CallStacks[Task] = s /\ ~Down
  BY <1>1, <1>3 DEF At, View, Mapped
<1>5. CASE n = 0
  <2>1. Len(s) = 0 /\ s \in Seq(Call68kd)
    BY <1>2, <1>3, <1>5, FramesOnly
  <2>2. s = <<>>
    BY <2>1, EmptySeq
  <2> QED  BY <1>4, <2>2 DEF Nested!In68k
<1>6. CASE n # 0
  <2>1. Len(s) = 2 * n /\ 2 * n \in 1 .. 2 * n /\ s[2 * n] = Item(stack[t], 2 * n)
    BY <1>2, <1>3, <1>6, FramesOnly
  <2>2. (2 * n) % 2 = 0
    OBVIOUS
  <2>3. s[Len(s)].kind = "func"
    BY <2>1, <2>2 DEF Item
  <2> QED  BY <1>4, <2>3 DEF Nested!In68k, Nested!Last
<1> QED  BY <1>5, <1>6

(* An invocation: a trap more on the stack of the task that runs.             *)
LEMMA EnterTrapNests ==
  ASSUME IInv, Covered, View, View', NEW c \in Contexts, EnterTrap(c), resets = 0
  PROVE  Nested!Enter(c)
<1>1. /\ regs' = regs /\ stack' = stack /\ resets' = 0 /\ thread[c] = "none"
      /\ thread' = [thread EXCEPT ![c] = "start"] /\ emu = "68k" /\ regs.pc = "code"
  BY DEF EnterTrap, Goto
<1>2. PICK t \in Tasks, n \in Nat : t = regs.task /\ n = Sp(t)
  BY DEF IInv, Types, Registers, Sp
<1>3. stack[t] \in Seq(Frame) /\ n <= Len(stack[t])
  BY <1>2 DEF IInv, Types
<1>4. /\ Inner = {} /\ Inner' = {c} /\ \A u \in Tasks : Sp(u)' = Sp(u)
  BY EnterTrapCovered
<1>5. Mapped /\ Mapped'
  BY <1>1 DEF View
<1>6. PICK s : s = Calls(stack[t], n, {})
  OBVIOUS
<1>7. At(t) = s /\ At(t)' = Append(s, Nested!Trap(c)) /\ \A u \in Tasks \ {t} : At(u)' = At(u)
  <2>1. At(t) = s
    BY <1>2, <1>4, <1>6 DEF At
  <2>2. At(t)' = Calls(stack[t], n, {c})
    BY <1>1, <1>2, <1>4 DEF At
  <2>3. At(t)' = Append(s, Nested!Trap(c))
    BY <1>3, <1>6, <2>2, TrapPushed
  <2>4. \A u \in Tasks \ {t} : At(u)' = At(u)
    BY <1>1, <1>2, <1>4 DEF At
  <2> QED  BY <2>1, <2>3, <2>4
<1>8. CallStacks[Task] = s /\ Task = t /\ Task' = t
  BY <1>1, <1>2, <1>5, <1>7 DEF Mapped
<1>9. Nested!Push(Nested!Trap(c))
  BY <1>5, <1>7, <1>8 DEF Mapped, Nested!Push
<1>10. Nested!In68k
  BY <1>1, <1>4, CodeRuns
<1>11. c \notin Invoked /\ Invoked' = Invoked \cup {c}
  BY <1>1, <1>5 DEF Mapped, IInv, Types
<1>12. Task' = Task /\ Down' = Down
  BY <1>1, <1>8 DEF Down
<1> QED  BY <1>9, <1>10, <1>11, <1>12 DEF Nested!Enter

(* A call of a 68k function: on top of the trap that makes it.                *)
LEMMA CallHandlerNests ==
  ASSUME IInv, IInv', Covered, View, View', CallHandler, resets = 0
  PROVE  \E c \in Contexts : Nested!Call(c)
<1>1. /\ Inner' = {} /\ resets' = 0 /\ thread' = thread
      /\ \E c \in Contexts, t \in Tasks, n \in Nat :
           /\ Inner = {c} /\ t = regs.task /\ t = regs'.task
           /\ Sp(t) = n /\ Sp(t)' = n + 1 /\ stack'[t][n + 1].context = c
           /\ \A i \in 1 .. n : stack'[t][i] = stack[t][i]
           /\ \A u \in Tasks \ {t} : stack'[u] = stack[u] /\ Sp(u)' = Sp(u)
  BY CallHandlerCovered
<1>2. PICK c \in Contexts, t \in Tasks, n \in Nat :
        /\ Inner = {c} /\ t = regs.task /\ t = regs'.task
        /\ Sp(t) = n /\ Sp(t)' = n + 1 /\ stack'[t][n + 1].context = c
        /\ \A i \in 1 .. n : stack'[t][i] = stack[t][i]
        /\ \A u \in Tasks \ {t} : stack'[u] = stack[u] /\ Sp(u)' = Sp(u)
  BY <1>1
<1>3. PICK s, r : s = stack'[t] /\ r = stack[t]
  OBVIOUS
<1>4. r \in Seq(Frame) /\ n <= Len(r) /\ s \in Seq(Frame) /\ n + 1 <= Len(s)
  BY <1>2, <1>3 DEF IInv, Types
<1>5. Mapped /\ Mapped'
  BY <1>1 DEF View
<1>6. Calls(s, n + 1, {}) = Append(Calls(r, n, {c}), Nested!Func(c))
  <2>1. s[n + 1].context = c /\ \A i \in 1 .. n : r[i] = s[i]
    BY <1>2, <1>3
  <2> QED  BY <1>4, <2>1, FuncPushed
<1>7. Calls(r, n, {c}) = Append(Calls(r, n, {}), Nested!Trap(c))
  BY <1>4, TrapPushed
<1>8. /\ At(t) = Calls(r, n, {c}) /\ At(t)' = Calls(s, n + 1, {})
      /\ \A u \in Tasks \ {t} : At(u)' = At(u)
  BY <1>1, <1>2, <1>3 DEF At
<1>9. CallStacks[Task] = Calls(r, n, {c}) /\ Task = t /\ Task' = t
  BY <1>2, <1>5, <1>8 DEF Mapped
<1>10. Nested!Push(Nested!Func(c))
  BY <1>5, <1>6, <1>8, <1>9 DEF Mapped, Nested!Push
<1>11. Nested!InTrap(c)
  <2>1. Calls(r, n, {}) \in Seq(Call68kd) /\ Nested!Trap(c) \in Call68kd
    BY <1>4, FramesOnly DEF Nested!Trap, Call68kd
  <2> QED  BY ZenonT(30), <1>7, <1>9, <2>1, FrontLast DEF Nested!InTrap
<1>12. Task' = Task /\ Down' = Down /\ Invoked' = Invoked
  BY <1>1, <1>5, <1>9 DEF Down, Mapped
<1> QED  BY <1>10, <1>11, <1>12 DEF Nested!Call

(* The 68k function returns to the trap that called it, which is under it.    *)
LEMMA ReturnSwitchNests ==
  ASSUME IInv, IInv', Covered, View, View', ReturnSwitch, resets = 0
  PROVE  \E c \in Contexts : Nested!Return(c)
<1>1. /\ Inner = {} /\ resets' = 0 /\ thread' = thread /\ stack' = stack
      /\ \E c \in Contexts, t \in Tasks, n \in Nat :
           /\ Inner' = {c} /\ t = regs.task /\ t = regs'.task
           /\ Sp(t) = n + 1 /\ Sp(t)' = n /\ stack[t][n + 1].context = c
           /\ \A u \in Tasks \ {t} : Sp(u)' = Sp(u)
  BY ReturnSwitchCovered
<1>2. PICK c \in Contexts, t \in Tasks, n \in Nat :
        /\ Inner' = {c} /\ t = regs.task /\ t = regs'.task
        /\ Sp(t) = n + 1 /\ Sp(t)' = n /\ stack[t][n + 1].context = c
        /\ \A u \in Tasks \ {t} : Sp(u)' = Sp(u)
  BY <1>1
<1>3. PICK s : s = stack[t]
  OBVIOUS
<1>4. s \in Seq(Frame) /\ n + 1 <= Len(s) /\ n <= Len(s)
  <2>1. s \in Seq(Frame) /\ n + 1 <= Len(s)
    BY <1>2, <1>3 DEF IInv, Types
  <2> QED  BY <2>1, LenProperties
<1>5. Mapped /\ Mapped'
  BY <1>1 DEF View
<1>6. Calls(s, n + 1, {}) = Append(Calls(s, n, {c}), Nested!Func(c))
  <2>1. s[n + 1].context = c
    BY <1>2, <1>3
  <2> QED  BY <1>4, <2>1, FuncPushed
<1>7. /\ At(t) = Calls(s, n + 1, {}) /\ At(t)' = Calls(s, n, {c})
      /\ \A u \in Tasks \ {t} : At(u)' = At(u)
  BY <1>1, <1>2, <1>3 DEF At
<1>8. CallStacks[Task] = Calls(s, n + 1, {}) /\ Task = t /\ Task' = t
  BY <1>2, <1>5, <1>7 DEF Mapped
<1>9. /\ Nested!Front(Calls(s, n + 1, {})) = Calls(s, n, {c})
      /\ Nested!Last(Calls(s, n + 1, {})) = Nested!Func(c) /\ Calls(s, n + 1, {}) # <<>>
  <2>1. /\ Calls(s, n, {}) \in Seq(Call68kd)
        /\ Nested!Trap(c) \in Call68kd /\ Nested!Func(c) \in Call68kd
    BY <1>4, FramesOnly DEF Nested!Trap, Nested!Func, Call68kd
  <2>2. PICK w, x : w = Calls(s, n, {}) /\ x = Nested!Trap(c)
    OBVIOUS
  <2>3. Calls(s, n, {c}) \in Seq(Call68kd)
    <3>1. Calls(s, n, {c}) = Append(w, x)
      BY <1>4, <2>2, TrapPushed
    <3>2. w \in Seq(Call68kd) /\ x \in Call68kd
      BY <2>1, <2>2
    <3>3. PICK v : v = Append(w, x)
      OBVIOUS
    <3>4. v \in Seq(Call68kd)
      BY <3>2, <3>3, AppendProperties
    <3> QED  BY <3>1, <3>3, <3>4
  <2> QED  BY ZenonT(30), <1>6, <2>1, <2>3, FrontLast
<1>10. Nested!Pop /\ Nested!InFunc(c)
  BY <1>5, <1>7, <1>8, <1>9 DEF Mapped, Nested!Pop, Nested!InFunc
<1>11. Task' = Task /\ Down' = Down /\ Invoked' = Invoked
  BY <1>1, <1>5, <1>8 DEF Down, Mapped
<1> QED  BY <1>10, <1>11 DEF Nested!Return

(* A host function is over that had the task that runs.                       *)
LEMMA ExitHandlerNests ==
  ASSUME IInv, Covered, View, View', ExitHandler, resets = 0
  PROVE  \E c \in Contexts : Nested!Exit(c)
<1>1. PICK c \in Contexts : c = current_context
  BY ExitHandlerCovered
<1>2. /\ Inner = {c} /\ Inner' = {} /\ regs'.task = regs.task
      /\ \A u \in Tasks : Sp(u)' = Sp(u)
  BY <1>1, ExitHandlerCovered
<1>3. stack' = stack /\ resets' = 0 /\ thread[c] = "gone" /\ thread' = [thread EXCEPT ![c] = "freed"]
  BY <1>1 DEF ExitHandler, Goto
<1>4. PICK t \in Tasks, n \in Nat : t = regs.task /\ n = Sp(t)
  BY DEF IInv, Types, Registers, Sp
<1>5. PICK s : s = stack[t]
  OBVIOUS
<1>6. s \in Seq(Frame) /\ n <= Len(s)
  BY <1>4, <1>5 DEF IInv, Types
<1>7. Mapped /\ Mapped'
  BY <1>3 DEF View
<1>8. /\ At(t) = Calls(s, n, {c}) /\ At(t)' = Calls(s, n, {})
      /\ \A u \in Tasks \ {t} : At(u)' = At(u)
  BY <1>2, <1>3, <1>4, <1>5 DEF At
<1>9. CallStacks[Task] = Calls(s, n, {c}) /\ Task = t /\ Task' = t
  BY <1>2, <1>4, <1>7, <1>8 DEF Mapped
<1>10. /\ Nested!Front(Calls(s, n, {c})) = Calls(s, n, {})
       /\ Nested!Last(Calls(s, n, {c})) = Nested!Trap(c) /\ Calls(s, n, {c}) # <<>>
  <2>1. Calls(s, n, {}) \in Seq(Call68kd) /\ Nested!Trap(c) \in Call68kd
    BY <1>6, FramesOnly DEF Nested!Trap, Call68kd
  <2>2. Calls(s, n, {c}) = Append(Calls(s, n, {}), Nested!Trap(c))
    BY <1>6, TrapPushed
  <2> QED  BY <2>1, <2>2, FrontLast
<1>11. Nested!Pop /\ Nested!InTrap(c)
  BY <1>7, <1>8, <1>9, <1>10 DEF Mapped, Nested!Pop, Nested!InTrap
<1>12. Task' = Task /\ Down' = Down /\ Invoked' = Invoked
  <2>1. Invoked' = Invoked
    BY <1>3, <1>7 DEF Mapped, IInv, Types
  <2> QED  BY <1>3, <1>9, <2>1 DEF Down
<1> QED  BY <1>11, <1>12 DEF Nested!Exit

LEMMA SwitchNests ==
  ASSUME IInv, Covered, View, View', NEW t \in Tasks, Switch(t), resets = 0
  PROVE  Nested!Switch(t)
<1>1. /\ Inner = {} /\ Inner' = {} /\ regs'.task = t
      /\ \A u \in Tasks : Sp(u)' = Sp(u)
  BY SwitchCovered
<1>2. stack' = stack /\ resets' = 0 /\ thread' = thread
  BY DEF Switch, contextVars
<1>3. Mapped /\ Mapped'
  BY <1>2 DEF View
<1>4. \A u \in Tasks : At(u)' = At(u)
  BY <1>1, <1>2 DEF At
<1>5. CallStacks' = CallStacks /\ Invoked' = Invoked /\ Down' = Down /\ Task' = t
  BY <1>1, <1>2, <1>3, <1>4 DEF Mapped, Down
<1> QED  BY <1>1, <1>5, CodeRuns DEF Nested!Switch

(* What happens between a trap and its thread is not seen.                    *)
LEMMA OthersStutter ==
  ASSUME IInv, View, View', resets = 0, resets' = 0, Inner' = Inner, regs'.task = regs.task,
         \A t \in Tasks : Sp(t)' = Sp(t), stack' = stack,
         \A d \in Contexts : thread'[d] = "none" <=> thread[d] = "none"
  PROVE  UNCHANGED Nested!vars
<1>1. Mapped /\ Mapped'
  BY DEF View
<1>2. \A t \in Tasks : At(t)' = At(t)
  BY DEF At
<1>3. CallStacks' = CallStacks /\ Invoked' = Invoked /\ Down' = Down /\ Task' = Task
  BY <1>1, <1>2 DEF Mapped, Down
<1> QED  BY <1>3 DEF Nested!vars

LEMMA InitNests == Init => Nested!Init
<1> SUFFICES ASSUME Init PROVE Nested!Init
  OBVIOUS
<1>1. IInv /\ Covered /\ resets = 0
  BY InitIInv, InitCovered DEF Init
<1>2. View /\ Mapped
  BY <1>1, WhatIsCalled DEF View
<1>3. PICK t \in Tasks : regs = Fresh(t)
  BY DEF Init
<1>4. \A u \in Tasks : Sp(u) = 0 /\ stack[u] = <<>> /\ Inner = {}
  BY <1>3 DEF Init, Sp, Fresh, Inner
<1>5. \A u \in Tasks : At(u) = <<>>
  <2> TAKE u \in Tasks
  <2>1. At(u) = Calls(<<>>, 0, {})
    BY <1>4 DEF At
  <2>2. PICK s, n : s = <<>> /\ n = 0
    OBVIOUS
  <2>3. s \in Seq(Frame) /\ n \in Nat /\ n <= Len(s)
    BY <2>2
  <2>4. Calls(s, n, {}) \in Seq(Call68kd) /\ Len(Calls(s, n, {})) = 2 * n
    BY <2>3, FramesOnly
  <2>5. PICK q : q = Calls(s, n, {})
    OBVIOUS
  <2>6. q \in Seq(Call68kd) /\ Len(q) = 0
    BY <2>2, <2>4, <2>5
  <2> QED  BY <2>1, <2>2, <2>5, <2>6, EmptySeq
<1>6. Invoked = {}
  BY <1>2 DEF Mapped, Init
<1>7. Down = FALSE
  BY <1>1 DEF Down
<1> QED  BY <1>2, <1>5, <1>6, <1>7 DEF View, Mapped, Nested!Init

LEMMA NextNests ==
  IInv /\ IInv' /\ Covered /\ View /\ View' /\ [Next]_vars => [Nested!Next]_(Nested!vars)
<1> SUFFICES ASSUME IInv, IInv', Covered, View, View', [Next]_vars
             PROVE  Nested!Next \/ UNCHANGED Nested!vars
  OBVIOUS
<1>1. resets \in Nat /\ resets' \in Nat
  BY TrapAssumption DEF IInv, Types
<1>2. CASE Reset
  <2>1. resets' # 0
    BY <1>1, <1>2 DEF Reset
  <2>2. Forgotten'
    BY <2>1 DEF View
  <2> QED  BY <2>2 DEF View, Forgotten, Down, Nested!Next, Nested!Reset
<1>3. CASE ~Reset /\ resets # 0
  <2>1. resets' = resets
    BY <1>3 DEF Next, Emulation, SwitchedBack, CallHandler, ReturnHandler, ReturnSwitch,
       ExitHandler, Switch, EnterTrap, Thread, Start, Call68k, Done, Enter, Calling, Called,
       Back, Leaving, vars
  <2>2. Forgotten /\ Forgotten'
    BY <1>3, <2>1 DEF View
  <2>3. Down' = Down
    BY <2>1 DEF Down
  <2> QED  BY <2>2, <2>3 DEF Forgotten, Nested!vars
<1>4. CASE resets = 0 /\ UNCHANGED vars
  BY <1>4 DEF vars, machine, contextVars, Nested!vars, CallStacks, Pending, OnStack, Innermost,
     Down, Task, Invoked
<1>5. CASE resets = 0 /\ (SwitchedBack \/ ReturnHandler)
  BY <1>5, EmulationCovered, OthersStutter
<1>6. CASE resets = 0 /\ (CallHandler \/ ReturnSwitch \/ ExitHandler)
  BY <1>6, CallHandlerNests, ReturnSwitchNests, ExitHandlerNests DEF Nested!Next
<1>7. ASSUME NEW c \in Contexts, resets = 0, EnterTrap(c) PROVE Nested!Next
  BY <1>7, EnterTrapNests DEF Nested!Next
<1>8. ASSUME NEW c \in Contexts, resets = 0, Thread(c) PROVE UNCHANGED Nested!vars
  BY <1>8, ThreadCovered, OthersStutter
<1>9. ASSUME NEW t \in Tasks, resets = 0, Switch(t) PROVE Nested!Next
  BY <1>9, SwitchNests DEF Nested!Next
<1> QED  BY <1>2, <1>3, <1>4, <1>5, <1>6, <1>7, <1>8, <1>9 DEF Next, Emulation

(* Host functions and the 68k functions they call nest like procedure calls  *)
(* on the stack of the task that made them, and a task is not left while a    *)
(* host function runs on it: traps.c does what TrapCalls promises.            *)
THEOREM TrapsNestAsCalls == Spec => TrapsNest
<1>1. IInv /\ Covered => View
  BY WhatIsCalled
<1> QED  BY <1>1, TrapInvariant, InitCovered, NextCovered, InitNests, NextNests, PTL
            DEF Spec, TrapsNest, Nested!Spec
=============================================================================
