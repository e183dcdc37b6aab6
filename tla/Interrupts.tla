----------------------------- MODULE Interrupts -----------------------------
(***************************************************************************)
(* INTREQ as custom.c keeps it: the register intreq, and intreq_internal,  *)
(* what the CPU sees of it.  In the cycle exact modes the CPU sees a write *)
(* INT_PROCESSING_DELAY later: the write registers an event that carries   *)
(* what the register has become.  INTENA is the same, without the other    *)
(* ways to write.                                                          *)
(*                                                                         *)
(* The shared slots of eventtab2 are a set of events: which slot a new     *)
(* event finds, and so the order of those that are due in one cycle, is    *)
(* left open.  Two equal events are one: the second would set what is set. *)
(* Left out are other events that take slots, and what the CPU makes of    *)
(* the interrupts (intlev, doint).                                         *)
(***************************************************************************)
EXTENDS Naturals, FiniteSets

CONSTANTS
  Bits,       \* the interrupts
  NSlots,     \* the shared slots of eventtab2 (ev2_max - ev2_misc)
  Delay       \* INT_PROCESSING_DELAY, and the longest delay of send_interrupt

InterruptsAssumption == {NSlots, Delay} \subseteq Nat \ {0}

Modes == {"normal", "exact", "exact30"}     \* not cycle exact, up to a 68020, above

VARIABLES
  mode,              \* of the CPU emulation
  intreq, intreq_internal,
  events,            \* the active ones of eventtab2
  age,               \* ghost: the cycles since a bit of intreq changed, up to Delay + 1
  overtaken          \* ghost: may what the CPU sees next be older than what it has seen?

vars == <<mode, intreq, intreq_internal, events, age, overtaken>>

Init ==
  /\ mode \in Modes /\ intreq = {} /\ intreq_internal = {}
  /\ events = {} /\ age = [b \in Bits |-> 0] /\ overtaken = FALSE

UseEventmode(set) == mode = "exact" \/ (mode = "exact30" /\ set)

Setclr(reg, set, v) == IF set THEN reg \cup v ELSE reg \ v

\* event2_newevent_xx: the slot of an event for the same time and function, whose
\* function is then called at once, or a free one, if the search comes to it first.
Twins(e, old) == {o \in old : o.handler = e.handler /\ o.wait = e.wait}
FreeSlot(old) == Cardinality(old) < NSlots

Changed(reg) ==
  /\ intreq' = reg
  /\ age' = [b \in Bits |-> IF (b \in reg) # (b \in intreq) THEN 0 ELSE age[b]]

\* Mutant: the event carries the bits that are written.
Mut_Snapshot(reg, v) == [handler |-> "intreq", wait |-> Delay, data |-> v]
Snapshot(reg, v) == [handler |-> "intreq", wait |-> Delay, data |-> reg]

\* INTREQ_0; `old` are the other events.
INTREQ_0(set, v, old) ==
  LET reg == Setclr(intreq, set, v)
      e == Snapshot(reg, v)
  IN
    /\ Changed(reg)
    /\ IF ~set /\ reg = intreq
       THEN events' = old /\ UNCHANGED <<intreq_internal, overtaken>>
       ELSE IF ~UseEventmode(set)
       THEN /\ intreq_internal' = reg /\ events' = old
            /\ overtaken' = (overtaken \/ \E o \in old : o.handler = "intreq")
       ELSE \/ \E o \in Twins(e, old) :
                 /\ intreq_internal' = o.data /\ events' = (old \ {o}) \cup {e}
                 /\ overtaken' = (overtaken \/ Twins(e, old) # {o})
            \/ /\ FreeSlot(old) /\ events' = old \cup {e}
               /\ overtaken' = (overtaken \/ Twins(e, old) # {}) /\ UNCHANGED intreq_internal
            \/ /\ ~FreeSlot(old) /\ Twins(e, old) = {}
               /\ events' = old /\ overtaken' = TRUE /\ UNCHANGED intreq_internal

-----------------------------------------------------------------------------
\* A write of the register, by the CPU, the copper or another part of the chip set.
Write(set, v) == INTREQ_0(set, v, events) /\ UNCHANGED mode

\* send_interrupt: an interrupt in `delay` cycles, if it is not set yet.
SendInterrupt(b, delay) ==
  LET e == [handler |-> "send", wait |-> delay, data |-> {b}] IN
    /\ IF ~(UseEventmode(TRUE) /\ delay > 0) THEN INTREQ_0(TRUE, {b}, events)
       ELSE /\ b \notin intreq
            /\ \/ \E o \in Twins(e, events) : INTREQ_0(TRUE, o.data, (events \ {o}) \cup {e})
               \/ /\ FreeSlot(events) /\ events' = events \cup {e}
                  /\ UNCHANGED <<intreq, intreq_internal, age, overtaken>>
    /\ UNCHANGED mode

\* INTREQ_f, of the stopped CPU: with events, the CPU sees these bits and nothing else.
INTREQ_f(b) ==
  /\ IF UseEventmode(TRUE)
     THEN /\ intreq_internal' = {b} /\ overtaken' = TRUE
          /\ UNCHANGED <<intreq, age>>
     ELSE /\ Changed(intreq \cup {b}) /\ intreq_internal' = intreq_internal \cup {b}
          /\ UNCHANGED overtaken
  /\ UNCHANGED <<mode, events>>

-----------------------------------------------------------------------------
\* A cycle passes; MISC_handler has called what was due.
Cycle ==
  /\ \A e \in events : e.wait > 0
  /\ events' = {[e EXCEPT !.wait = @ - 1] : e \in events}
  /\ age' = [b \in Bits |-> IF age[b] <= Delay THEN age[b] + 1 ELSE age[b]]
  /\ UNCHANGED <<mode, intreq, intreq_internal, overtaken>>

\* MISC_handler calls what is due: send_intreq_do or send_interrupt_do.
Fire(e) ==
  /\ e \in events /\ e.wait = 0
  /\ IF e.handler = "intreq"
     THEN /\ intreq_internal' = e.data /\ events' = events \ {e}
          /\ UNCHANGED <<intreq, age, overtaken>>
     ELSE INTREQ_0(TRUE, e.data, events \ {e})
  /\ UNCHANGED mode

Next ==
  \/ \E set \in BOOLEAN, v \in SUBSET Bits : Write(set, v)
  \/ \E b \in Bits : INTREQ_f(b) \/ \E delay \in 0 .. Delay : SendInterrupt(b, delay)
  \/ Cycle \/ \E e \in events : Fire(e)

Spec == Init /\ [][Next]_vars

-----------------------------------------------------------------------------
(* What the CPU sees of an interrupt is what the register says, at the latest *)
(* INT_PROCESSING_DELAY after it changed, however sets, clears and delayed    *)
(* interrupts follow each other, and though every event carries all bits.     *)
(* Not so once INTREQ_f has overwritten them, a clear of the "exact30" mode   *)
(* or a second snapshot of one cycle in another slot may be overtaken by an   *)
(* older snapshot, or the table was full.                                     *)
Seen ==
  \A b \in Bits : ~overtaken /\ age[b] > Delay => (b \in intreq <=> b \in intreq_internal)
=============================================================================
