---------------------------- MODULE MCPeripherals ----------------------------
(***************************************************************************)
(* Parts that answer with an interrupt, for TLC: the network device, the   *)
(* timers of a CIA and INTREQ itself, one of the three per behaviour.      *)
(***************************************************************************)
EXTENDS Naturals

CONSTANTS Requests, Openers, Room, Traffic, None, r1, Values, StartHi, StartCr, DIV10, Bits, NSlots, Delay

VARIABLES
  which,                                                      \* the one that runs
  opener, command, sent, s2p, ar, lock, requests, thread, calling, writer, evttw, before, late,
  a, b, icr, elapsed, div10, evtime,
  mode, intreq, intreq_internal, events, age, overtaken

s2vars == <<opener, command, sent, s2p, ar, lock, requests, thread, calling, writer, evttw,
            before, late>>
ciavars == <<a, b, icr, elapsed, div10, evtime>>
intvars == <<mode, intreq, intreq_internal, events, age, overtaken>>
vars == <<which, s2vars, ciavars, intvars>>

\* All requests have one opener, or r1 has one of its own.
MCOpeners == {[r \in Requests |-> 1], [r \in Requests |-> IF r = r1 THEN 1 ELSE 2]}

S2 == INSTANCE Sana2Device
Cia == INSTANCE Cia
Irq == INSTANCE Interrupts

ASSUME PeripheralsAssumption ==
  S2!Sana2Assumption /\ Cia!CiaAssumption /\ Irq!InterruptsAssumption

Init ==
  /\ which \in {"sana2", "cia", "intreq"}
  /\ S2!Init /\ Cia!Init /\ Irq!Init
  /\ which # "sana2" => opener = CHOOSE o \in Openers : TRUE
  /\ which # "intreq" => mode = "normal"

Sana2(A) == which = "sana2" /\ A /\ UNCHANGED <<which, ciavars, intvars>>
Timers(A) == which = "cia" /\ A /\ UNCHANGED <<which, s2vars, intvars>>
Intreq(A) == which = "intreq" /\ A /\ UNCHANGED <<which, s2vars, ciavars>>

Next == Sana2(S2!Next) \/ Timers(Cia!Next) \/ Intreq(Irq!Next)

\* The fairness of the network device; the others are only looked at for safety.
Fairness ==
  /\ SF_vars(Sana2(S2!DevThread)) /\ WF_vars(Sana2(S2!Called))
  /\ WF_vars(Sana2(S2!Pushes)) /\ WF_vars(Sana2(S2!Awake))
  /\ \A r \in Requests : SF_vars(Sana2(S2!Transmit(r)))

Spec == Init /\ [][Next]_vars /\ Fairness

-----------------------------------------------------------------------------
(* SANA-II: a packet is sent once, a flush is answered after the requests     *)
(* before it, and so is every write whose packet was made and kept.          *)
SentOnce == S2!SentOnce
FlushLast == S2!FlushLast
WriteEnds == S2!WriteEnds

(* CIA: the event is never later than an underflow, and the timers tick as    *)
(* CiaTicks says.                                                            *)
Asserted == Cia!Asserted
TimersTick == Cia!TimersTick

(* INTREQ: the CPU sees every change in time.                                *)
Seen == Irq!Seen
=============================================================================
