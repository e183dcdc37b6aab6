-------------------------------- MODULE Cia --------------------------------
(***************************************************************************)
(* The timers of a CIA as cia.c counts them: not at all, until something   *)
(* needs to know.  The counters stand for the time of the last CIA_update; *)
(* CIA_calctimers registers the event of the first underflow to come.  The *)
(* event is shared with the other CIA, whose writes and underflows make    *)
(* this one's counters catch up at any time.                               *)
(*                                                                         *)
(* Not modelled: timers that count the CNT pin (nothing drives it, they    *)
(* stand still), the serial register, the TOD clock, the ports, and the    *)
(* interrupt that ICR requests with what it has of its own: the mask, and  *)
(* the copy that a delayed RethinkICR makes for the CPU to read and clear. *)
(***************************************************************************)
EXTENDS Naturals

CONSTANTS
  Values, StartHi, StartCr,   \* see CiaTicks
  DIV10                       \* cycles of the chip set in an E clock

CiaAssumption ==
  /\ Values \subseteq Nat /\ \E highest \in Values : \A v \in Values : v <= highest
  /\ {StartHi, StartCr} \subseteq Nat /\ DIV10 \in Nat \ {0}

VARIABLES
  a, b, icr,   \* see CiaTicks, at the time oldcycles
  elapsed,     \* cycles since oldcycles
  div10,       \* how much of an E clock had passed then
  evtime       \* the event: cycles after oldcycles; 0 if it is not active

vars == <<a, b, icr, elapsed, div10, evtime>>

T == INSTANCE CiaTicks

Init == T!Init /\ elapsed = 0 /\ div10 = 0 /\ evtime = 0

\* compute_passed_time, CIA_update_check: a timer after cc E clocks, if none underflows.
After(tm, cc) ==
  IF ~T!Counting(tm) THEN tm
  ELSE IF cc > tm.start THEN [tm EXCEPT !.t = @ - (cc - tm.start), !.start = 0]
  ELSE [tm EXCEPT !.start = @ - cc]

Underflows(tm, cc) == T!Counting(tm) /\ cc > tm.start /\ tm.t + 1 = cc - tm.start

Ccount == elapsed + div10
Clocks == Ccount \div DIV10

\* Mutant: b does not see that a underflows.
Mut_Cascade(ta, tb) == FALSE
Cascade(ta, tb) == Underflows(ta, Clocks) /\ tb.run /\ tb.in = "ta"

\* CIA_update: the counters at this time, and what it notes in ICR.
Caught(tm) == IF Underflows(tm, Clocks) THEN T!Reload(tm) ELSE After(tm, Clocks)
CaughtA == [Caught(a) EXCEPT !.start = After(a, Clocks).start]
CaughtB ==
  IF Cascade(a, b) THEN T!Decrement(b)
  ELSE [Caught(b) EXCEPT !.start = After(b, Clocks).start]
Overflowed ==
  {x \in {"ta"} : Underflows(a, Clocks)}
    \cup {x \in {"tb"} : Underflows(b, Clocks) \/ (Cascade(a, b) /\ b.t = 0)}

\* The cycles until a timer underflows.
Due(tm, phase) == (DIV10 - phase) + DIV10 * (tm.t + tm.start)

\* Mutant: the event is that of the last underflow.
Mut_First(times) == CHOOSE t \in times : \A u \in times : t >= u
First(times) == CHOOSE t \in times : \A u \in times : t <= u

\* CIA_calctimers, with the timers as they are now.
Calctimers(ta, tb) ==
  LET phase == Ccount % DIV10
      times == {Due(tm, phase) : tm \in {x \in {ta, tb} : T!Counting(x)}}
  IN
    /\ a' = ta /\ b' = tb /\ div10' = phase /\ elapsed' = 0
    /\ evtime' = IF times = {} THEN 0 ELSE First(times)

-----------------------------------------------------------------------------
\* A cycle passes; it does not pass the event (EventSched).  Bound: while no timer
\* counts, only the part of an E clock that has passed is kept.
Cycle ==
  /\ evtime = 0 \/ elapsed < evtime
  /\ elapsed' = IF evtime = 0 THEN (elapsed + 1) % DIV10 ELSE elapsed + 1
  /\ UNCHANGED <<a, b, icr, div10, evtime>>

\* CIA_handler; also for an event of the other CIA or a write of its registers.
Handler ==
  /\ icr' = icr \cup Overflowed
  /\ Calctimers(CaughtA, CaughtB)

NoEvent == evtime = 0 \/ elapsed < evtime

\* WriteCIAA and WriteCIAB, registers 4 to 7, 14 and 15, at any time.
Write ==
  /\ NoEvent /\ icr' = icr \cup Overflowed
  /\ \/ \E ta \in T!Written(CaughtA, {"phi2"}) : Calctimers(ta, CaughtB)
     \/ \E tb \in T!Written(CaughtB, {"phi2", "ta"}) : Calctimers(CaughtA, tb)

\* ReadCIAA and ReadCIAB, register 13.
ReadICR == icr' = {} /\ UNCHANGED <<a, b, elapsed, div10, evtime>>

Next == Cycle \/ Handler \/ Write \/ ReadICR
Spec == Init /\ [][Next]_vars

-----------------------------------------------------------------------------
(* The assertions of compute_passed_time and CIA_update_check: the event is   *)
(* never later than an underflow, whoever changes which timer when.          *)
Asserted ==
  \A tm \in {a, b} : T!Counting(tm) /\ Clocks > tm.start => tm.t + 1 >= Clocks - tm.start

(* A timer read at any time (compute_passed_time) has counted every E clock,  *)
(* and every underflow, that of b by underflows of a included, is noted and  *)
(* reloads the timer in the E clock in which it is due.                      *)
SeenClocks == Clocks - IF NoEvent THEN 0 ELSE 1
Ticks == INSTANCE CiaTicks WITH a <- After(a, SeenClocks), b <- After(b, SeenClocks)
TimersTick == Ticks!Spec
=============================================================================
