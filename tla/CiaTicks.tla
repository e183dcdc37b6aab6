------------------------------ MODULE CiaTicks ------------------------------
(***************************************************************************)
(* What the two timers of a CIA are: counters that the E clock decrements, *)
(* one after the other, and what writing their registers does to them.     *)
(***************************************************************************)
EXTENDS Naturals

CONSTANTS
  Values,     \* what a latch can hold
  StartHi,    \* E clocks from the write of a latch's high byte to the first count (3)
  StartCr     \* from the write of a control register (2)

VARIABLES
  a, b,       \* the timers: counter t, latch, clocks until it starts, and of the control
              \* register run, oneshot and what it counts: "phi2", or underflows of "ta"
  icr         \* the timers that underflowed since ICR was read

vars == <<a, b, icr>>

\* After a reset (0xFFFF in the counter and in the latch).
Highest == CHOOSE v \in Values : \A u \in Values : u <= v
Stopped ==
  [t |-> Highest, latch |-> Highest, start |-> 0, run |-> FALSE, oneshot |-> FALSE, in |-> "phi2"]

Init == a = Stopped /\ b = Stopped /\ icr = {}

Counting(tm) == tm.run /\ tm.in = "phi2"

\* An underflow: the latch is loaded, and a one-shot timer stops.
Reload(tm) == [tm EXCEPT !.t = tm.latch, !.run = @ /\ ~tm.oneshot]
Decrement(tm) == IF tm.t = 0 THEN Reload(tm) ELSE [tm EXCEPT !.t = @ - 1]

\* Writes: a latch's low byte, its high byte, a control register.  Which byte of a
\* latch is which is left out: either write may change the whole.
LatchLo(tm, v) == [tm EXCEPT !.latch = v]
LatchHi(tm, v) ==
  [tm EXCEPT !.latch = v, !.t = IF ~tm.run \/ tm.oneshot THEN v ELSE @,
             !.run = @ \/ tm.oneshot, !.start = IF tm.oneshot THEN StartHi ELSE @]
Control(tm, run, oneshot, in, load) ==
  [tm EXCEPT !.run = run, !.oneshot = oneshot, !.in = in,
             !.start = IF run /\ ~tm.run THEN StartCr ELSE @,
             !.t = IF load THEN tm.latch ELSE @]

\* What a program may write, and what becomes of a timer.
Written(tm, ins) ==
  {LatchLo(tm, v) : v \in Values} \cup {LatchHi(tm, v) : v \in Values}
    \cup {Control(tm, run, oneshot, in, load) : run, oneshot, load \in BOOLEAN, in \in ins}

-----------------------------------------------------------------------------
Underflows(tm) == Counting(tm) /\ tm.start = 0 /\ tm.t = 0
Clocked(tm) ==
  IF ~Counting(tm) THEN tm
  ELSE IF tm.start > 0 THEN [tm EXCEPT !.start = @ - 1] ELSE Decrement(tm)

\* The E clock; an underflow of a is a count for b if b counts those.
Tick ==
  LET cascade == Underflows(a) /\ b.run /\ b.in = "ta"
      over == {x \in {"ta"} : Underflows(a)}
                \cup {x \in {"tb"} : Underflows(b) \/ (cascade /\ b.t = 0)}
  IN
    /\ a' = Clocked(a)
    /\ b' = IF cascade THEN Decrement(b) ELSE Clocked(b)
    /\ icr' = icr \cup over

Write ==
  /\ \/ a' \in Written(a, {"phi2"}) /\ b' = b
     \/ b' \in Written(b, {"phi2", "ta"}) /\ a' = a
  /\ UNCHANGED icr

ReadICR == icr' = {} /\ UNCHANGED <<a, b>>

Next == Tick \/ Write \/ ReadICR
Spec == Init /\ [][Next]_vars
=============================================================================
