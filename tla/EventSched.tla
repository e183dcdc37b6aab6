----------------------------- MODULE EventSched -----------------------------
(***************************************************************************)
(* The event scheduler the whole chipset emulation hangs on                *)
(* (include/events.h, include/events_jit.h and MISC_handler of custom.c).  *)
(*                                                                         *)
(* It is sequential but re-entrant: a handler may register events, which   *)
(* calls MISC_handler, which runs handlers.  The model keeps the C stack.  *)
(* What a handler does besides is left out: it may register up to Calls    *)
(* events, cancel the fixed one, set a timer, and return.                  *)
(***************************************************************************)
EXTENDS Integers, Sequences, FiniteSets

CONSTANTS
  W,          \* evt is an unsigned long: times are modulo W
  MaxT,       \* the longest delay an event is registered with
  MiscSlots,  \* how many slots of eventtab2 are shared (ev2_max - ev2_misc)
  NFuncs,     \* the handlers of shared slots; f registers only lower ones
  Hsync,      \* HSYNCTIME
  Pissoff,    \* pissoff_value * CYCLE_UNIT
  Calls       \* bound: the events one handler registers

ASSUME SchedAssumption ==
  /\ {W, MaxT, MiscSlots, NFuncs, Hsync} \subseteq Nat \ {0}
  /\ Pissoff \in Nat /\ Calls \in Nat
  /\ W > 2 * MaxT /\ W > 2 * Hsync

Times == 0 .. W - 1
Delays == 1 .. MaxT
Funcs == 1 .. NFuncs
Table == <<"cia", "misc", "hsync">>             \* eventtab; ev_cia stands for ev_audio too
Events == {"cia", "misc", "hsync"}
Fixed == 0                                      \* ev2_blitter, for the fixed slots
Misc == 1 .. MiscSlots                          \* ev2_misc .. ev2_max - 1
Slots == Fixed .. MiscSlots

VARIABLES
  currcycle, nextevent, pissoff,  \* the clock, its next stop, the unaccounted cycles
  eventtab, eventtab2,            \* the main table and the table of small events
  next,                           \* event2_newevent_xx's static: where its search starts
  dorecheck, recursive,           \* MISC_handler's statics
  left,                           \* do_cycles_slow's cycles_to_add
  stack                           \* the calls in progress, the innermost first

clockVars == <<currcycle, nextevent, pissoff, left>>
miscVars == <<dorecheck, recursive>>
vars == <<clockVars, eventtab, eventtab2, next, miscVars, stack>>

\* The fields of an inactive event are never read: the model clears them.
Off == [active |-> FALSE, evtime |-> 0]
Free == [active |-> FALSE, evtime |-> 0, handler |-> 0]

Plus(t, d) == (t + d) % W
Until(t) == (t - currcycle) % W                 \* t - currcycle, unsigned
NoTime == W                                     \* ~0L, later than everything

(* The C stack.  "body": a handler that may still make `calls` calls and     *)
(* register functions below `rank`; at its end ev_cia's sets its next time   *)
(* (`rearm`).                                                                *)
Cpu == [fn |-> "cpu"]
Body(r, again) == [fn |-> "body", rank |-> r, calls |-> Calls, rearm |-> again]
Scan(i, again, t) == [fn |-> "misc", i |-> i, called |-> FALSE, recheck |-> again, mintime |-> t]
Top == Head(stack)
Push(frame) == stack' = <<frame>> \o stack
Swap(frame) == stack' = <<frame>> \o Tail(stack)
Pop == stack' = Tail(stack)

\* events_schedule: the earliest active event of tab.
Earliest(tab) ==
  LET active == {Until(tab[e].evtime) : e \in {x \in Events : tab[x].active}}
  IN  IF active = {} THEN NoTime - 1 ELSE CHOOSE t \in active : \A u \in active : t <= u
Schedule(tab) == nextevent' = Plus(currcycle, Earliest(tab))

Init ==
  /\ currcycle = 0 /\ pissoff = 0 /\ left = 0
  /\ eventtab = [e \in Events |->
                   IF e = "hsync" THEN [active |-> TRUE, evtime |-> Plus(0, Hsync)] ELSE Off]
  /\ nextevent = Plus(0, Hsync)
  /\ eventtab2 = [i \in Slots |-> Free]
  /\ next = 1
  /\ dorecheck = FALSE /\ recursive = FALSE
  /\ stack = <<Cpu>>

-----------------------------------------------------------------------------
(* Code that registers events: the 68k's accesses to the chipset, or a       *)
(* handler.  callers is the stack without the frame of the call.             *)

MayCall(f) ==
  \/ Top.fn = "cpu"
  \/ Top.fn = "body" /\ Top.calls > 0 /\ f < Top.rank
AfterCall ==
  IF Top.fn = "cpu" THEN stack ELSE <<[Top EXCEPT !.calls = @ - 1]>> \o Tail(stack)

\* Entering MISC_handler: inside itself it only asks for another round.
EnterMisc(callers) ==
  IF recursive
    THEN /\ dorecheck' = TRUE
         /\ stack' = callers
         /\ UNCHANGED <<recursive, eventtab>>
    ELSE /\ recursive' = TRUE
         /\ eventtab' = [eventtab EXCEPT !["misc"] = Off]
         /\ stack' = <<Scan(Fixed, FALSE, NoTime)>> \o callers
         /\ UNCHANGED dorecheck

\* The last lines of event2_newevent_xx.
Place(i, et, f, callers) ==
  /\ eventtab2' = [eventtab2 EXCEPT ![i] = [active |-> TRUE, evtime |-> et, handler |-> f]]
  /\ EnterMisc(callers)

\* The order in which the search visits the shared slots.
Visit(k) == 1 + ((next - 1 + k) % MiscSlots)
Same(i, et, f) == eventtab2[i].active /\ eventtab2[i].evtime = et /\ eventtab2[i].handler = f
Suits(i, et, f) == ~eventtab2[i].active \/ Same(i, et, f)

\* Mutant: the search takes the slot it starts at.
Mut_Found(et, f) == IF \E i \in Misc : Suits(i, et, f) THEN next ELSE 0

\* The slot the search ends at, or 0: "out of event2's!".
Found(et, f) ==
  IF \E i \in Misc : Suits(i, et, f)
    THEN Visit(CHOOSE k \in 0 .. MiscSlots - 1 :
                 /\ Suits(Visit(k), et, f)
                 /\ \A j \in 0 .. k - 1 : ~Suits(Visit(j), et, f))
    ELSE 0

\* event2_newevent_xx (-1, t, data, f) that finds a free slot.
NewEvent(t, f) ==
  LET et == Plus(currcycle, t)
      i == Found(et, f)
  IN  /\ MayCall(f)
      /\ i # 0 /\ ~eventtab2[i].active
      /\ Place(i, et, f, AfterCall)
      /\ next' = i
      /\ UNCHANGED clockVars

\* The same when the slot found holds an event of that time and handler: it
\* runs on the spot and the new one takes its slot afterwards.
NewSameEvent(t, f) ==
  LET et == Plus(currcycle, t)
      i == Found(et, f)
  IN  /\ MayCall(f)
      /\ i # 0 /\ eventtab2[i].active
      /\ stack' = <<Body(f, FALSE), [fn |-> "place", i |-> i, et |-> et, f |-> f]>> \o AfterCall
      /\ UNCHANGED <<clockVars, eventtab, eventtab2, next, miscVars>>

NewSamePlaced ==
  /\ Top.fn = "place"
  /\ Place(Top.i, Top.et, Top.f, Tail(stack))
  /\ next' = Top.i
  /\ UNCHANGED clockVars

\* The same when every slot is taken: the event is dropped (on the 68k's own
\* account that changes nothing).
NewDropped(t, f) ==
  /\ MayCall(f) /\ Top.fn = "body"
  /\ Found(Plus(currcycle, t), f) = 0
  /\ stack' = AfterCall
  /\ UNCHANGED <<clockVars, eventtab, eventtab2, next, miscVars>>

\* event2_newevent on a slot of its own: an event still pending is replaced.
NewFixed(t) ==
  /\ MayCall(0)
  /\ Place(Fixed, Plus(currcycle, t), NFuncs + 1, AfterCall)
  /\ UNCHANGED <<clockVars, next>>

\* event2_remevent: ev_misc and nextevent stay as they are.
RemFixed ==
  /\ MayCall(0) /\ eventtab2[Fixed].active
  /\ eventtab2' = [eventtab2 EXCEPT ![Fixed] = Free]
  /\ stack' = AfterCall
  /\ UNCHANGED <<clockVars, eventtab, next, miscVars>>

\* CIA_calctimers and the audio functions: a new time for the timer, or none,
\* and events_schedule.  Of the handlers only those of the timers set one (Return);
\* that of a shared slot, or of hsync, which writes a register for the copper or the
\* blitter is left out: it is the same step one level further down the stack.
SetEvent ==
  \E entry \in {Off} \cup {[active |-> TRUE, evtime |-> Plus(currcycle, t)] : t \in Delays} :
    LET tab == [eventtab EXCEPT !["cia"] = entry]
    IN  eventtab' = tab /\ Schedule(tab)

SetTimer ==
  /\ Top.fn = "cpu"
  /\ SetEvent
  /\ UNCHANGED <<currcycle, pissoff, left, eventtab2, next, miscVars, stack>>

\* A handler returns; those of the timers have set their next time by then.
Return ==
  /\ Top.fn = "body"
  /\ Pop
  /\ IF Top.rearm
       THEN SetEvent
       ELSE UNCHANGED <<eventtab, nextevent>>
  /\ UNCHANGED <<currcycle, pissoff, left, eventtab2, next, miscVars>>

-----------------------------------------------------------------------------
(* MISC_handler                                                              *)

\* A slot that is free, or whose time is still to come.
MiscSkip ==
  /\ Top.fn = "misc" /\ ~Top.called /\ Top.i <= MiscSlots
  /\ LET s == eventtab2[Top.i]
         t == Until(s.evtime)
     IN  /\ s.active => t # 0
         /\ Swap([Top EXCEPT !.i = @ + 1,
                             !.mintime = IF s.active /\ t < @ THEN t ELSE @])
  /\ UNCHANGED <<clockVars, eventtab, eventtab2, next, miscVars>>

\* A slot that is due.
MiscRun ==
  /\ Top.fn = "misc" /\ ~Top.called /\ Top.i <= MiscSlots
  /\ eventtab2[Top.i].active /\ eventtab2[Top.i].evtime = currcycle
  /\ eventtab2' = [eventtab2 EXCEPT ![Top.i] = Free]
  /\ stack' = <<Body(eventtab2[Top.i].handler, FALSE), [Top EXCEPT !.called = TRUE]>> \o Tail(stack)
  /\ UNCHANGED <<clockVars, eventtab, next, miscVars>>

\* Mutant: only the slot itself is looked at again.
Mut_MiscRan ==
  /\ Top.fn = "misc" /\ Top.called
  /\ LET again == eventtab2[Top.i].active
     IN  /\ Swap([Top EXCEPT !.i = @ + 1, !.called = FALSE, !.recheck = @ \/ again])
         /\ dorecheck' = IF again THEN FALSE ELSE dorecheck
  /\ UNCHANGED <<clockVars, eventtab, eventtab2, next, recursive>>

MiscRan ==
  /\ Top.fn = "misc" /\ Top.called
  /\ LET again == dorecheck \/ eventtab2[Top.i].active
     IN  /\ Swap([Top EXCEPT !.i = @ + 1, !.called = FALSE, !.recheck = @ \/ again])
         /\ dorecheck' = IF again THEN FALSE ELSE dorecheck
  /\ UNCHANGED <<clockVars, eventtab, eventtab2, next, recursive>>

MiscAgain ==
  /\ Top.fn = "misc" /\ Top.i > MiscSlots /\ Top.recheck
  /\ Swap(Scan(Fixed, FALSE, NoTime))
  /\ UNCHANGED <<clockVars, eventtab, eventtab2, next, miscVars>>

\* Mutant: ev_misc is set, nextevent is not.
Mut_MiscEnd ==
  /\ Top.fn = "misc" /\ Top.i > MiscSlots /\ ~Top.recheck
  /\ IF Top.mintime # NoTime
       THEN eventtab' = [eventtab EXCEPT !["misc"] =
                           [active |-> TRUE, evtime |-> Plus(currcycle, Top.mintime)]]
       ELSE UNCHANGED eventtab
  /\ recursive' = FALSE
  /\ Pop
  /\ UNCHANGED <<clockVars, eventtab2, next, dorecheck>>

MiscEnd ==
  /\ Top.fn = "misc" /\ Top.i > MiscSlots /\ ~Top.recheck
  /\ IF Top.mintime # NoTime
       THEN LET tab == [eventtab EXCEPT !["misc"] =
                          [active |-> TRUE, evtime |-> Plus(currcycle, Top.mintime)]]
            IN  eventtab' = tab /\ Schedule(tab)
       ELSE UNCHANGED <<eventtab, nextevent>>
  /\ recursive' = FALSE
  /\ Pop
  /\ UNCHANGED <<currcycle, pissoff, left, eventtab2, next, dorecheck>>

-----------------------------------------------------------------------------
(* do_cycles_slow                                                            *)

\* The 68k has used n cycles.
DoCycles(n) ==
  /\ Top.fn = "cpu"
  /\ IF pissoff >= n
       THEN pissoff' = pissoff - n /\ UNCHANGED <<left, stack>>
       ELSE \/ /\ pissoff' = 0 /\ left' = n - pissoff
               /\ Push([fn |-> "cycles", i |-> 0])
            \* the last line of a frame, and the real time has not come yet
            \/ /\ Until(eventtab["hsync"].evtime) <= n - pissoff
               /\ pissoff' = Pissoff /\ UNCHANGED <<left, stack>>
  /\ UNCHANGED <<currcycle, nextevent, eventtab, eventtab2, next, miscVars>>

\* The head of the while loop: on to the next event.
Advance ==
  /\ Top.fn = "cycles" /\ Top.i = 0
  /\ Until(nextevent) <= left
  /\ left' = left - Until(nextevent)
  /\ currcycle' = nextevent
  /\ Swap([Top EXCEPT !.i = 1])
  /\ UNCHANGED <<nextevent, pissoff, eventtab, eventtab2, next, miscVars>>

\* Mutant: hsync_handler does not set its next time.
Mut_Dispatch ==
  /\ Top.fn = "cycles" /\ Top.i \in 1 .. Len(Table)
  /\ LET e == Table[Top.i]
         callers == <<[Top EXCEPT !.i = @ + 1]>> \o Tail(stack)
     IN  IF ~(eventtab[e].active /\ eventtab[e].evtime = currcycle)
           THEN stack' = callers /\ UNCHANGED <<eventtab, miscVars>>
         ELSE IF e = "misc"
           THEN EnterMisc(callers)
         ELSE /\ stack' = <<Body(NFuncs + 1, e = "cia")>> \o callers
              /\ UNCHANGED <<eventtab, miscVars>>
  /\ UNCHANGED <<clockVars, eventtab2, next>>

\* One round of the for loop over eventtab.
Dispatch ==
  /\ Top.fn = "cycles" /\ Top.i \in 1 .. Len(Table)
  /\ LET e == Table[Top.i]
         callers == <<[Top EXCEPT !.i = @ + 1]>> \o Tail(stack)
     IN  IF ~(eventtab[e].active /\ eventtab[e].evtime = currcycle)
           THEN stack' = callers /\ UNCHANGED <<eventtab, miscVars>>
         ELSE IF e = "misc"
           THEN EnterMisc(callers)
         ELSE /\ stack' = <<Body(NFuncs + 1, e = "cia")>> \o callers
              /\ eventtab' = IF e = "hsync"
                               THEN [eventtab EXCEPT ![e].evtime = Plus(currcycle, Hsync)]
                               ELSE eventtab
              /\ UNCHANGED miscVars
  /\ UNCHANGED <<clockVars, eventtab2, next>>

Dispatched ==
  /\ Top.fn = "cycles" /\ Top.i > Len(Table)
  /\ Schedule(eventtab)
  /\ Swap([Top EXCEPT !.i = 0])
  /\ UNCHANGED <<currcycle, pissoff, left, eventtab, eventtab2, next, miscVars>>

CyclesEnd ==
  /\ Top.fn = "cycles" /\ Top.i = 0
  /\ Until(nextevent) > left
  /\ currcycle' = Plus(currcycle, left)
  /\ left' = 0
  /\ Pop
  /\ UNCHANGED <<nextevent, pissoff, eventtab, eventtab2, next, miscVars>>

-----------------------------------------------------------------------------
Register ==
  \/ \E t \in Delays, f \in Funcs : NewEvent(t, f) \/ NewSameEvent(t, f) \/ NewDropped(t, f)
  \/ \E t \in Delays : NewFixed(t)
  \/ RemFixed
  \/ SetTimer

\* What runs without a choice of the 68k or of a handler's own code.
Machine ==
  \/ Return \/ NewSamePlaced
  \/ MiscSkip \/ MiscRun \/ MiscRan \/ MiscAgain \/ MiscEnd
  \/ Advance \/ Dispatch \/ Dispatched \/ CyclesEnd

Next == Register \/ Machine \/ \E n \in Delays : DoCycles(n)

Spec == Init /\ [][Next]_vars
FairSpec == Spec /\ WF_vars(Machine)

-----------------------------------------------------------------------------
(* The types, among them that the clock fits an evt.                         *)
TypeOK ==
  /\ currcycle \in Times /\ nextevent \in Times
  /\ pissoff \in 0 .. Pissoff /\ left \in 0 .. MaxT
  /\ eventtab \in [Events -> [active : BOOLEAN, evtime : Times]]
  /\ eventtab2 \in [Slots -> [active : BOOLEAN, evtime : Times, handler : 0 .. NFuncs + 1]]
  /\ next \in Misc
  /\ dorecheck \in BOOLEAN /\ recursive \in BOOLEAN

(* The clock never jumps over an active event, main or small: whatever the   *)
(* handlers registered, cancelled or rescheduled while the tables were being *)
(* walked, do_cycles_slow stops at each of them (nextevent, ev_misc and the  *)
(* recheck of MISC_handler are what this hangs on).                          *)
NothingSkipped ==
  [][LET step == Until(currcycle') IN
       /\ \A e \in Events : eventtab[e].active => step <= Until(eventtab[e].evtime)
       /\ \A i \in Slots : eventtab2[i].active => step <= Until(eventtab2[i].evtime)]_currcycle

(* When the 68k runs again every small event that was due has run, and       *)
(* nextevent is no later than the next one.                                  *)
SettledAtCpu ==
  Top.fn = "cpu" =>
    /\ ~dorecheck /\ ~recursive
    /\ \A i \in Slots : eventtab2[i].active => Until(eventtab2[i].evtime) >= Until(nextevent)

(* A pending event stays in its slot until its own time: no registration,    *)
(* however the calls nest between finding the slot and filling it, puts      *)
(* another event over it (event2_newevent_xx).                               *)
NothingLost ==
  [][\A i \in Misc : eventtab2[i].active =>
       \/ eventtab2'[i] = eventtab2[i]
       \/ eventtab2[i].evtime = currcycle]_eventtab2

(* Every call of do_cycles and of an event registration comes back to the    *)
(* 68k, however the handlers nest.                                           *)
ComesBack == Top.fn # "cpu" ~> Top.fn = "cpu"
=============================================================================
