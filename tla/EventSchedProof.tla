--------------------------- MODULE EventSchedProof ---------------------------
(***************************************************************************)
(* The event scheduler for every width of the clock, every number of slots *)
(* and handlers and every nesting of them: the clock stops at each event,  *)
(* a pending event is not overwritten, and when the 68k runs again no      *)
(* event that was due is left.                                             *)
(***************************************************************************)
EXTENDS EventSched, SequenceTheorems, WellFoundedInduction, TLAPS

Frames ==
  {Cpu}
    \cup [fn : {"body"}, rank : 0 .. NFuncs + 1, calls : 0 .. Calls, rearm : BOOLEAN]
    \cup [fn : {"place"}, i : Misc, et : Times, f : Funcs]
    \cup [fn : {"misc"}, i : 0 .. MiscSlots + 1, called : BOOLEAN, recheck : BOOLEAN,
          mintime : 0 .. W]
    \cup [fn : {"cycles"}, i : 0 .. 4]

(* A registration that waits to fill its slot has the very event there        *)
(* already, and its time has not come.                                       *)
PlaceOK(p) ==
  /\ eventtab2[p.i] = [active |-> TRUE, evtime |-> p.et, handler |-> p.f]
  /\ p.et # currcycle

(* What MISC_handler has walked over counts in mintime, or there will be      *)
(* another round; it is only asked for while a handler runs.                 *)
ScanOK(m) ==
  /\ m.called => m.i <= MiscSlots
  /\ ~m.called => ~dorecheck
  /\ \/ dorecheck \/ m.recheck
     \/ \A j \in Slots : j < m.i /\ eventtab2[j].active => m.mintime <= Until(eventtab2[j].evtime)

Good == {f \in Frames : (f.fn = "place" => PlaceOK(f)) /\ (f.fn = "misc" => ScanOK(f))}

(* The calls nest: the 68k at the bottom, do_cycles_slow only right above it, *)
(* and MISC_handler once, if at all, which waits for a handler unless it is   *)
(* the innermost call.                                                       *)
Nested(s, inMisc) ==
  /\ Len(s) >= 1
  /\ \A k \in 1 .. Len(s) :
       /\ s[k].fn = "cpu" <=> k = Len(s)
       /\ s[k].fn = "cycles" => k = Len(s) - 1
       /\ s[k].fn = "misc" /\ k > 1 => s[k].called
  /\ inMisc <=> \E k \in 1 .. Len(s) : s[k].fn = "misc"
  /\ \A j, k \in 1 .. Len(s) : s[j].fn = "misc" /\ s[k].fn = "misc" => j = k

(* nextevent is no later than the main events, ev_misc no later than the      *)
(* small ones, but for MISC_handler at work.                                 *)
MainOK == \A e \in Events : eventtab[e].active => Until(nextevent) <= Until(eventtab[e].evtime)
SmallOK ==
  \A i \in Slots : eventtab2[i].active =>
    eventtab["misc"].active /\ Until(eventtab["misc"].evtime) <= Until(eventtab2[i].evtime)

Quiet == ~recursive => SmallOK /\ ~dorecheck

IInv == TypeOK /\ stack \in Seq(Good) /\ Nested(stack, recursive) /\ MainOK /\ Quiet

-----------------------------------------------------------------------------
(* Arithmetic modulo n.                                                      *)

(* A time in range is itself, and one round more or less than it.            *)
LEMMA ModIs ==
  ASSUME NEW n \in Nat \ {0}, NEW x \in Int, x >= -n, x < 2 * n
  PROVE  /\ x % n \in 0 .. n - 1
         /\ x % n = IF x < 0 THEN x + n ELSE IF x < n THEN x ELSE x - n
<1>1. x % n \in 0 .. n - 1
  OBVIOUS
<1>2. x = n * (x \div n) + (x % n)
  OBVIOUS
<1>3. CASE x < 0
  <2>1. x \div n = -1
    BY <1>1, <1>2, <1>3
  <2> QED  BY <1>1, <1>2, <1>3, <2>1
<1>4. CASE x >= 0 /\ x < n
  <2>1. x \div n = 0
    BY <1>1, <1>2, <1>4
  <2> QED  BY <1>1, <1>2, <1>4, <2>1
<1>5. CASE x >= n
  <2>1. x \div n = 1
    BY <1>1, <1>2, <1>5
  <2> QED  BY <1>1, <1>2, <1>5, <2>1
<1> QED  BY <1>3, <1>4, <1>5

(* Sums and differences of times of the clock.                               *)
LEMMA PlusIs ==
  ASSUME NEW t \in Times, NEW d \in 0 .. W
  PROVE  Plus(t, d) \in Times /\ Plus(t, d) = IF t + d < W THEN t + d ELSE t + d - W
<1>1. PICK x \in Int : x = t + d
  BY DEF Times
<1>2. W \in Nat \ {0} /\ x >= -W /\ x < 2 * W /\ x >= 0
  BY <1>1, SchedAssumption DEF Times
<1>3. /\ x % W \in 0 .. W - 1
      /\ x % W = IF x < 0 THEN x + W ELSE IF x < W THEN x ELSE x - W
  BY <1>2, ModIs
<1> QED  BY <1>1, <1>2, <1>3 DEF Plus, Times

LEMMA UntilIs ==
  ASSUME NEW t \in Times, currcycle \in Times
  PROVE  /\ Until(t) \in Times
         /\ Until(t) = IF t >= currcycle THEN t - currcycle ELSE t - currcycle + W
<1>1. W \in Nat \ {0} /\ t - currcycle \in Int /\ t - currcycle >= -W /\ t - currcycle < 2 * W
  BY SchedAssumption DEF Times
<1>2. /\ (t - currcycle) % W \in 0 .. W - 1
      /\ (t - currcycle) % W = IF t - currcycle < 0 THEN t - currcycle + W
                               ELSE IF t - currcycle < W THEN t - currcycle
                               ELSE t - currcycle - W
  BY <1>1, ModIs
<1> QED  BY <1>1, <1>2, SchedAssumption DEF Until, Times

(* What was put d cycles ahead is d cycles ahead.                            *)
LEMMA UntilPlus ==
  ASSUME currcycle \in Times, NEW d \in Times
  PROVE  Until(Plus(currcycle, d)) = d /\ Plus(currcycle, d) \in Times
<1>1. d \in 0 .. W /\ W \in Nat
  BY SchedAssumption DEF Times
<1>2. /\ Plus(currcycle, d) \in Times
      /\ Plus(currcycle, d) = IF currcycle + d < W THEN currcycle + d ELSE currcycle + d - W
  BY <1>1, PlusIs
<1> DEFINE t == Plus(currcycle, d)
<1>3. Until(t) = IF t >= currcycle THEN t - currcycle ELSE t - currcycle + W
  BY <1>2, UntilIs
<1> QED  BY <1>1, <1>2, <1>3 DEF Times

(* Every set of numbers that is not empty has a smallest one.                *)
LEMMA Least ==
  ASSUME NEW T \in SUBSET Nat, T # {}
  PROVE  \E x \in T : \A y \in T : x <= y
<1>1. PICK x \in T : \A y \in T : ~(<<y, x>> \in OpToRel(<, Nat))
  BY NatLessThanWellFounded, WFMin
<1>2. ASSUME NEW y \in T PROVE x <= y
  <2>1. ~(<<y, x>> \in {ss \in Nat \X Nat : ss[1] < ss[2]})
    BY <1>1 DEF OpToRel
  <2>2. <<y, x>> \in Nat \X Nat /\ <<y, x>>[1] = y /\ <<y, x>>[2] = x
    OBVIOUS
  <2> QED  BY <2>1, <2>2
<1> QED  BY <1>2

(* events_schedule finds the earliest of the active events.                  *)
LEMMA EarliestIs ==
  ASSUME NEW tab \in [Events -> [active : BOOLEAN, evtime : Times]], currcycle \in Times
  PROVE  /\ Earliest(tab) \in Times
         /\ \A e \in Events : tab[e].active => Earliest(tab) <= Until(tab[e].evtime)
<1> DEFINE active == {Until(tab[e].evtime) : e \in {x \in Events : tab[x].active}}
<1>1. active \in SUBSET Times /\ Times \subseteq Nat
  BY UntilIs DEF Times
<1>2. CASE active = {}
  BY <1>2, SchedAssumption DEF Earliest, NoTime, Times
<1>3. CASE active # {}
  <2>1. \E x \in active : \A y \in active : x <= y
    BY <1>1, <1>3, Least
  <2>2. Earliest(tab) = CHOOSE t \in active : \A u \in active : t <= u
    BY <1>3 DEF Earliest
  <2>3. Earliest(tab) \in active /\ \A u \in active : Earliest(tab) <= u
    BY <2>1, <2>2
  <2> QED  BY <2>3, <1>1
<1> QED  BY <1>2, <1>3

(* The search of event2_newevent_xx visits every shared slot,                *)
LEMMA VisitAll ==
  ASSUME next \in Misc
  PROVE  /\ \A k \in 0 .. MiscSlots - 1 : Visit(k) \in Misc
         /\ \A i \in Misc : \E k \in 0 .. MiscSlots - 1 : Visit(k) = i
<1>1. ASSUME NEW k \in 0 .. MiscSlots - 1 PROVE Visit(k) \in Misc
  BY SchedAssumption, ModIs DEF Visit, Misc
<1>2. ASSUME NEW i \in Misc PROVE \E k \in 0 .. MiscSlots - 1 : Visit(k) = i
  <2> MiscSlots \in Nat \ {0} /\ i - 1 \in Int /\ i - 1 + MiscSlots \in Int
    BY SchedAssumption DEF Misc
  <2>3. (i - 1) % MiscSlots = i - 1 /\ (i - 1 + MiscSlots) % MiscSlots = i - 1
    <3>1. PICK x \in Int, y \in Int : x = i - 1 /\ y = i - 1 + MiscSlots
      OBVIOUS
    <3>2. x >= 0 /\ x < MiscSlots /\ y >= MiscSlots /\ y < 2 * MiscSlots /\ x >= -MiscSlots
          /\ y >= -MiscSlots /\ x < 2 * MiscSlots
      BY <3>1 DEF Misc
    <3>3. x % MiscSlots = IF x < 0 THEN x + MiscSlots ELSE IF x < MiscSlots THEN x
                          ELSE x - MiscSlots
      BY <3>2, ModIs
    <3>4. y % MiscSlots = IF y < 0 THEN y + MiscSlots ELSE IF y < MiscSlots THEN y
                          ELSE y - MiscSlots
      BY <3>2, ModIs
    <3> QED  BY <3>1, <3>2, <3>3, <3>4
  <2>1. CASE i >= next
    <3>1. i - next \in 0 .. MiscSlots - 1 /\ next - 1 + (i - next) = i - 1
      BY <2>1 DEF Misc
    <3>2. Visit(i - next) = i
      BY <3>1, <2>3 DEF Visit, Misc
    <3> QED  BY <3>1, <3>2
  <2>2. CASE i < next
    <3>1. /\ i - next + MiscSlots \in 0 .. MiscSlots - 1
          /\ next - 1 + (i - next + MiscSlots) = i - 1 + MiscSlots
      BY <2>2 DEF Misc
    <3>2. Visit(i - next + MiscSlots) = i
      BY <3>1, <2>3 DEF Visit, Misc
    <3> QED  BY <3>1, <3>2
  <2> QED  BY <2>1, <2>2 DEF Misc
<1> QED  BY <1>1, <1>2

(* and ends at one that is free or holds that very event.                    *)
LEMMA FoundSuits ==
  ASSUME next \in Misc, NEW et, NEW f, Found(et, f) # 0
  PROVE  Found(et, f) \in Misc /\ Suits(Found(et, f), et, f)
<1> DEFINE T == {k \in 0 .. MiscSlots - 1 : Suits(Visit(k), et, f)}
           First(k) == /\ Suits(Visit(k), et, f)
                       /\ \A j \in 0 .. k - 1 : ~Suits(Visit(j), et, f)
<1>1. PICK i \in Misc : Suits(i, et, f)
  BY DEF Found
<1>2. T # {} /\ T \in SUBSET Nat
  BY <1>1, VisitAll
<1>3. PICK x \in T : \A y \in T : x <= y
  BY <1>2, Least
<1>4. x \in 0 .. MiscSlots - 1 /\ First(x)
  BY <1>3, SchedAssumption
<1>5. Found(et, f) = Visit(CHOOSE k \in 0 .. MiscSlots - 1 : First(k))
  BY <1>1 DEF Found
<1> DEFINE c == CHOOSE k \in 0 .. MiscSlots - 1 : First(k)
<1>6. c \in 0 .. MiscSlots - 1 /\ First(c)
  BY <1>4
<1> QED  BY <1>5, <1>6, VisitAll

-----------------------------------------------------------------------------
(* The C stack.                                                              *)

Bodies == [fn : {"body"}, rank : 0 .. NFuncs + 1, calls : 0 .. Calls, rearm : BOOLEAN]
Places == [fn : {"place"}, i : Misc, et : Times, f : Funcs]
Scans == [fn : {"misc"}, i : 0 .. MiscSlots + 1, called : BOOLEAN, recheck : BOOLEAN,
          mintime : 0 .. W]
Rounds == [fn : {"cycles"}, i : 0 .. 4]

(* What fn says of the other fields.                                         *)
LEMMA FrameIs ==
  ASSUME NEW f \in Frames
  PROVE  /\ f.fn \in {"cpu", "body", "place", "misc", "cycles"}
         /\ f.fn = "cpu" => f = Cpu
         /\ f.fn = "body" => f \in Bodies
         /\ f.fn = "place" => f \in Places
         /\ f.fn = "misc" => f \in Scans
         /\ f.fn = "cycles" => f \in Rounds
BY DEF Frames, Bodies, Places, Scans, Rounds, Cpu

(* A handler waits: the innermost call may be made.                          *)
Calling(s) == s[1].fn = "misc" => s[1].called

LEMMA PushIs ==
  ASSUME NEW S, NEW s \in Seq(S), NEW f \in S
  PROVE  /\ <<f>> \o s \in Seq(S) /\ Len(<<f>> \o s) = Len(s) + 1
         /\ (<<f>> \o s)[1] = f
         /\ \A k \in 1 .. Len(s) : (<<f>> \o s)[k + 1] = s[k]
         /\ \A k \in 2 .. Len(s) + 1 : (<<f>> \o s)[k] = s[k - 1]
OBVIOUS

LEMMA PopIs ==
  ASSUME NEW S, NEW s \in Seq(S), Len(s) >= 1
  PROVE  /\ Tail(s) \in Seq(S) /\ Len(Tail(s)) = Len(s) - 1
         /\ \A k \in 1 .. Len(s) - 1 : Tail(s)[k] = s[k + 1]
         /\ Head(s) = s[1] /\ Head(s) \in S
OBVIOUS

(* Returning from a call.                                                    *)
LEMMA NestedPop ==
  ASSUME NEW S, NEW s \in Seq(S), NEW r \in BOOLEAN, Nested(s, r), s[1].fn # "cpu"
  PROVE  /\ Tail(s) \in Seq(S)
         /\ Nested(Tail(s), r /\ s[1].fn # "misc")
         /\ Calling(Tail(s))
         /\ s[1].fn = "misc" => r
         /\ s[1].fn = "cycles" => ~r /\ Tail(s)[1].fn = "cpu"
<1> DEFINE t == Tail(s)
<1>1. Len(s) >= 2 /\ t \in Seq(S) /\ Len(t) = Len(s) - 1 /\ Len(s) \in Nat
      /\ \A k \in 1 .. Len(t) : t[k] = s[k + 1] /\ k + 1 \in 1 .. Len(s)
  BY PopIs DEF Nested
<1> HIDE DEF t
<1>2. \A k \in 1 .. Len(t) :
       /\ t[k].fn = "cpu" <=> k = Len(t)
       /\ t[k].fn = "cycles" => k = Len(t) - 1
       /\ t[k].fn = "misc" => t[k].called
  <2> SUFFICES ASSUME NEW k \in 1 .. Len(t)
               PROVE  /\ t[k].fn = "cpu" <=> k = Len(t)
                      /\ t[k].fn = "cycles" => k = Len(t) - 1
                      /\ t[k].fn = "misc" => t[k].called
    OBVIOUS
  <2>1. t[k] = s[k + 1] /\ k + 1 \in 1 .. Len(s)
    BY <1>1
  <2>2. /\ s[k + 1].fn = "cpu" <=> k + 1 = Len(s)
        /\ s[k + 1].fn = "cycles" => k + 1 = Len(s) - 1
        /\ s[k + 1].fn = "misc" /\ k + 1 > 1 => s[k + 1].called
    BY <2>1 DEF Nested
  <2> QED  BY <2>1, <2>2, <1>1
<1>3. \A k \in 1 .. Len(s) : k = 1 \/ (k - 1 \in 1 .. Len(t) /\ s[k] = t[k - 1])
  BY <1>1
<1>4. s[1].fn = "misc" => ~ \E k \in 1 .. Len(t) : t[k].fn = "misc"
  <2> SUFFICES ASSUME s[1].fn = "misc", NEW k \in 1 .. Len(t), t[k].fn = "misc" PROVE FALSE
    OBVIOUS
  <2>1. s[k + 1].fn = "misc" /\ k + 1 \in 1 .. Len(s) /\ 1 \in 1 .. Len(s) /\ k + 1 # 1
    BY <1>1
  <2> QED  BY <2>1 DEF Nested
<1>5. s[1].fn # "misc" => (r <=> \E k \in 1 .. Len(t) : t[k].fn = "misc")
  <2>1. (\E k \in 1 .. Len(s) : s[k].fn = "misc") => s[1].fn = "misc" \/ \E k \in 1 .. Len(t) : t[k].fn = "misc"
    BY <1>3
  <2>2. (\E k \in 1 .. Len(t) : t[k].fn = "misc") => \E k \in 1 .. Len(s) : s[k].fn = "misc"
    BY <1>1
  <2>3. r <=> \E k \in 1 .. Len(s) : s[k].fn = "misc"
    BY DEF Nested
  <2> QED  BY <2>1, <2>2, <2>3
<1>6. \A j, k \in 1 .. Len(t) : t[j].fn = "misc" /\ t[k].fn = "misc" => j = k
  <2> SUFFICES ASSUME NEW j \in 1 .. Len(t), NEW k \in 1 .. Len(t), t[j].fn = "misc", t[k].fn = "misc"
               PROVE j = k
    OBVIOUS
  <2>1. s[j + 1].fn = "misc" /\ s[k + 1].fn = "misc" /\ j + 1 \in 1 .. Len(s) /\ k + 1 \in 1 .. Len(s)
    BY <1>1
  <2>2. j + 1 = k + 1
    BY <2>1 DEF Nested
  <2> QED  BY <2>2
<1>7. Nested(t, r /\ s[1].fn # "misc")
  BY <1>1, <1>2, <1>4, <1>5, <1>6 DEF Nested
<1>8. Calling(t)
  BY <1>1, <1>2 DEF Calling
<1>9. s[1].fn = "misc" => r
  BY <1>1 DEF Nested
<1>10. s[1].fn = "cycles" => ~r /\ t[1].fn = "cpu"
  <2> SUFFICES ASSUME s[1].fn = "cycles" PROVE ~r /\ t[1].fn = "cpu"
    OBVIOUS
  <2>1. Len(t) = 1
    BY <1>1 DEF Nested
  <2>2. t[1].fn = "cpu"
    BY <1>2, <2>1
  <2> QED  BY <1>5, <2>1, <2>2
<1> QED  BY <1>1, <1>7, <1>8, <1>9, <1>10 DEF t

(* Calling a handler, or MISC_handler, or do_cycles_slow from the 68k.       *)
LEMMA NestedPush ==
  ASSUME NEW S, NEW s \in Seq(S), NEW r \in BOOLEAN, NEW f \in S, Nested(s, r),
         NEW q \in BOOLEAN,
         \/ f.fn \in {"body", "place"} /\ Calling(s) /\ (q <=> r)
         \/ f.fn = "misc" /\ ~r /\ q
         \/ f.fn = "cycles" /\ s[1].fn = "cpu" /\ (q <=> r)
  PROVE  <<f>> \o s \in Seq(S) /\ Nested(<<f>> \o s, q) /\ (<<f>> \o s)[1] = f
<1> DEFINE t == <<f>> \o s
<1>1. /\ Len(s) >= 1 /\ Len(s) \in Nat /\ t \in Seq(S) /\ Len(t) = Len(s) + 1 /\ t[1] = f
      /\ \A k \in 1 .. Len(s) : t[k + 1] = s[k] /\ k + 1 \in 1 .. Len(t)
      /\ \A k \in 1 .. Len(t) : k = 1 \/ (k - 1 \in 1 .. Len(s) /\ t[k] = s[k - 1])
  BY PushIs DEF Nested
<1> HIDE DEF t
<1>2. s[1].fn = "cpu" => Len(s) = 1
  <2>1. 1 \in 1 .. Len(s)
    BY <1>1
  <2> QED  BY <2>1 DEF Nested
<1>3. ASSUME NEW k \in 1 .. Len(t)
      PROVE  /\ t[k].fn = "cpu" <=> k = Len(t)
             /\ t[k].fn = "cycles" => k = Len(t) - 1
             /\ t[k].fn = "misc" /\ k > 1 => t[k].called
  <2>1. CASE k = 1
    BY <2>1, <1>1, <1>2
  <2>2. CASE k # 1
    <3>1. k - 1 \in 1 .. Len(s) /\ t[k] = s[k - 1]
      BY <1>1, <2>2
    <3>2. /\ t[k].fn = "cpu" <=> k - 1 = Len(s)
          /\ t[k].fn = "cycles" => k - 1 = Len(s) - 1
          /\ t[k].fn = "misc" /\ k - 1 > 1 => t[k].called
      BY <3>1 DEF Nested
    <3>3. t[k].fn = "misc" /\ k - 1 = 1 => t[k].called
      <4> SUFFICES ASSUME t[k].fn = "misc", k - 1 = 1 PROVE t[k].called
        OBVIOUS
      <4>1. s[1].fn = "misc"
        BY <3>1
      <4>2. r
        BY <4>1, <1>1 DEF Nested
      <4>3. Calling(s)
        BY <4>1, <4>2
      <4> QED  BY <3>1, <4>1, <4>3 DEF Calling
    <3> QED  BY <3>1, <3>2, <3>3, <1>1, <2>2
  <2> QED  BY <2>1, <2>2
<1>4. (\E k \in 1 .. Len(t) : t[k].fn = "misc") <=> f.fn = "misc" \/ \E k \in 1 .. Len(s) : s[k].fn = "misc"
  <2>1. 1 \in 1 .. Len(t)
    BY <1>1
  <2> QED  BY <1>1, <2>1
<1>5. q <=> \E k \in 1 .. Len(t) : t[k].fn = "misc"
  BY <1>4 DEF Nested
<1>6. ASSUME NEW j \in 1 .. Len(t), NEW k \in 1 .. Len(t), t[j].fn = "misc", t[k].fn = "misc"
      PROVE  j = k
  <2>1. CASE f.fn = "misc"
    <3>1. ~ \E x \in 1 .. Len(s) : s[x].fn = "misc"
      BY <2>1 DEF Nested
    <3>2. ASSUME NEW x \in 1 .. Len(t), t[x].fn = "misc", x # 1 PROVE FALSE
      <4>1. x - 1 \in 1 .. Len(s) /\ t[x] = s[x - 1]
        BY <1>1, <3>2
      <4> QED  BY <3>1, <3>2, <4>1
    <3>3. j = 1
      BY <1>6, <3>2
    <3>4. k = 1
      BY <1>6, <3>2
    <3> QED  BY <3>3, <3>4
  <2>2. CASE f.fn # "misc"
    <3>1. j # 1 /\ k # 1
      BY <2>2, <1>1, <1>6
    <3>2. j - 1 \in 1 .. Len(s) /\ k - 1 \in 1 .. Len(s) /\ s[j - 1].fn = "misc" /\ s[k - 1].fn = "misc"
      BY <3>1, <1>1, <1>6
    <3>3. j - 1 = k - 1
      BY <3>2 DEF Nested
    <3> QED  BY <3>3
  <2> QED  BY <2>1, <2>2
<1>7. Nested(t, q)
  BY <1>1, <1>3, <1>5, <1>6 DEF Nested
<1> QED  BY <1>1, <1>7 DEF t

LEMMA PushBody ==
  ASSUME NEW S, NEW s \in Seq(S), NEW r \in BOOLEAN, NEW f \in S, Nested(s, r), Calling(s),
         f.fn \in {"body", "place"}
  PROVE  <<f>> \o s \in Seq(S) /\ Nested(<<f>> \o s, r) /\ (<<f>> \o s)[1] = f
BY NestedPush

LEMMA PushScan ==
  ASSUME NEW S, NEW s \in Seq(S), NEW f \in S, Nested(s, FALSE), f.fn = "misc"
  PROVE  <<f>> \o s \in Seq(S) /\ Nested(<<f>> \o s, TRUE) /\ (<<f>> \o s)[1] = f
BY ZenonT(30), NestedPush

LEMMA PushRound ==
  ASSUME NEW S, NEW s \in Seq(S), NEW f \in S, Nested(s, FALSE), f.fn = "cycles",
         s[1].fn = "cpu"
  PROVE  <<f>> \o s \in Seq(S) /\ Nested(<<f>> \o s, FALSE) /\ (<<f>> \o s)[1] = f
BY NestedPush

-----------------------------------------------------------------------------
(* The state below the innermost call.                                       *)

LEMMA TopIs ==
  ASSUME IInv
  PROVE  /\ Top = stack[1] /\ Top \in Good /\ Top \in Frames /\ recursive \in BOOLEAN
         /\ Top.fn = "misc" => Top \in Scans /\ ScanOK(Top) /\ recursive
         /\ Top.fn = "body" => Top \in Bodies
         /\ Top.fn = "place" => Top \in Places /\ PlaceOK(Top)
         /\ Top.fn = "cycles" => Top \in Rounds /\ ~recursive
         /\ Top.fn = "cpu" => Len(stack) = 1 /\ ~recursive /\ Top = Cpu
         /\ Top.fn # "cpu" => /\ Tail(stack) \in Seq(Good) /\ Calling(Tail(stack))
                              /\ Nested(Tail(stack), recursive /\ Top.fn # "misc")
                              /\ Top.fn = "cycles" => Tail(stack)[1].fn = "cpu"
<1>1. stack \in Seq(Good) /\ Len(stack) >= 1 /\ Len(stack) \in Nat /\ recursive \in BOOLEAN
  BY DEF IInv, Nested, TypeOK
<1>2. Top = stack[1] /\ Top \in Good /\ 1 \in 1 .. Len(stack)
  BY <1>1, PopIs DEF Top
<1>3. Top \in Frames
  BY <1>2 DEF Good
<1>4. Top.fn = "cpu" => Len(stack) = 1 /\ ~recursive
  <2> SUFFICES ASSUME Top.fn = "cpu" PROVE Len(stack) = 1 /\ ~recursive
    OBVIOUS
  <2>1. Nested(stack, recursive)
    BY DEF IInv
  <2>2. Len(stack) = 1
    BY <1>2, <2>1 DEF Nested
  <2>3. \A k \in 1 .. Len(stack) : stack[k] = Top
    BY <2>2, <1>2
  <2>4. recursive <=> \E k \in 1 .. Len(stack) : stack[k].fn = "misc"
    BY <2>1 DEF Nested
  <2> QED  BY <2>2, <2>3, <2>4
<1>5. Top.fn # "cpu" =>
         /\ Tail(stack) \in Seq(Good)
         /\ Nested(Tail(stack), recursive /\ Top.fn # "misc")
         /\ Calling(Tail(stack))
         /\ Top.fn = "misc" => recursive
         /\ Top.fn = "cycles" => ~recursive /\ Tail(stack)[1].fn = "cpu"
  <2>1. Nested(stack, recursive)
    BY DEF IInv
  <2> QED  BY <1>1, <1>2, <2>1, NestedPop
<1> QED  BY <1>2, <1>3, <1>1, <1>4, <1>5, FrameIs DEF Good

(* A call that registers or cancels an event returns to where it came from.  *)
LEMMA AfterCallIs ==
  ASSUME IInv, NEW f, MayCall(f)
  PROVE  AfterCall \in Seq(Good) /\ Nested(AfterCall, recursive) /\ Calling(AfterCall)
<1>1. CASE Top.fn = "cpu"
  BY <1>1, TopIs DEF AfterCall, Calling, IInv
<1>2. CASE Top.fn = "body" /\ Top.calls > 0
  <2> DEFINE b == [Top EXCEPT !.calls = @ - 1]
  <2>6. Top \in Bodies
    BY <1>2, TopIs
  <2>7. b = [fn |-> "body", rank |-> Top.rank, calls |-> Top.calls - 1, rearm |-> Top.rearm]
    BY <2>6 DEF Bodies
  <2>8. Top.calls - 1 \in 0 .. Calls
    BY <2>6, <1>2, SchedAssumption DEF Bodies
  <2>1. b \in Bodies /\ b.fn = "body"
    BY <2>6, <2>7, <2>8 DEF Bodies
  <2>2. b \in Good
    BY <2>1 DEF Good, Frames, Bodies
  <2>3. AfterCall = <<b>> \o Tail(stack)
    BY <1>2 DEF AfterCall
  <2>4. Tail(stack) \in Seq(Good) /\ Calling(Tail(stack)) /\ Nested(Tail(stack), recursive)
    BY <1>2, TopIs
  <2> HIDE DEF b
  <2>5. /\ <<b>> \o Tail(stack) \in Seq(Good) /\ Nested(<<b>> \o Tail(stack), recursive)
        /\ (<<b>> \o Tail(stack))[1] = b
    BY ZenonT(30), <2>1, <2>2, <2>4, TopIs, PushBody
  <2> QED  BY <2>1, <2>3, <2>5 DEF Calling
<1> QED  BY <1>1, <1>2 DEF MayCall

(* The frames depend on little of the state.                                 *)
LEMMA GoodSame ==
  ASSUME UNCHANGED <<eventtab2, currcycle, dorecheck>>
  PROVE  Good' = Good
BY DEF Good, PlaceOK, ScanOK, Until

LEMMA SeqMono ==
  ASSUME NEW S, NEW T, NEW s \in Seq(S), \A k \in 1 .. Len(s) : s[k] \in T
  PROVE  s \in Seq(T)
OBVIOUS

(* Entering MISC_handler after slots have been filled that were free.        *)
LEMMA EnterKeeps ==
  ASSUME IInv, NEW callers \in Seq(Good), Nested(callers, recursive), Calling(callers),
         UNCHANGED <<currcycle, nextevent>>,
         eventtab2' \in [Slots -> [active : BOOLEAN, evtime : Times, handler : 0 .. NFuncs + 1]],
         \A j \in Misc : eventtab2[j].active => eventtab2'[j] = eventtab2[j],
         EnterMisc(callers)
  PROVE  /\ stack' \in Seq(Good') /\ Nested(stack', recursive') /\ MainOK' /\ Quiet'
         /\ eventtab' \in [Events -> [active : BOOLEAN, evtime : Times]]
         /\ dorecheck' \in BOOLEAN /\ recursive' \in BOOLEAN
<1> USE DEF IInv
<1>1. ASSUME NEW p \in Places, PlaceOK(p) PROVE PlaceOK(p)'
  BY SMTT(30), <1>1, SchedAssumption DEF PlaceOK, Places
<1>2. MainOK' /\ eventtab' \in [Events -> [active : BOOLEAN, evtime : Times]]
  <2>1. eventtab \in [Events -> [active : BOOLEAN, evtime : Times]]
    BY DEF TypeOK
  <2>2. eventtab' = eventtab \/ eventtab' = [eventtab EXCEPT !["misc"] = Off]
    BY DEF EnterMisc
  <2>3. \A e \in Events : eventtab'[e] = eventtab[e] \/ eventtab'[e] = Off
    BY <2>1, <2>2 DEF Events
  <2>4. Off \in [active : BOOLEAN, evtime : Times] /\ ~Off.active
    BY SchedAssumption DEF Off, Times
  <2>5. eventtab' \in [Events -> [active : BOOLEAN, evtime : Times]]
    BY <2>1, <2>2, <2>4 DEF Events
  <2>6. MainOK'
    BY <2>3, <2>4 DEF MainOK, Until
  <2> QED  BY <2>5, <2>6
<1>3. CASE recursive
  <2>1. dorecheck' = TRUE /\ stack' = callers /\ recursive' = recursive
    BY <1>3 DEF EnterMisc
  <2>2. ASSUME NEW k \in 1 .. Len(callers) PROVE callers[k] \in Good'
    <3>1. callers[k] \in Good /\ callers[k] \in Frames
      BY DEF Good
    <3>2. callers[k].fn = "place" => PlaceOK(callers[k])'
      BY <3>1, <1>1, FrameIs DEF Good
    <3>3. callers[k].fn = "misc" => callers[k].called
      BY DEF Nested, Calling
    <3>4. callers[k].fn = "misc" => ScanOK(callers[k])'
      BY <3>1, <3>3, <2>1 DEF Good, ScanOK
    <3> QED  BY <3>1, <3>2, <3>4 DEF Good
  <2>3. stack' \in Seq(Good')
    BY <2>1, <2>2, SeqMono
  <2> QED  BY <1>2, <1>3, <2>1, <2>3 DEF Quiet
<1>4. CASE ~recursive
  <2>0. PICK m : m = Scan(Fixed, FALSE, NoTime)
    OBVIOUS
  <2>1. /\ recursive' = TRUE /\ stack' = <<m>> \o callers /\ dorecheck' = dorecheck /\ ~dorecheck
        /\ dorecheck \in BOOLEAN
    BY <1>4, <2>0 DEF EnterMisc, Quiet, TypeOK
  <2>2. m \in Frames /\ m.fn = "misc" /\ ~m.called /\ m.i = 0
    BY <2>0, SchedAssumption DEF Scan, Frames, Fixed, NoTime
  <2>3. ScanOK(m)'
    BY <2>1, <2>2 DEF ScanOK, Slots, Fixed
  <2>4. m \in Good'
    BY <2>2, <2>3 DEF Good
  <2>5. ASSUME NEW k \in 1 .. Len(callers) PROVE callers[k] \in Good'
    <3>1. callers[k] \in Good /\ callers[k] \in Frames
      BY DEF Good
    <3>2. callers[k].fn = "place" => PlaceOK(callers[k])'
      BY <3>1, <1>1, FrameIs DEF Good
    <3>3. callers[k].fn # "misc"
      BY <1>4 DEF Nested
    <3> QED  BY <3>1, <3>2, <3>3 DEF Good
  <2>6. callers \in Seq(Good')
    BY <2>5, SeqMono
  <2>7. <<m>> \o callers \in Seq(Good') /\ Nested(<<m>> \o callers, TRUE)
    <3>1. recursive = FALSE
      BY <1>4, TopIs
    <3> QED  BY <3>1, <2>2, <2>4, <2>6, PushScan
  <2> QED  BY <1>2, <2>1, <2>7 DEF Quiet
<1> QED  BY <1>3, <1>4 DEF TypeOK

-----------------------------------------------------------------------------
(* The steps.                                                                *)

(* What a step may do to the events that are pending.                        *)
Kept ==
  \A i \in Misc : eventtab2[i].active =>
    eventtab2'[i] = eventtab2[i] \/ eventtab2[i].evtime = currcycle
NotPassed ==
  LET step == Until(currcycle') IN
    /\ \A e \in Events : eventtab[e].active => step <= Until(eventtab[e].evtime)
    /\ \A i \in Slots : eventtab2[i].active => step <= Until(eventtab2[i].evtime)

(* Filling a slot that is free, or holds the very event, or is not shared.   *)
LEMMA PlaceKeeps ==
  ASSUME IInv, NEW i \in Slots, NEW et \in Times, NEW f \in 0 .. NFuncs + 1,
         i = Fixed \/ ~eventtab2[i].active
           \/ eventtab2[i] = [active |-> TRUE, evtime |-> et, handler |-> f],
         NEW callers \in Seq(Good), Nested(callers, recursive), Calling(callers),
         Place(i, et, f, callers), UNCHANGED clockVars, next' \in Misc
  PROVE  IInv' /\ Kept
<1> DEFINE entry == [active |-> TRUE, evtime |-> et, handler |-> f]
<1>1. /\ eventtab2 \in [Slots -> [active : BOOLEAN, evtime : Times, handler : 0 .. NFuncs + 1]]
      /\ eventtab2' = [eventtab2 EXCEPT ![i] = entry]
      /\ EnterMisc(callers) /\ UNCHANGED <<currcycle, nextevent, pissoff, left>>
  BY DEF Place, IInv, TypeOK, clockVars
<1>2. eventtab2' \in [Slots -> [active : BOOLEAN, evtime : Times, handler : 0 .. NFuncs + 1]]
  BY <1>1
<1>3. \A j \in Misc : j \in Slots /\ j # Fixed
  BY DEF Misc, Slots, Fixed
<1>4. \A j \in Misc : eventtab2[j].active => eventtab2'[j] = eventtab2[j]
  BY <1>1, <1>3
<1>5. /\ stack' \in Seq(Good') /\ Nested(stack', recursive') /\ MainOK' /\ Quiet'
      /\ eventtab' \in [Events -> [active : BOOLEAN, evtime : Times]]
      /\ dorecheck' \in BOOLEAN /\ recursive' \in BOOLEAN
  BY <1>1, <1>2, <1>4, EnterKeeps
<1>6. TypeOK'
  BY <1>1, <1>2, <1>5 DEF IInv, TypeOK
<1> QED  BY <1>4, <1>5, <1>6 DEF IInv, Kept

LEMMA TimeAhead ==
  ASSUME IInv, NEW t \in Delays
  PROVE  /\ Plus(currcycle, t) \in Times /\ Plus(currcycle, t) # currcycle
         /\ Until(Plus(currcycle, t)) = t
<1>1. currcycle \in Times /\ t \in Times /\ t \in 0 .. W /\ t >= 1
  BY SchedAssumption DEF IInv, TypeOK, Times, Delays
<1>2. Until(Plus(currcycle, t)) = t /\ Plus(currcycle, t) \in Times
  BY <1>1, UntilPlus
<1>3. Until(currcycle) = 0
  BY <1>1, UntilIs DEF Times
<1> QED  BY <1>1, <1>2, <1>3

LEMMA NewEventKeeps ==
  ASSUME IInv, NEW t \in Delays, NEW f \in Funcs, NewEvent(t, f)
  PROVE  IInv' /\ Kept
<1>1. PICK et, i : et = Plus(currcycle, t) /\ i = Found(et, f)
  OBVIOUS
<1>2. /\ MayCall(f) /\ i # 0 /\ ~eventtab2[i].active /\ Place(i, et, f, AfterCall)
      /\ next' = i /\ UNCHANGED clockVars
  BY <1>1 DEF NewEvent
<1>3. i \in Misc
  BY <1>1, <1>2, FoundSuits DEF IInv, TypeOK
<1>4. et \in Times /\ i \in Slots /\ f \in 0 .. NFuncs + 1
  BY <1>1, <1>3, TimeAhead, SchedAssumption DEF Misc, Slots, Fixed, Funcs
<1> QED  BY <1>2, <1>3, <1>4, AfterCallIs, PlaceKeeps

LEMMA NewFixedKeeps ==
  ASSUME IInv, NEW t \in Delays, NewFixed(t)
  PROVE  IInv' /\ Kept
<1>1. /\ MayCall(0) /\ Place(Fixed, Plus(currcycle, t), NFuncs + 1, AfterCall)
      /\ UNCHANGED clockVars /\ next' = next
  BY DEF NewFixed
<1>2. Plus(currcycle, t) \in Times /\ Fixed \in Slots /\ NFuncs + 1 \in 0 .. NFuncs + 1
  BY TimeAhead, SchedAssumption DEF Slots, Fixed
<1>3. next' \in Misc
  BY <1>1 DEF IInv, TypeOK
<1> QED  BY <1>1, <1>2, <1>3, AfterCallIs, PlaceKeeps

LEMMA NewSamePlacedKeeps ==
  ASSUME IInv, NewSamePlaced
  PROVE  IInv' /\ Kept
<1>1. PICK p \in Places : p = Top /\ PlaceOK(p)
  BY TopIs DEF NewSamePlaced
<1>2. /\ Place(p.i, p.et, p.f, Tail(stack)) /\ next' = p.i /\ UNCHANGED clockVars
      /\ Top.fn = "place"
  BY <1>1 DEF NewSamePlaced
<1>3. p.i \in Misc /\ p.i \in Slots /\ p.et \in Times /\ p.f \in 0 .. NFuncs + 1
  BY SchedAssumption DEF Places, Misc, Slots, Fixed, Funcs
<1>4. Tail(stack) \in Seq(Good) /\ Nested(Tail(stack), recursive) /\ Calling(Tail(stack))
  BY <1>2, TopIs
<1> QED  BY <1>1, <1>2, <1>3, <1>4, PlaceKeeps DEF PlaceOK

(* Steps that only change the stack and, at most, main events and the clock.  *)
LEMMA StackKeeps ==
  ASSUME IInv, UNCHANGED <<clockVars, eventtab, eventtab2, next, miscVars>>,
         stack' \in Seq(Good), Nested(stack', recursive)
  PROVE  IInv' /\ Kept
<1>1. Good' = Good
  BY GoodSame DEF clockVars, miscVars
<1>2. TypeOK' /\ MainOK' /\ Quiet'
  BY DEF IInv, TypeOK, MainOK, Quiet, SmallOK, Until, clockVars, miscVars
<1> QED  BY <1>1, <1>2 DEF IInv, Kept, miscVars

LEMMA NewDroppedKeeps ==
  ASSUME IInv, NEW t \in Delays, NEW f \in Funcs, NewDropped(t, f)
  PROVE  IInv' /\ Kept
BY AfterCallIs, StackKeeps DEF NewDropped

LEMMA NewSameEventKeeps ==
  ASSUME IInv, NEW t \in Delays, NEW f \in Funcs, NewSameEvent(t, f)
  PROVE  IInv' /\ Kept
<1>1. PICK et, i : et = Plus(currcycle, t) /\ i = Found(et, f)
  OBVIOUS
<1>2. PICK p, b : p = [fn |-> "place", i |-> i, et |-> et, f |-> f] /\ b = Body(f, FALSE)
  OBVIOUS
<1>3. /\ MayCall(f) /\ i # 0 /\ eventtab2[i].active /\ stack' = <<b, p>> \o AfterCall
      /\ UNCHANGED <<clockVars, eventtab, eventtab2, next, miscVars>>
  BY <1>1, <1>2 DEF NewSameEvent
<1>4. i \in Misc /\ i \in Slots /\ Suits(i, et, f) /\ et \in Times /\ et # currcycle
  BY <1>1, <1>3, FoundSuits, TimeAhead DEF IInv, TypeOK, Misc, Slots, Fixed
<1>5. eventtab2[i] = [active |-> TRUE, evtime |-> et, handler |-> f]
  <2>1. eventtab2[i] \in [active : BOOLEAN, evtime : Times, handler : 0 .. NFuncs + 1]
    BY <1>4 DEF IInv, TypeOK
  <2>2. eventtab2[i].active = TRUE /\ eventtab2[i].evtime = et /\ eventtab2[i].handler = f
    BY <1>3, <1>4, <2>1 DEF Suits, Same
  <2> QED  BY <2>1, <2>2
<1>6. p \in Good /\ p.fn = "place"
  BY <1>2, <1>4, <1>5 DEF Good, Frames, PlaceOK
<1>7. b \in Good /\ b.fn = "body"
  BY <1>2, SchedAssumption DEF Good, Frames, Body, Funcs
<1>8. AfterCall \in Seq(Good) /\ Nested(AfterCall, recursive) /\ Calling(AfterCall)
  BY <1>3, AfterCallIs
<1>9. /\ <<p>> \o AfterCall \in Seq(Good) /\ Nested(<<p>> \o AfterCall, recursive)
      /\ Calling(<<p>> \o AfterCall)
  BY <1>6, <1>8, PushBody, TopIs DEF Calling
<1>10. <<b, p>> \o AfterCall = <<b>> \o (<<p>> \o AfterCall)
  BY <1>6, <1>7, <1>8
<1>11. /\ <<b>> \o (<<p>> \o AfterCall) \in Seq(Good)
       /\ Nested(<<b>> \o (<<p>> \o AfterCall), recursive)
  BY ZenonT(30), <1>7, <1>9, PushBody, TopIs
<1> QED  BY <1>3, <1>10, <1>11, StackKeeps

(* Emptying a slot that no registration waits for.                           *)
LEMMA FreeKeeps ==
  ASSUME IInv, NEW i \in Slots, i = Fixed \/ eventtab2[i].evtime = currcycle,
         eventtab2' = [eventtab2 EXCEPT ![i] = Free], UNCHANGED <<currcycle, dorecheck>>
  PROVE  /\ Good \subseteq Good'
         /\ eventtab2' \in [Slots -> [active : BOOLEAN, evtime : Times, handler : 0 .. NFuncs + 1]]
         /\ \A j \in Slots : eventtab2'[j].active => j # i /\ eventtab2'[j] = eventtab2[j]
         /\ Kept
<1>1. /\ eventtab2 \in [Slots -> [active : BOOLEAN, evtime : Times, handler : 0 .. NFuncs + 1]]
      /\ Free \in [active : BOOLEAN, evtime : Times, handler : 0 .. NFuncs + 1] /\ ~Free.active
  BY SMTT(30), SchedAssumption DEF IInv, TypeOK, Free, Times
<1>2. /\ eventtab2' \in [Slots -> [active : BOOLEAN, evtime : Times, handler : 0 .. NFuncs + 1]]
      /\ \A j \in Slots : j # i => eventtab2'[j] = eventtab2[j]
      /\ \A j \in Slots : eventtab2'[j].active => j # i /\ eventtab2'[j] = eventtab2[j]
  BY <1>1
<1>3. \A j \in Misc : j \in Slots /\ j # Fixed
  BY DEF Misc, Slots, Fixed
<1>4. ASSUME NEW f \in Good PROVE f \in Good'
  <2>1. f.fn = "place" => PlaceOK(f)'
    <3> SUFFICES ASSUME f.fn = "place" PROVE PlaceOK(f)'
      OBVIOUS
    <3>1. f \in Places /\ PlaceOK(f) /\ f.i \in Misc
      BY FrameIs DEF Good, Places
    <3>2. f.i # i
      BY <3>1, <1>3 DEF PlaceOK
    <3> QED  BY <3>1, <3>2, <1>2, <1>3 DEF PlaceOK
  <2>2. f.fn = "misc" => ScanOK(f)'
    BY <1>2 DEF Good, ScanOK, Until
  <2> QED  BY <2>1, <2>2 DEF Good
<1>5. Kept
  BY <1>2, <1>3 DEF Kept
<1> QED  BY <1>2, <1>4, <1>5

LEMMA SubSeqs ==
  ASSUME NEW S, NEW T, S \subseteq T, NEW s \in Seq(S)
  PROVE  s \in Seq(T)
OBVIOUS

LEMMA RemFixedKeeps ==
  ASSUME IInv, RemFixed
  PROVE  IInv' /\ Kept
<1>1. /\ eventtab2' = [eventtab2 EXCEPT ![Fixed] = Free] /\ stack' = AfterCall /\ MayCall(0)
      /\ UNCHANGED <<currcycle, nextevent, pissoff, left, eventtab, next, dorecheck, recursive>>
      /\ Fixed \in Slots
  BY SchedAssumption DEF RemFixed, clockVars, miscVars, Slots, Fixed
<1>2. /\ Good \subseteq Good'
      /\ eventtab2' \in [Slots -> [active : BOOLEAN, evtime : Times, handler : 0 .. NFuncs + 1]]
      /\ \A j \in Slots : eventtab2'[j].active => eventtab2'[j] = eventtab2[j]
      /\ Kept
  BY <1>1, FreeKeeps
<1>3. stack' \in Seq(Good') /\ Nested(stack', recursive')
  BY <1>1, <1>2, AfterCallIs, SubSeqs
<1>4. TypeOK' /\ MainOK'
  BY <1>1, <1>2 DEF IInv, TypeOK, MainOK, Until
<1>5. Quiet'
  BY <1>1, <1>2 DEF IInv, Quiet, SmallOK, Until
<1> QED  BY <1>2, <1>3, <1>4, <1>5 DEF IInv

(* events_schedule                                                           *)
LEMMA ScheduleKeeps ==
  ASSUME IInv, NEW tab \in [Events -> [active : BOOLEAN, evtime : Times]], eventtab' = tab,
         Schedule(tab), UNCHANGED currcycle
  PROVE  MainOK' /\ nextevent' \in Times
<1>1. /\ Earliest(tab) \in Times
      /\ \A e \in Events : tab[e].active => Earliest(tab) <= Until(tab[e].evtime)
  BY EarliestIs DEF IInv, TypeOK
<1>2. nextevent' \in Times /\ Until(nextevent') = Earliest(tab)
  BY <1>1, UntilPlus DEF Schedule, IInv, TypeOK
<1>3. Until(nextevent)' = Until(nextevent') /\ \A t : (Until(t))' = Until(t')
  BY DEF Until
<1> QED  BY <1>1, <1>2 DEF MainOK, Until

LEMMA SetEventKeeps ==
  ASSUME IInv, SetEvent,
         UNCHANGED <<currcycle, pissoff, left, eventtab2, next, dorecheck, recursive>>,
         stack' \in Seq(Good), Nested(stack', recursive)
  PROVE  IInv' /\ Kept
<1>1. PICK entry \in {Off} \cup {[active |-> TRUE, evtime |-> Plus(currcycle, t)] : t \in Delays} :
        LET tab == [eventtab EXCEPT !["cia"] = entry] IN eventtab' = tab /\ Schedule(tab)
  BY DEF SetEvent
<1>2. entry \in [active : BOOLEAN, evtime : Times]
  <2>1. CASE entry = Off
    BY <2>1, SchedAssumption DEF Off, Times
  <2>2. CASE \E t \in Delays : entry = [active |-> TRUE, evtime |-> Plus(currcycle, t)]
    BY <2>2, TimeAhead
  <2> QED  BY <2>1, <2>2
<1>3. /\ eventtab' \in [Events -> [active : BOOLEAN, evtime : Times]] /\ Schedule(eventtab')
      /\ eventtab'["misc"] = eventtab["misc"]
  BY <1>1, <1>2 DEF IInv, TypeOK, Events
<1>4. PICK tab \in [Events -> [active : BOOLEAN, evtime : Times]] : eventtab' = tab
  BY <1>3
<1>5. MainOK' /\ nextevent' \in Times
  BY <1>3, <1>4, ScheduleKeeps
<1>6. Good' = Good
  BY GoodSame
<1>7. TypeOK'
  BY <1>3, <1>5 DEF IInv, TypeOK
<1>8. Quiet' /\ Kept
  BY <1>3 DEF IInv, Quiet, SmallOK, Until, Kept
<1> QED  BY <1>5, <1>6, <1>7, <1>8 DEF IInv

LEMMA SetTimerKeeps ==
  ASSUME IInv, SetTimer
  PROVE  IInv' /\ Kept
<1>1. stack' = stack
  BY DEF SetTimer
<1> QED  BY <1>1, SetEventKeeps DEF SetTimer, miscVars, IInv

LEMMA ReturnKeeps ==
  ASSUME IInv, Return
  PROVE  IInv' /\ Kept
<1>1. /\ Top.fn = "body" /\ stack' = Tail(stack)
      /\ UNCHANGED <<currcycle, pissoff, left, eventtab2, next, dorecheck, recursive>>
      /\ SetEvent \/ UNCHANGED <<eventtab, nextevent>>
  BY DEF Return, Pop, miscVars
<1>2. stack' \in Seq(Good) /\ Nested(stack', recursive)
  BY <1>1, TopIs
<1>3. CASE SetEvent
  BY <1>1, <1>2, <1>3, SetEventKeeps
<1>4. CASE UNCHANGED <<eventtab, nextevent>>
  BY <1>1, <1>2, <1>4, StackKeeps DEF clockVars, miscVars
<1> QED  BY <1>1, <1>3, <1>4

-----------------------------------------------------------------------------
(* MISC_handler                                                              *)

(* Its frame changes; the calls below it are not its own.                    *)
LEMMA ScanSwap ==
  ASSUME IInv, Top.fn = "misc", NEW m \in Good', m.fn = "misc",
         \A f \in Good : f.fn # "misc" => f \in Good'
  PROVE  /\ <<m>> \o Tail(stack) \in Seq(Good') /\ Nested(<<m>> \o Tail(stack), recursive)
         /\ (<<m>> \o Tail(stack))[1] = m
<1>1. Tail(stack) \in Seq(Good) /\ Nested(Tail(stack), FALSE) /\ recursive = TRUE
  BY TopIs
<1>2. ASSUME NEW k \in 1 .. Len(Tail(stack)) PROVE Tail(stack)[k] \in Good'
  <2>1. Tail(stack)[k] \in Good
    BY <1>1
  <2>2. Tail(stack)[k].fn # "misc"
    BY <1>1 DEF Nested
  <2> QED  BY <2>1, <2>2
<1>3. Tail(stack) \in Seq(Good')
  BY <1>1, <1>2, SeqMono
<1> QED  BY <1>1, <1>3, PushScan

LEMMA MiscSkipKeeps ==
  ASSUME IInv, MiscSkip
  PROVE  IInv' /\ Kept
<1>1. PICK s, t : s = eventtab2[Top.i] /\ t = Until(s.evtime)
  OBVIOUS
<1>2. PICK m : m = [Top EXCEPT !.i = @ + 1, !.mintime = IF s.active /\ t < @ THEN t ELSE @]
  OBVIOUS
<1>3. /\ Top.fn = "misc" /\ ~Top.called /\ Top.i <= MiscSlots
      /\ s.active => t # 0
      /\ stack' = <<m>> \o Tail(stack)
      /\ UNCHANGED <<clockVars, eventtab, eventtab2, next, miscVars>>
  BY <1>1, <1>2 DEF MiscSkip, Swap
<1>4. Top \in Scans /\ ScanOK(Top)
  BY <1>3, TopIs
<1>5. Top.i \in Slots /\ Top.i \in Int /\ s \in [active : BOOLEAN, evtime : Times, handler : 0 .. NFuncs + 1]
      /\ t \in Times
  BY <1>1, <1>3, <1>4, UntilIs, SchedAssumption DEF Scans, Slots, Fixed, IInv, TypeOK
<1>6. PICK min : min = IF s.active /\ t < Top.mintime THEN t ELSE Top.mintime
  OBVIOUS
<1>7. /\ m = [fn |-> "misc", i |-> Top.i + 1, called |-> Top.called, recheck |-> Top.recheck,
              mintime |-> min]
      /\ min \in 0 .. W /\ min <= Top.mintime /\ (s.active => min <= t)
  <2>1. /\ Top.mintime \in 0 .. W /\ t \in 0 .. W - 1 /\ W \in Nat /\ s.active \in BOOLEAN
        /\ Top.i \in Int
    BY <1>4, <1>5, SchedAssumption DEF Scans, Times
  <2>2. min \in 0 .. W /\ min <= Top.mintime /\ (s.active => min <= t)
    BY <1>6, <2>1
  <2>3. m = [Top EXCEPT !.i = Top.i + 1, !.mintime = min]
    BY <1>2, <1>4, <1>6 DEF Scans
  <2>4. m = [fn |-> "misc", i |-> Top.i + 1, called |-> Top.called, recheck |-> Top.recheck,
             mintime |-> min]
    BY <2>3, <1>4 DEF Scans
  <2> QED  BY <2>2, <2>4
<1>8. m \in Frames /\ m.fn = "misc"
  BY SMTT(30), <1>3, <1>4, <1>7, SchedAssumption DEF Scans, Frames
<1>9. ScanOK(m)
  <2>1. ASSUME ~(dorecheck \/ m.recheck), NEW j \in Slots, j < m.i, eventtab2[j].active
        PROVE  m.mintime <= Until(eventtab2[j].evtime)
    <3>1. CASE j < Top.i
      <4>1. Top.mintime <= Until(eventtab2[j].evtime)
        BY <2>1, <3>1, <1>4, <1>7 DEF ScanOK
      <4>2. Until(eventtab2[j].evtime) \in Times
        BY UntilIs DEF IInv, TypeOK
      <4> QED  BY <4>1, <4>2, <1>4, <1>7 DEF Scans, Times
    <3>2. CASE j = Top.i
      BY <3>2, <2>1, <1>1, <1>7
    <3> QED  BY <3>1, <3>2, <2>1, <1>5, <1>7 DEF Slots, Fixed
  <2> QED  BY <2>1, <1>3, <1>4, <1>7 DEF ScanOK
<1>10. m \in Good
  BY <1>8, <1>9 DEF Good
<1>11. Good' = Good
  BY <1>3, GoodSame DEF clockVars, miscVars
<1>12. stack' \in Seq(Good) /\ Nested(stack', recursive)
  BY <1>3, <1>8, <1>10, <1>11, ScanSwap
<1> QED  BY <1>3, <1>12, StackKeeps

LEMMA MiscRunKeeps ==
  ASSUME IInv, MiscRun
  PROVE  IInv' /\ Kept
<1>1. PICK i, m, b : i = Top.i /\ m = [Top EXCEPT !.called = TRUE]
                      /\ b = Body(eventtab2[i].handler, FALSE)
  OBVIOUS
<1>2. /\ Top.fn = "misc" /\ ~Top.called /\ i <= MiscSlots
      /\ eventtab2[i].active /\ eventtab2[i].evtime = currcycle
      /\ eventtab2' = [eventtab2 EXCEPT ![i] = Free]
      /\ stack' = <<b, m>> \o Tail(stack)
      /\ UNCHANGED <<currcycle, nextevent, pissoff, left, eventtab, next, dorecheck, recursive>>
  BY <1>1 DEF MiscRun, clockVars, miscVars
<1>3. Top \in Scans /\ ScanOK(Top) /\ recursive
  BY <1>2, TopIs
<1>4. i \in Slots
  BY <1>1, <1>2, <1>3 DEF Scans, Slots, Fixed
<1>5. /\ Good \subseteq Good'
      /\ eventtab2' \in [Slots -> [active : BOOLEAN, evtime : Times, handler : 0 .. NFuncs + 1]]
      /\ \A j \in Slots : eventtab2'[j].active => eventtab2'[j] = eventtab2[j]
      /\ Kept
  BY <1>2, <1>4, FreeKeeps
<1>6. m = [fn |-> "misc", i |-> Top.i, called |-> TRUE, recheck |-> Top.recheck,
           mintime |-> Top.mintime]
  BY <1>1, <1>3 DEF Scans
<1>7. m \in Frames /\ m.fn = "misc" /\ m.called
  BY <1>3, <1>6 DEF Scans, Frames
<1>8. ScanOK(m)
  BY <1>1, <1>2, <1>3, <1>6 DEF ScanOK
<1>9. m \in Good'
  BY <1>5, <1>7, <1>8 DEF Good
<1>10. b \in Good' /\ b.fn = "body"
  <2>1. eventtab2[i].handler \in 0 .. NFuncs + 1
    BY <1>4 DEF IInv, TypeOK
  <2>2. b \in Good /\ b.fn = "body"
    BY <1>1, <2>1, SchedAssumption DEF Good, Frames, Body
  <2> QED  BY <2>2, <1>5
<1>11. /\ <<m>> \o Tail(stack) \in Seq(Good') /\ Nested(<<m>> \o Tail(stack), recursive)
       /\ Calling(<<m>> \o Tail(stack))
  BY <1>2, <1>5, <1>7, <1>9, ScanSwap DEF Calling
<1>12. <<b, m>> \o Tail(stack) = <<b>> \o (<<m>> \o Tail(stack))
  BY <1>2, <1>9, <1>10, TopIs
<1>13. stack' \in Seq(Good') /\ Nested(stack', recursive')
  BY ZenonT(30), <1>2, <1>3, <1>10, <1>11, <1>12, PushBody
<1>14. TypeOK' /\ MainOK' /\ Quiet'
  BY <1>2, <1>3, <1>5 DEF IInv, TypeOK, MainOK, Quiet, Until
<1> QED  BY <1>5, <1>13, <1>14 DEF IInv

LEMMA MiscRanKeeps ==
  ASSUME IInv, MiscRan
  PROVE  IInv' /\ Kept
<1>1. PICK again, m : again = (dorecheck \/ eventtab2[Top.i].active)
                       /\ m = [Top EXCEPT !.i = @ + 1, !.called = FALSE, !.recheck = @ \/ again]
  OBVIOUS
<1>2. /\ Top.fn = "misc" /\ Top.called
      /\ stack' = <<m>> \o Tail(stack)
      /\ dorecheck' = IF again THEN FALSE ELSE dorecheck
      /\ UNCHANGED <<currcycle, nextevent, pissoff, left, eventtab, eventtab2, next, recursive>>
  BY <1>1 DEF MiscRan, Swap, clockVars
<1>3. Top \in Scans /\ ScanOK(Top) /\ recursive /\ Top.i <= MiscSlots /\ Top.i \in Nat
      /\ Top.i \in Slots
  BY <1>2, TopIs DEF ScanOK, Scans, Slots, Fixed
<1>4. again \in BOOLEAN /\ dorecheck' = FALSE
  BY <1>1, <1>2, <1>3 DEF IInv, TypeOK
<1>5. m = [fn |-> "misc", i |-> Top.i + 1, called |-> FALSE, recheck |-> Top.recheck \/ again,
           mintime |-> Top.mintime]
  BY <1>1, <1>3 DEF Scans
<1>6. m \in Frames /\ m.fn = "misc" /\ ~m.called /\ m.i = Top.i + 1 /\ m.mintime = Top.mintime
      /\ m.recheck = (Top.recheck \/ again)
  BY <1>3, <1>4, <1>5, SchedAssumption DEF Scans, Frames
<1>7. ScanOK(m)'
  <2>1. ASSUME ~m.recheck, NEW j \in Slots, j < m.i, eventtab2[j].active
        PROVE  m.mintime <= Until(eventtab2[j].evtime)
    <3>1. ~again /\ ~Top.recheck /\ ~dorecheck /\ ~eventtab2[Top.i].active
      BY <2>1, <1>1, <1>6
    <3>2. j < Top.i
      BY <2>1, <3>1, <1>3, <1>6 DEF Slots, Fixed
    <3> QED  BY <2>1, <3>1, <3>2, <1>3, <1>6 DEF ScanOK
  <2> QED  BY <2>1, <1>2, <1>4, <1>6 DEF ScanOK, Until
<1>8. m \in Good'
  BY <1>6, <1>7 DEF Good
<1>9. \A f \in Good : f.fn # "misc" => f \in Good'
  BY <1>2 DEF Good, PlaceOK
<1>10. stack' \in Seq(Good') /\ Nested(stack', recursive')
  BY <1>2, <1>6, <1>8, <1>9, ScanSwap
<1>11. TypeOK' /\ MainOK' /\ Quiet' /\ Kept
  BY <1>2, <1>3, <1>4 DEF IInv, TypeOK, MainOK, Quiet, Until, Kept
<1> QED  BY <1>10, <1>11 DEF IInv

LEMMA MiscAgainKeeps ==
  ASSUME IInv, MiscAgain
  PROVE  IInv' /\ Kept
<1>1. PICK m : m = Scan(Fixed, FALSE, NoTime)
  OBVIOUS
<1>2. /\ Top.fn = "misc" /\ Top.i > MiscSlots /\ stack' = <<m>> \o Tail(stack)
      /\ UNCHANGED <<clockVars, eventtab, eventtab2, next, miscVars>>
  BY <1>1 DEF MiscAgain, Swap
<1>3. Top \in Scans /\ ScanOK(Top) /\ Top.i \in Int
  BY <1>2, TopIs DEF Scans
<1>4. ~Top.called /\ ~dorecheck
  BY <1>2, <1>3, SchedAssumption DEF ScanOK
<1>5. m \in Frames /\ m.fn = "misc" /\ ~m.called /\ m.i = 0
  BY <1>1, SchedAssumption DEF Scan, Frames, Fixed, NoTime
<1>6. m \in Good
  BY <1>4, <1>5 DEF Good, ScanOK, Slots, Fixed
<1>7. Good' = Good
  BY <1>2, GoodSame DEF clockVars, miscVars
<1>8. stack' \in Seq(Good) /\ Nested(stack', recursive)
  BY <1>2, <1>5, <1>6, <1>7, ScanSwap
<1> QED  BY <1>2, <1>8, StackKeeps

LEMMA MiscEndKeeps ==
  ASSUME IInv, MiscEnd
  PROVE  IInv' /\ Kept
<1>1. PICK min : min = Top.mintime
  OBVIOUS
<1>2. /\ Top.fn = "misc" /\ Top.i > MiscSlots /\ ~Top.recheck
      /\ recursive' = FALSE /\ stack' = Tail(stack)
      /\ UNCHANGED <<currcycle, pissoff, left, eventtab2, next, dorecheck>>
  BY DEF MiscEnd, Pop
<1>3. Top \in Scans /\ ScanOK(Top) /\ Top.i \in Int /\ min \in 0 .. W
  BY <1>1, <1>2, TopIs DEF Scans
<1>4. ~Top.called /\ ~dorecheck
  BY <1>2, <1>3, SchedAssumption DEF ScanOK
<1>5. \A j \in Slots : eventtab2[j].active => min <= Until(eventtab2[j].evtime)
  BY <1>1, <1>2, <1>3, <1>4, SchedAssumption DEF ScanOK, Slots, Fixed
<1>6. \A j \in Slots : Until(eventtab2[j].evtime) \in Times
  BY UntilIs DEF IInv, TypeOK
<1>7. stack' \in Seq(Good') /\ Nested(stack', recursive')
  <2>1. Good' = Good
    BY <1>2, GoodSame
  <2> QED  BY <1>2, <2>1, TopIs
<1>8. CASE min # NoTime
  <2>1. min \in Times
    BY <1>3, <1>8, SchedAssumption DEF NoTime, Times
  <2>2. PICK tab : tab = [eventtab EXCEPT !["misc"] = [active |-> TRUE, evtime |-> Plus(currcycle, min)]]
    OBVIOUS
  <2>3. eventtab' = tab /\ Schedule(tab)
    BY <1>1, <1>8, <2>2 DEF MiscEnd
  <2>4. Plus(currcycle, min) \in Times /\ Until(Plus(currcycle, min)) = min
    BY <2>1, UntilPlus DEF IInv, TypeOK
  <2>5. tab \in [Events -> [active : BOOLEAN, evtime : Times]]
        /\ tab["misc"] = [active |-> TRUE, evtime |-> Plus(currcycle, min)]
    BY <2>2, <2>4 DEF IInv, TypeOK, Events
  <2>6. MainOK' /\ nextevent' \in Times
    BY <1>2, <2>3, <2>5, ScheduleKeeps
  <2>7. SmallOK'
    BY <1>2, <1>5, <2>3, <2>4, <2>5 DEF SmallOK, Until
  <2> QED  BY <1>2, <1>4, <1>7, <2>3, <2>5, <2>6, <2>7 DEF IInv, TypeOK, Quiet, Kept
<1>9. CASE min = NoTime
  <2>1. UNCHANGED <<eventtab, nextevent>>
    BY <1>1, <1>9 DEF MiscEnd
  <2>2. \A j \in Slots : ~eventtab2[j].active
    BY <1>5, <1>6, <1>9, SchedAssumption DEF NoTime, Times
  <2>3. SmallOK'
    BY <1>2, <2>2 DEF SmallOK
  <2>4. MainOK'
    BY <1>2, <2>1 DEF IInv, MainOK, Until
  <2> QED  BY <1>2, <1>4, <1>7, <2>1, <2>3, <2>4 DEF IInv, TypeOK, Quiet, Kept
<1> QED  BY <1>8, <1>9

-----------------------------------------------------------------------------
(* do_cycles_slow                                                            *)

LEMMA MinusIs ==
  ASSUME NEW t \in Times, NEW c \in Times
  PROVE  (t - c) % W \in Times /\ (t - c) % W = IF t >= c THEN t - c ELSE t - c + W
<1>1. PICK x \in Int : x = t - c
  BY DEF Times
<1>2. W \in Nat \ {0} /\ x >= -W /\ x < 2 * W /\ x < W
  BY <1>1, SchedAssumption DEF Times
<1>3. /\ x % W \in 0 .. W - 1
      /\ x % W = IF x < 0 THEN x + W ELSE IF x < W THEN x ELSE x - W
  BY <1>2, ModIs
<1> QED  BY <1>1, <1>2, <1>3 DEF Times

(* When the clock goes on, the time until what it has not passed gets        *)
(* shorter by as much.                                                       *)
LEMMA Nearer ==
  ASSUME NEW c \in Times, NEW d \in Times, NEW t \in Times, (d - c) % W <= (t - c) % W
  PROVE  (t - d) % W = ((t - c) % W) - ((d - c) % W)
<1>1. PICK x, y, z : x = (d - c) % W /\ y = (t - c) % W /\ z = (t - d) % W
  OBVIOUS
<1>2. x = IF d >= c THEN d - c ELSE d - c + W
  BY <1>1, MinusIs
<1>3. y = IF t >= c THEN t - c ELSE t - c + W
  BY <1>1, MinusIs
<1>4. z = IF t >= d THEN t - d ELSE t - d + W
  BY <1>1, MinusIs
<1>5. x <= y
  BY <1>1
<1>6. z = y - x
  BY <1>2, <1>3, <1>4, <1>5, SchedAssumption DEF Times
<1> QED  BY <1>1, <1>6

LEMMA ClockKeeps ==
  ASSUME IInv, ~recursive, currcycle' \in Times, Until(currcycle') <= Until(nextevent),
         UNCHANGED <<nextevent, eventtab, eventtab2, next, dorecheck, recursive>>,
         pissoff' \in 0 .. Pissoff, left' \in 0 .. MaxT,
         stack' \in Seq({f \in Frames : f.fn \notin {"place", "misc"}}),
         Nested(stack', FALSE)
  PROVE  IInv' /\ Kept /\ NotPassed
<1>0. /\ currcycle \in Times /\ nextevent \in Times
      /\ \A e \in Events : eventtab[e].evtime \in Times
      /\ \A i \in Slots : eventtab2[i].evtime \in Times
  BY DEF IInv, TypeOK
<1> DEFINE step == Until(currcycle')
<1>1. step \in Times /\ Until(nextevent) \in Times /\ step <= Until(nextevent)
      /\ \A e \in Events : Until(eventtab[e].evtime) \in Times
      /\ \A i \in Slots : Until(eventtab2[i].evtime) \in Times
  BY <1>0, UntilIs
<1>2. \A e \in Events : eventtab[e].active => Until(nextevent) <= Until(eventtab[e].evtime)
  BY DEF IInv, MainOK
<1>3. SmallOK /\ ~dorecheck
  BY DEF IInv, Quiet
<1>4. \A i \in Slots : eventtab2[i].active =>
        /\ eventtab["misc"].active
        /\ Until(nextevent) <= Until(eventtab["misc"].evtime)
        /\ Until(eventtab["misc"].evtime) <= Until(eventtab2[i].evtime)
  BY <1>2, <1>3 DEF SmallOK, Events
<1>5. ASSUME NEW t \in Times, Until(nextevent) <= Until(t)
      PROVE  step <= Until(t) /\ (t - currcycle') % W = Until(t) - step
  <2>1. Until(t) \in Times
    BY <1>0, UntilIs
  <2>2. step <= Until(t)
    BY <1>1, <1>5, <2>1, SchedAssumption DEF Times
  <2> QED  BY <1>0, <2>2, Nearer DEF Until
<1>6. "misc" \in Events
  BY DEF Events
<1>7. \A e \in Events : eventtab[e].active =>
        /\ step <= Until(eventtab[e].evtime)
        /\ (eventtab[e].evtime - currcycle') % W = Until(eventtab[e].evtime) - step
  BY <1>0, <1>2, <1>5
<1>8. ASSUME NEW i \in Slots, eventtab2[i].active
      PROVE  /\ step <= Until(eventtab2[i].evtime)
             /\ (eventtab2[i].evtime - currcycle') % W = Until(eventtab2[i].evtime) - step
  <2>1. Until(nextevent) <= Until(eventtab2[i].evtime)
    <3>1. PICK x, y, z : x = Until(nextevent) /\ y = Until(eventtab["misc"].evtime)
                         /\ z = Until(eventtab2[i].evtime)
      OBVIOUS
    <3>2. x \in Times /\ y \in Times /\ z \in Times
      BY <1>1, <1>6, <3>1
    <3>3. x <= y /\ y <= z
      BY <1>4, <1>8, <3>1
    <3>4. x <= z
      BY <3>2, <3>3, SchedAssumption DEF Times
    <3> QED  BY <3>1, <3>4
  <2> QED  BY <1>0, <2>1, <1>5
<1>9. (nextevent - currcycle') % W = Until(nextevent) - step
  BY <1>0, <1>1, <1>5, SchedAssumption DEF Times
<1>10. NotPassed
  BY <1>7, <1>8 DEF NotPassed
<1>11. MainOK'
  <2> SUFFICES ASSUME NEW e \in Events, eventtab[e].active
               PROVE  (nextevent - currcycle') % W <= (eventtab[e].evtime - currcycle') % W
    BY DEF MainOK, Until
  <2>1. PICK x, y, z : x = Until(nextevent) /\ y = Until(eventtab[e].evtime) /\ z = step
    OBVIOUS
  <2>2. x \in Times /\ y \in Times /\ z \in Times /\ x <= y
    BY <1>1, <1>2, <2>1
  <2>3. x - z <= y - z
    BY <2>2, SchedAssumption DEF Times
  <2> QED  BY <1>7, <1>9, <2>1, <2>3
<1>12. SmallOK'
  <2> SUFFICES ASSUME NEW i \in Slots, eventtab2[i].active
               PROVE  /\ eventtab["misc"].active
                      /\ (eventtab["misc"].evtime - currcycle') % W <= (eventtab2[i].evtime - currcycle') % W
    BY DEF SmallOK, Until
  <2>1. PICK x, y, z : x = Until(eventtab["misc"].evtime) /\ y = Until(eventtab2[i].evtime) /\ z = step
    OBVIOUS
  <2>2. x \in Times /\ y \in Times /\ z \in Times /\ x <= y
    BY <1>1, <1>4, <1>6, <2>1
  <2>3. x - z <= y - z
    BY <2>2, SchedAssumption DEF Times
  <2> QED  BY <1>4, <1>6, <1>7, <1>8, <2>1, <2>3
<1>13. {f \in Frames : f.fn \notin {"place", "misc"}} \subseteq Good'
  BY DEF Good
<1>14. stack' \in Seq(Good')
  BY <1>13, SubSeqs
<1> QED  BY <1>3, <1>10, <1>11, <1>12, <1>14 DEF IInv, TypeOK, Quiet, Kept

(* In do_cycles_slow only the 68k is below.                                  *)
LEMMA CyclesIs ==
  ASSUME IInv, Top.fn = "cycles"
  PROVE  LET Plain == {f \in Frames : f.fn \notin {"place", "misc"}} IN
           /\ Top \in Rounds /\ ~recursive
           /\ Tail(stack) \in Seq(Good) /\ Tail(stack) \in Seq(Plain)
           /\ Nested(Tail(stack), FALSE)
           /\ Tail(stack)[1].fn = "cpu" /\ Calling(Tail(stack))
           /\ \A f \in Rounds : /\ f \in Plain /\ f \in Good
                                /\ <<f>> \o Tail(stack) \in Seq(Plain)
                                /\ <<f>> \o Tail(stack) \in Seq(Good)
                                /\ Nested(<<f>> \o Tail(stack), FALSE)
                                /\ Calling(<<f>> \o Tail(stack))
<1> DEFINE Plain == {f \in Frames : f.fn \notin {"place", "misc"}}
<1>1. /\ Top \in Rounds /\ recursive = FALSE /\ Tail(stack) \in Seq(Good)
      /\ Nested(Tail(stack), FALSE) /\ Tail(stack)[1].fn = "cpu" /\ Calling(Tail(stack))
  BY TopIs
<1>2. Tail(stack) \in Seq(Plain)
  <2>1. Len(Tail(stack)) = 1
    <3>1. 1 \in 1 .. Len(Tail(stack))
      BY <1>1 DEF Nested
    <3> QED  BY <1>1, <3>1 DEF Nested
  <2>2. ASSUME NEW k \in 1 .. Len(Tail(stack)) PROVE Tail(stack)[k] \in Plain
    <3>5. PICK n : n = Len(Tail(stack))
      OBVIOUS
    <3>3. k = 1
      <4>1. n = 1 /\ k \in 1 .. n
        BY <3>5, <2>1
      <4> QED  BY <4>1
    <3>4. Tail(stack)[k] \in Good
      BY <1>1
    <3>1. k = 1 /\ Tail(stack)[k] \in Good
      BY <3>3, <3>4
    <3>2. Tail(stack)[k].fn = "cpu"
      BY <3>1, <1>1
    <3> QED  BY <3>1, <3>2 DEF Good
  <2> QED  BY <1>1, <2>2, SeqMono
<1>3. ASSUME NEW f \in Rounds
      PROVE  /\ f \in Plain /\ f \in Good /\ <<f>> \o Tail(stack) \in Seq(Plain)
             /\ <<f>> \o Tail(stack) \in Seq(Good)
             /\ Nested(<<f>> \o Tail(stack), FALSE) /\ Calling(<<f>> \o Tail(stack))
  <2>1. f \in Plain /\ f \in Good /\ f.fn = "cycles"
    BY DEF Rounds, Frames, Good
  <2>2. /\ <<f>> \o Tail(stack) \in Seq(Good) /\ Nested(<<f>> \o Tail(stack), FALSE)
        /\ (<<f>> \o Tail(stack))[1] = f
    BY ZenonT(30), <1>1, <2>1, PushRound
  <2>3. <<f>> \o Tail(stack) \in Seq(Plain)
    BY <1>2, <2>1, PushIs
  <2> QED  BY <2>1, <2>2, <2>3 DEF Calling
<1> QED  BY <1>1, <1>2, <1>3

LEMMA DoCyclesKeeps ==
  ASSUME IInv, NEW n \in Delays, DoCycles(n)
  PROVE  IInv' /\ Kept
<1>1. /\ Top.fn = "cpu" /\ ~recursive /\ Top = stack[1]
      /\ UNCHANGED <<currcycle, nextevent, eventtab, eventtab2, next, dorecheck, recursive>>
  BY TopIs DEF DoCycles, miscVars
<1>2. pissoff \in 0 .. Pissoff /\ Pissoff \in Nat /\ n \in 1 .. MaxT /\ MaxT \in Nat /\ pissoff \in Int
      /\ n \in Int
  BY SchedAssumption DEF IInv, TypeOK, Delays
<1>3. /\ pissoff' \in 0 .. Pissoff /\ left' \in 0 .. MaxT
      /\ stack' = stack \/ stack' = <<[fn |-> "cycles", i |-> 0]>> \o stack
  <2>1. CASE pissoff >= n
    <3>1. pissoff' = pissoff - n /\ left' = left /\ stack' = stack
      BY <2>1 DEF DoCycles
    <3> QED  BY <3>1, <2>1, <1>2 DEF IInv, TypeOK
  <2>2. CASE ~(pissoff >= n)
    <3>1. \/ pissoff' = 0 /\ left' = n - pissoff /\ stack' = <<[fn |-> "cycles", i |-> 0]>> \o stack
          \/ pissoff' = Pissoff /\ left' = left /\ stack' = stack
      BY <2>2 DEF DoCycles, Push
    <3> QED  BY <3>1, <2>2, <1>2 DEF IInv, TypeOK
  <2> QED  BY <2>1, <2>2
<1>4. stack' \in Seq(Good) /\ Nested(stack', FALSE)
  <2>1. stack \in Seq(Good) /\ Nested(stack, FALSE)
    BY <1>1, TopIs DEF IInv
  <2>2. PICK f : f = [fn |-> "cycles", i |-> 0]
    OBVIOUS
  <2>3. f \in Good /\ f.fn = "cycles"
    BY <2>2 DEF Good, Frames
  <2>4. <<f>> \o stack \in Seq(Good) /\ Nested(<<f>> \o stack, FALSE)
    BY <2>1, <2>3, <1>1, PushRound
  <2> QED  BY <1>3, <2>1, <2>2, <2>4
<1>5. Good' = Good
  BY <1>1, GoodSame
<1>6. recursive' = FALSE
  BY <1>1, TopIs
<1>7. TypeOK' /\ MainOK' /\ Quiet' /\ Kept
  BY <1>1, <1>3 DEF IInv, TypeOK, MainOK, Quiet, SmallOK, Until, Kept
<1> QED  BY <1>4, <1>5, <1>6, <1>7 DEF IInv

LEMMA AdvanceKeeps ==
  ASSUME IInv, Advance
  PROVE  IInv' /\ Kept /\ NotPassed
<1>1. PICK f : f = [Top EXCEPT !.i = 1]
  OBVIOUS
<1>2. /\ Top.fn = "cycles" /\ Until(nextevent) <= left /\ left' = left - Until(nextevent)
      /\ currcycle' = nextevent /\ stack' = <<f>> \o Tail(stack)
      /\ UNCHANGED <<nextevent, pissoff, eventtab, eventtab2, next, dorecheck, recursive>>
  BY <1>1 DEF Advance, Swap, miscVars
<1>3. Top \in Rounds /\ ~recursive
  BY <1>2, CyclesIs
<1>4. f \in Rounds
  BY <1>1, <1>3 DEF Rounds
<1>5. stack' \in Seq({x \in Frames : x.fn \notin {"place", "misc"}}) /\ Nested(stack', FALSE)
  BY <1>2, <1>4, CyclesIs
<1>6. currcycle' \in Times /\ Until(nextevent) \in Times /\ left \in 0 .. MaxT
      /\ pissoff \in 0 .. Pissoff
  BY <1>2, UntilIs DEF IInv, TypeOK
<1>7. left' \in 0 .. MaxT /\ Until(currcycle') <= Until(nextevent)
  BY <1>2, <1>6, SchedAssumption DEF Times
<1> QED  BY <1>2, <1>3, <1>5, <1>6, <1>7, ClockKeeps

LEMMA CyclesEndKeeps ==
  ASSUME IInv, CyclesEnd
  PROVE  IInv' /\ Kept /\ NotPassed
<1>1. /\ Top.fn = "cycles" /\ Until(nextevent) > left /\ left' = 0
      /\ currcycle' = Plus(currcycle, left) /\ stack' = Tail(stack)
      /\ UNCHANGED <<nextevent, pissoff, eventtab, eventtab2, next, dorecheck, recursive>>
  BY DEF CyclesEnd, Pop, miscVars
<1>2. ~recursive /\ stack' \in Seq({x \in Frames : x.fn \notin {"place", "misc"}})
      /\ Nested(stack', FALSE)
  BY <1>1, CyclesIs
<1>3. left \in Times /\ Until(nextevent) \in Times /\ currcycle \in Times
      /\ pissoff \in 0 .. Pissoff
  BY UntilIs, SchedAssumption DEF IInv, TypeOK, Times
<1>4. currcycle' \in Times /\ Until(currcycle') = left
  BY <1>1, <1>3, UntilPlus
<1>5. left' \in 0 .. MaxT /\ Until(currcycle') <= Until(nextevent)
  BY <1>1, <1>3, <1>4, SchedAssumption DEF Times
<1> QED  BY <1>1, <1>2, <1>3, <1>4, <1>5, ClockKeeps

LEMMA DispatchedKeeps ==
  ASSUME IInv, Dispatched
  PROVE  IInv' /\ Kept
<1>1. PICK f : f = [Top EXCEPT !.i = 0]
  OBVIOUS
<1>2. /\ Top.fn = "cycles" /\ Schedule(eventtab) /\ stack' = <<f>> \o Tail(stack)
      /\ UNCHANGED <<currcycle, pissoff, left, eventtab, eventtab2, next, dorecheck, recursive>>
  BY <1>1 DEF Dispatched, Swap, miscVars
<1>3. f \in Rounds
  BY <1>1, <1>2, CyclesIs DEF Rounds
<1>4. stack' \in Seq(Good) /\ Nested(stack', recursive) /\ Good' = Good
  <2>1. recursive = FALSE
    BY <1>2, TopIs
  <2> QED  BY <1>2, <1>3, <2>1, CyclesIs, GoodSame
<1>5. PICK tab \in [Events -> [active : BOOLEAN, evtime : Times]] : tab = eventtab
  BY DEF IInv, TypeOK
<1>6. MainOK' /\ nextevent' \in Times
  BY <1>2, <1>5, ScheduleKeeps
<1>7. TypeOK' /\ Quiet' /\ Kept
  BY <1>2, <1>6 DEF IInv, TypeOK, Quiet, SmallOK, Until, Kept
<1> QED  BY <1>2, <1>4, <1>6, <1>7 DEF IInv

LEMMA DispatchKeeps ==
  ASSUME IInv, Dispatch
  PROVE  IInv' /\ Kept
<1>1. PICK e, f : e = Table[Top.i] /\ f = [Top EXCEPT !.i = @ + 1]
  OBVIOUS
<1>2. PICK callers : callers = <<f>> \o Tail(stack)
  OBVIOUS
<1>3. /\ Top.fn = "cycles" /\ Top.i \in 1 .. 3
      /\ UNCHANGED <<currcycle, nextevent, pissoff, left, eventtab2, next>>
      /\ \/ stack' = callers /\ UNCHANGED <<eventtab, dorecheck, recursive>>
         \/ EnterMisc(callers)
         \/ /\ eventtab[e].active /\ eventtab[e].evtime = currcycle
            /\ stack' = <<Body(NFuncs + 1, e = "cia")>> \o callers
            /\ eventtab' = IF e = "hsync" THEN [eventtab EXCEPT ![e].evtime = Plus(currcycle, Hsync)]
                           ELSE eventtab
            /\ UNCHANGED <<dorecheck, recursive>>
  BY <1>1, <1>2 DEF Dispatch, Table, clockVars, miscVars
<1>4. e \in Events
  BY <1>1, <1>3 DEF Table, Events
<1>5. f \in Rounds
  BY <1>1, <1>3, CyclesIs DEF Rounds
<1>6. recursive = FALSE
  BY <1>3, TopIs
<1>7. callers \in Seq(Good) /\ Nested(callers, recursive) /\ Calling(callers)
  BY <1>2, <1>3, <1>5, <1>6, CyclesIs
<1>8. Kept
  BY <1>3 DEF Kept
<1>9. CASE stack' = callers /\ UNCHANGED <<eventtab, dorecheck, recursive>>
  BY <1>3, <1>7, <1>9, StackKeeps DEF clockVars, miscVars
<1>10. CASE EnterMisc(callers)
  <2>1. /\ stack' \in Seq(Good') /\ Nested(stack', recursive') /\ MainOK' /\ Quiet'
        /\ eventtab' \in [Events -> [active : BOOLEAN, evtime : Times]]
        /\ dorecheck' \in BOOLEAN /\ recursive' \in BOOLEAN
    <3>1. eventtab2' \in [Slots -> [active : BOOLEAN, evtime : Times, handler : 0 .. NFuncs + 1]]
      BY <1>3 DEF IInv, TypeOK
    <3> QED  BY <3>1, <1>3, <1>7, <1>10, EnterKeeps
  <2> QED  BY <1>3, <1>8, <2>1 DEF IInv, TypeOK
<1>11. CASE /\ eventtab[e].active /\ eventtab[e].evtime = currcycle
            /\ stack' = <<Body(NFuncs + 1, e = "cia")>> \o callers
            /\ eventtab' = IF e = "hsync" THEN [eventtab EXCEPT ![e].evtime = Plus(currcycle, Hsync)]
                           ELSE eventtab
            /\ UNCHANGED <<dorecheck, recursive>>
  <2>1. PICK b : b = Body(NFuncs + 1, e = "cia")
    OBVIOUS
  <2>2. b \in Good /\ b.fn = "body"
    BY <2>1, SchedAssumption DEF Body, Good, Frames
  <2>3. stack' \in Seq(Good) /\ Nested(stack', recursive)
    BY <1>7, <1>6, <1>11, <2>1, <2>2, PushBody
  <2>4. Good' = Good
    BY <1>3, <1>11, GoodSame
  <2>5. Plus(currcycle, Hsync) \in Times /\ currcycle \in Times /\ nextevent \in Times
    BY SchedAssumption, PlusIs DEF IInv, TypeOK
  <2>6. eventtab' \in [Events -> [active : BOOLEAN, evtime : Times]]
    BY <1>4, <1>11, <2>5 DEF IInv, TypeOK
  <2>7. /\ eventtab'["misc"] = eventtab["misc"]
        /\ \A x \in Events : x # e => eventtab'[x] = eventtab[x]
    BY <1>4, <1>11 DEF IInv, TypeOK, Events
  <2>8. MainOK'
    <3>1. Until(nextevent) = 0
      <4>1. Until(currcycle) = 0 /\ Until(nextevent) \in Times
        BY <2>5, UntilIs DEF Times
      <4>2. Until(nextevent) <= Until(currcycle)
        BY <1>4, <1>11 DEF IInv, MainOK
      <4> QED  BY <4>1, <4>2, SchedAssumption DEF Times
    <3>2. \A x \in Events : Until(eventtab'[x].evtime) \in Times
      BY <2>5, <2>6, UntilIs
    <3>3. \A x \in Events : 0 <= Until(eventtab'[x].evtime)
      BY <3>2, SchedAssumption DEF Times
    <3> QED  BY <3>1, <3>3, <1>3 DEF MainOK, Until
  <2>9. Quiet'
    BY <1>3, <1>11, <2>7 DEF IInv, Quiet, SmallOK, Until
  <2>10. TypeOK'
    BY <1>3, <1>11, <2>6 DEF IInv, TypeOK
  <2> QED  BY <1>8, <1>11, <2>3, <2>4, <2>8, <2>9, <2>10 DEF IInv
<1> QED  BY <1>3, <1>9, <1>10, <1>11

-----------------------------------------------------------------------------
(* The theorems.                                                             *)

LEMMA InitIs == Init => IInv
<1> SUFFICES ASSUME Init PROVE IInv
  OBVIOUS
<1>1. Plus(0, Hsync) \in Times /\ 0 \in Times /\ 0 \in 0 .. W
  BY SchedAssumption, PlusIs DEF Times
<1>2. TypeOK
  <2>1. Off \in [active : BOOLEAN, evtime : Times]
        /\ Free \in [active : BOOLEAN, evtime : Times, handler : 0 .. NFuncs + 1]
    BY <1>1, SchedAssumption DEF Off, Free
  <2>2. eventtab \in [Events -> [active : BOOLEAN, evtime : Times]]
    BY <1>1, <2>1 DEF Init
  <2>3. eventtab2 \in [Slots -> [active : BOOLEAN, evtime : Times, handler : 0 .. NFuncs + 1]]
    BY <2>1 DEF Init
  <2>4. currcycle \in Times /\ nextevent \in Times /\ pissoff \in 0 .. Pissoff /\ left \in 0 .. MaxT
        /\ next \in Misc /\ dorecheck \in BOOLEAN /\ recursive \in BOOLEAN
    <3>1. {MiscSlots, MaxT} \subseteq Nat \ {0} /\ Pissoff \in Nat
      BY SchedAssumption
    <3>2. 1 \in 1 .. MiscSlots /\ 0 \in 0 .. MaxT /\ 0 \in 0 .. Pissoff
      BY <3>1
    <3> QED  BY <1>1, <3>2 DEF Init, Misc
  <2> QED  BY <2>2, <2>3, <2>4 DEF TypeOK
<1>3. MainOK
  <2>1. nextevent = eventtab["hsync"].evtime /\ nextevent \in Times
        /\ \A e \in Events : eventtab[e].active => e = "hsync"
    BY <1>1 DEF Init, Off, Events
  <2> QED  BY <2>1, <1>2, UntilIs, SchedAssumption DEF MainOK, TypeOK, Times, Events
<1>4. Quiet
  BY DEF Init, Quiet, SmallOK, Free
<1>5. stack \in Seq(Good) /\ Nested(stack, recursive)
  <2>1. Cpu \in Good
    BY DEF Good, Frames, Cpu
  <2>2. stack = <<Cpu>> /\ Len(stack) = 1 /\ stack[1] = Cpu /\ recursive = FALSE
    BY DEF Init
  <2> QED  BY <2>1, <2>2 DEF Nested, Cpu
<1> QED  BY <1>2, <1>3, <1>4, <1>5 DEF IInv

LEMMA NextKeeps ==
  ASSUME IInv, [Next]_vars
  PROVE  /\ IInv' /\ Kept
         /\ currcycle' # currcycle => NotPassed
<1>1. ASSUME NEW t \in Delays, NEW f \in Funcs, NewEvent(t, f)
      PROVE  IInv' /\ Kept /\ UNCHANGED currcycle
  BY <1>1, NewEventKeeps DEF NewEvent, clockVars
<1>2. ASSUME NEW t \in Delays, NEW f \in Funcs, NewSameEvent(t, f)
      PROVE  IInv' /\ Kept /\ UNCHANGED currcycle
  BY <1>2, NewSameEventKeeps DEF NewSameEvent, clockVars
<1>3. ASSUME NEW t \in Delays, NEW f \in Funcs, NewDropped(t, f)
      PROVE  IInv' /\ Kept /\ UNCHANGED currcycle
  BY <1>3, NewDroppedKeeps DEF NewDropped, clockVars
<1>4. ASSUME NEW t \in Delays, NewFixed(t) PROVE IInv' /\ Kept /\ UNCHANGED currcycle
  BY <1>4, NewFixedKeeps DEF NewFixed, clockVars
<1>5. CASE RemFixed
  BY <1>5, RemFixedKeeps DEF RemFixed, clockVars
<1>6. CASE SetTimer
  BY <1>6, SetTimerKeeps DEF SetTimer
<1>7. CASE Return
  BY <1>7, ReturnKeeps DEF Return
<1>8. CASE NewSamePlaced
  BY <1>8, NewSamePlacedKeeps DEF NewSamePlaced, clockVars
<1>9. CASE MiscSkip
  BY <1>9, MiscSkipKeeps DEF MiscSkip, clockVars
<1>10. CASE MiscRun
  BY <1>10, MiscRunKeeps DEF MiscRun, clockVars
<1>11. CASE MiscRan
  BY <1>11, MiscRanKeeps DEF MiscRan, clockVars
<1>12. CASE MiscAgain
  BY <1>12, MiscAgainKeeps DEF MiscAgain, clockVars
<1>13. CASE MiscEnd
  BY <1>13, MiscEndKeeps DEF MiscEnd
<1>14. CASE Advance
  BY <1>14, AdvanceKeeps
<1>15. CASE Dispatch
  BY <1>15, DispatchKeeps DEF Dispatch, clockVars
<1>16. CASE Dispatched
  BY <1>16, DispatchedKeeps DEF Dispatched
<1>17. CASE CyclesEnd
  BY <1>17, CyclesEndKeeps
<1>18. ASSUME NEW n \in Delays, DoCycles(n) PROVE IInv' /\ Kept /\ UNCHANGED currcycle
  BY <1>18, DoCyclesKeeps DEF DoCycles
<1>19. CASE UNCHANGED vars
  <2>1. stack' \in Seq(Good) /\ Nested(stack', recursive)
    BY <1>19 DEF vars, IInv
  <2> QED  BY <1>19, <2>1, StackKeeps DEF vars, clockVars
<1> QED
  BY <1>1, <1>2, <1>3, <1>4, <1>5, <1>6, <1>7, <1>8, <1>9, <1>10, <1>11, <1>12, <1>13, <1>14,
     <1>15, <1>16, <1>17, <1>18, <1>19 DEF Next, Register, Machine

(* The inductive invariant of the event scheduler, whatever handlers          *)
(* register, cancel and reschedule while the tables are walked.              *)
THEOREM SchedInvariant == Spec => []IInv
<1>1. IInv /\ [Next]_vars => IInv'
  BY NextKeeps
<1> QED  BY InitIs, <1>1, PTL DEF Spec

(* The types; the clock, nextevent and the cycles left stay in range.        *)
THEOREM SchedTypes == Spec => []TypeOK
<1>1. IInv => TypeOK
  BY DEF IInv
<1> QED  BY SchedInvariant, <1>1, PTL

(* When the 68k runs again, MISC_handler is not at work, every small event    *)
(* that was due has run, and nextevent is no later than the next one.        *)
THEOREM SettledWhen68kRuns == Spec => []SettledAtCpu
<1>1. IInv => SettledAtCpu
  <2> SUFFICES ASSUME IInv, Top.fn = "cpu"
               PROVE  /\ ~dorecheck /\ ~recursive
                      /\ \A i \in Slots : eventtab2[i].active => Until(eventtab2[i].evtime) >= Until(nextevent)
    BY DEF SettledAtCpu
  <2>1. ~recursive /\ ~dorecheck /\ SmallOK /\ MainOK
    BY TopIs DEF IInv, Quiet
  <2>2. ASSUME NEW i \in Slots, eventtab2[i].active
        PROVE  Until(eventtab2[i].evtime) >= Until(nextevent)
    <3>1. "misc" \in Events
      BY DEF Events
    <3>2. Until(nextevent) <= Until(eventtab["misc"].evtime)
          /\ Until(eventtab["misc"].evtime) <= Until(eventtab2[i].evtime)
      BY <2>1, <2>2, <3>1 DEF SmallOK, MainOK
    <3>3. Until(nextevent) \in Times /\ Until(eventtab["misc"].evtime) \in Times
          /\ Until(eventtab2[i].evtime) \in Times
      BY <3>1, UntilIs DEF IInv, TypeOK
    <3> QED  BY <3>2, <3>3, SchedAssumption DEF Times
  <2> QED  BY <2>1, <2>2
<1> QED  BY SchedInvariant, <1>1, PTL

(* The clock stops at every active event of both tables.                     *)
THEOREM ClockStopsAtEvents == Spec => NothingSkipped
<1>1. IInv /\ [Next]_vars => [NotPassed]_currcycle
  BY NextKeeps
<1>2. [NotPassed]_currcycle =>
        [LET step == Until(currcycle') IN
           /\ \A e \in Events : eventtab[e].active => step <= Until(eventtab[e].evtime)
           /\ \A i \in Slots : eventtab2[i].active => step <= Until(eventtab2[i].evtime)]_currcycle
  BY DEF NotPassed
<1> QED  BY SchedInvariant, <1>1, <1>2, PTL DEF Spec, NothingSkipped

(* No registration puts another event over a pending one, however the calls   *)
(* nest between finding the slot and filling it.                             *)
THEOREM PendingEventsStay == Spec => NothingLost
<1>1. IInv /\ [Next]_vars =>
        [\A i \in Misc : eventtab2[i].active =>
           \/ eventtab2'[i] = eventtab2[i]
           \/ eventtab2[i].evtime = currcycle]_eventtab2
  BY NextKeeps DEF Kept
<1> QED  BY SchedInvariant, <1>1, PTL DEF Spec, NothingLost
=============================================================================
