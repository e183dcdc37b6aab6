-------------------------- MODULE PeripheralsProof --------------------------
(***************************************************************************)
(* The parts of MCPeripherals for every set of requests and openers, every *)
(* latch, bit and delay: INTREQ as the CPU sees it, the CIA's event and    *)
(* its timers, and the packets and flushes of the network device.          *)
(***************************************************************************)
EXTENDS MCPeripherals, FiniteSetTheorems, SequenceTheorems, TLAPS

-----------------------------------------------------------------------------
(* INTREQ                                                                    *)

IrqEvents == [handler : {"intreq", "send"}, wait : 0 .. Delay, data : SUBSET Bits]
Snapshots == {e \in events : e.handler = "intreq"}
Agrees(bit, reg) == bit \in reg <=> bit \in intreq

IrqTypes ==
  /\ mode \in Irq!Modes
  /\ intreq \in SUBSET Bits /\ intreq_internal \in SUBSET Bits
  /\ events \in SUBSET IrqEvents /\ age \in [Bits -> 0 .. Delay + 1] /\ overtaken \in BOOLEAN
  /\ mode = "normal" => Snapshots = {}

(* A snapshot taken since the bit changed has the bit right; and either all   *)
(* have, and the CPU too, or the one of the change is still to come.         *)
Recent(bit) == \A e \in Snapshots : e.wait + age[bit] >= Delay => Agrees(bit, e.data)
Settled(bit) == Agrees(bit, intreq_internal) /\ \A e \in Snapshots : Agrees(bit, e.data)
Coming(bit) == \E e \in Snapshots : e.wait + age[bit] = Delay
BitOK(bit) == Recent(bit) /\ (Settled(bit) \/ Coming(bit))

IrqInv == IrqTypes /\ (~overtaken => \A bit \in Bits : BitOK(bit))

LEMMA DelayIs == Delay \in Nat \ {0} /\ NSlots \in Nat \ {0}
BY PeripheralsAssumption DEF Irq!InterruptsAssumption

(* INTREQ_0, where the other events hold the same snapshots.                 *)
LEMMA Intreq0Keeps ==
  ASSUME IrqInv, NEW set \in BOOLEAN, NEW v \in SUBSET Bits, NEW old \in SUBSET IrqEvents,
         {e \in old : e.handler = "intreq"} = Snapshots,
         Irq!INTREQ_0(set, v, old), UNCHANGED mode
  PROVE  IrqInv'
<1>1. PICK reg, new : /\ reg = Irq!Setclr(intreq, set, v) /\ new = Irq!Snapshot(reg, v)
  OBVIOUS
<1>2. reg \in SUBSET Bits /\ new = [handler |-> "intreq", wait |-> Delay, data |-> reg]
      /\ new \in IrqEvents
  BY <1>1, DelayIs DEF Irq!Setclr, Irq!Snapshot, IrqInv, IrqTypes, IrqEvents
<1>3. /\ intreq' = reg /\ mode' = mode
      /\ age' = [bit \in Bits |-> IF (bit \in reg) # (bit \in intreq) THEN 0 ELSE age[bit]]
  BY <1>1 DEF Irq!INTREQ_0, Irq!Changed
<1>4. /\ age \in [Bits -> 0 .. Delay + 1] /\ age' \in [Bits -> 0 .. Delay + 1]
      /\ overtaken \in BOOLEAN /\ intreq_internal \in SUBSET Bits /\ mode \in Irq!Modes
      /\ events \in SUBSET IrqEvents
  BY <1>3, DelayIs DEF IrqInv, IrqTypes
<1>5. ASSUME NEW bit \in Bits
      PROVE  \/ age'[bit] = 0
             \/ age'[bit] = age[bit] /\ \A x : Agrees(bit, x)' <=> Agrees(bit, x)
  BY <1>3 DEF Agrees
<1>6. \A bit \in Bits : Agrees(bit, reg)'
  BY <1>3 DEF Agrees
<1> DEFINE Twins == {o \in old : o.handler = "intreq" /\ o.wait = Delay}
<1>7. Twins = Irq!Twins(new, old) /\ Twins \subseteq Snapshots
      /\ \A e \in Snapshots : e.wait \in 0 .. Delay /\ (e \notin Twins => e.wait < Delay)
  <2>1. Twins = Irq!Twins(new, old)
    BY <1>2 DEF Irq!Twins
  <2>2. \A e \in Snapshots : e \in old /\ e \in IrqEvents /\ e.handler = "intreq"
    BY DEF Snapshots
  <2> QED  BY <2>1, <2>2, DelayIs DEF IrqEvents
<1>8. CASE ~set /\ reg = intreq
  <2>1. events' = old /\ UNCHANGED <<intreq_internal, overtaken>>
    BY <1>1, <1>8 DEF Irq!INTREQ_0
  <2>2. Snapshots' = Snapshots /\ intreq' = intreq /\ age' = age
    BY <1>3, <1>4, <1>8, <2>1 DEF Snapshots
  <2> QED  BY <2>1, <2>2, <1>3, <1>4 DEF IrqInv, IrqTypes, BitOK, Recent, Settled, Coming, Agrees
<1>9. CASE ~(~set /\ reg = intreq) /\ ~Irq!UseEventmode(set)
  <2>1. /\ intreq_internal' = reg /\ events' = old
        /\ overtaken' = (overtaken \/ \E o \in old : o.handler = "intreq")
    BY <1>1, <1>9 DEF Irq!INTREQ_0
  <2>2. Snapshots' = Snapshots
    BY <2>1 DEF Snapshots
  <2>3. ~overtaken' => Snapshots = {}
    BY <2>1 DEF Snapshots
  <2>4. IrqTypes'
    BY <1>2, <1>3, <1>4, <2>1, <2>2 DEF IrqInv, IrqTypes
  <2>5. ASSUME ~overtaken', NEW bit \in Bits PROVE BitOK(bit)'
    BY <2>1, <2>2, <2>3, <2>5, <1>6 DEF BitOK, Recent, Settled
  <2> QED  BY <2>4, <2>5 DEF IrqInv
<1>10. CASE ~(~set /\ reg = intreq) /\ Irq!UseEventmode(set)
  <2>0. mode # "normal"
    BY <1>10 DEF Irq!UseEventmode
  <2>1. \/ \E o \in Twins :
             /\ intreq_internal' = o.data /\ events' = (old \ {o}) \cup {new}
             /\ overtaken' = (overtaken \/ Twins # {o})
        \/ /\ events' = old \cup {new}
           /\ overtaken' = (overtaken \/ Twins # {}) /\ UNCHANGED intreq_internal
        \/ /\ events' = old /\ overtaken' = TRUE /\ UNCHANGED intreq_internal
    BY <1>1, <1>7, <1>10 DEF Irq!INTREQ_0
  <2>2. CASE \E o \in Twins :
             /\ intreq_internal' = o.data /\ events' = (old \ {o}) \cup {new}
             /\ overtaken' = (overtaken \/ Twins # {o})
    <3>1. PICK o \in Twins : /\ intreq_internal' = o.data /\ events' = (old \ {o}) \cup {new}
                             /\ overtaken' = (overtaken \/ Twins # {o})
      BY <2>2
    <3>2. o \in IrqEvents /\ o \in Snapshots /\ o.wait = Delay /\ o.data \in SUBSET Bits
      BY <1>7 DEF IrqEvents
    <3>3. Snapshots' = (Snapshots \ {o}) \cup {new}
      BY <1>2, <3>1 DEF Snapshots
    <3>4. IrqTypes'
      BY <1>2, <1>3, <1>4, <2>0, <3>1, <3>2 DEF IrqTypes
    <3>5. ASSUME ~overtaken', NEW bit \in Bits PROVE BitOK(bit)'
      <4>1. BitOK(bit) /\ Twins = {o} /\ age[bit] \in 0 .. Delay + 1
        BY <3>1, <3>5, <1>4 DEF IrqInv
      <4>2. \A e \in Snapshots' : e = new \/ (e \in Snapshots /\ e.wait \in 0 .. Delay /\ e.wait < Delay)
        BY <3>3, <4>1, <1>7
      <4>3. Agrees(bit, new.data)' /\ new.wait = Delay /\ new \in Snapshots'
        BY <1>2, <1>6, <3>3
      <4>4. CASE age'[bit] = 0
        <5>1. Recent(bit)'
          BY <4>2, <4>3, <4>4, DelayIs DEF Recent
        <5>2. Coming(bit)'
          BY <4>3, <4>4, DelayIs DEF Coming
        <5> QED  BY <5>1, <5>2 DEF BitOK
      <4>5. CASE age'[bit] = age[bit] /\ \A x : Agrees(bit, x)' <=> Agrees(bit, x)
        <5>1. Recent(bit)'
          BY <4>1, <4>2, <4>3, <4>5 DEF Recent, BitOK
        <5>2. Agrees(bit, o.data)
          BY <3>2, <4>1, DelayIs DEF BitOK, Recent
        <5>3. Settled(bit) => Settled(bit)'
          BY <3>1, <4>2, <4>3, <4>5, <5>2 DEF Settled
        <5>4. Coming(bit) => Coming(bit)'
          <6> SUFFICES ASSUME NEW e \in Snapshots, e.wait + age[bit] = Delay PROVE Coming(bit)'
            BY DEF Coming
          <6>1. CASE e = o
            BY <6>1, <3>2, <4>3, <4>5 DEF Coming
          <6>2. CASE e # o
            BY <6>2, <3>3, <4>5 DEF Coming
          <6> QED  BY <6>1, <6>2
        <5> QED  BY <4>1, <5>1, <5>3, <5>4 DEF BitOK
      <4> QED  BY <1>5, <4>4, <4>5
    <3> QED  BY <3>4, <3>5 DEF IrqInv
  <2>3. CASE /\ events' = old \cup {new}
             /\ overtaken' = (overtaken \/ Twins # {}) /\ UNCHANGED intreq_internal
    <3>1. Snapshots' = Snapshots \cup {new}
      BY <1>2, <2>3 DEF Snapshots
    <3>2. IrqTypes'
      BY <1>2, <1>3, <1>4, <2>0, <2>3 DEF IrqTypes
    <3>3. ASSUME ~overtaken', NEW bit \in Bits PROVE BitOK(bit)'
      <4>1. BitOK(bit) /\ Twins = {} /\ age[bit] \in 0 .. Delay + 1
        BY <2>3, <3>3, <1>4 DEF IrqInv
      <4>2. \A e \in Snapshots' : e = new \/ (e \in Snapshots /\ e.wait \in 0 .. Delay /\ e.wait < Delay)
        BY <3>1, <4>1, <1>7
      <4>3. Agrees(bit, new.data)' /\ new.wait = Delay /\ new \in Snapshots'
        BY <1>2, <1>6, <3>1
      <4>4. CASE age'[bit] = 0
        <5>1. Recent(bit)'
          BY <4>2, <4>3, <4>4, DelayIs DEF Recent
        <5>2. Coming(bit)'
          BY <4>3, <4>4, DelayIs DEF Coming
        <5> QED  BY <5>1, <5>2 DEF BitOK
      <4>5. CASE age'[bit] = age[bit] /\ \A x : Agrees(bit, x)' <=> Agrees(bit, x)
        <5>1. Recent(bit)'
          BY <4>1, <4>2, <4>3, <4>5 DEF Recent, BitOK
        <5>3. Settled(bit) => Settled(bit)'
          BY <2>3, <4>2, <4>3, <4>5 DEF Settled
        <5>4. Coming(bit) => Coming(bit)'
          BY <3>1, <4>5 DEF Coming
        <5> QED  BY <4>1, <5>1, <5>3, <5>4 DEF BitOK
      <4> QED  BY <1>5, <4>4, <4>5
    <3> QED  BY <3>2, <3>3 DEF IrqInv
  <2>4. CASE events' = old /\ overtaken' = TRUE /\ UNCHANGED intreq_internal
    <3>1. Snapshots' = Snapshots
      BY <2>4 DEF Snapshots
    <3> QED  BY <1>2, <1>3, <1>4, <2>4, <3>1 DEF IrqInv, IrqTypes
  <2> QED  BY <2>1, <2>2, <2>3, <2>4
<1> QED  BY <1>8, <1>9, <1>10

LEMMA SendInterruptKeeps ==
  ASSUME IrqInv, NEW bit \in Bits, NEW delay \in 0 .. Delay, Irq!SendInterrupt(bit, delay)
  PROVE  IrqInv'
<1>1. PICK new : new = [handler |-> "send", wait |-> delay, data |-> {bit}]
  OBVIOUS
<1>2. new \in IrqEvents /\ new.handler = "send" /\ new \notin Snapshots /\ UNCHANGED mode
      /\ {bit} \in SUBSET Bits
  BY <1>1 DEF IrqEvents, Snapshots, Irq!SendInterrupt
<1>3. events \in SUBSET IrqEvents
  BY DEF IrqInv, IrqTypes
<1>4. CASE ~(Irq!UseEventmode(TRUE) /\ delay > 0)
  <2>1. Irq!INTREQ_0(TRUE, {bit}, events)
    BY <1>4 DEF Irq!SendInterrupt
  <2> QED  BY <2>1, <1>2, <1>3, Intreq0Keeps DEF Snapshots
<1>5. CASE Irq!UseEventmode(TRUE) /\ delay > 0
  <2>1. \/ \E o \in Irq!Twins(new, events) :
             Irq!INTREQ_0(TRUE, o.data, (events \ {o}) \cup {new})
        \/ /\ events' = events \cup {new}
           /\ UNCHANGED <<intreq, intreq_internal, age, overtaken>>
    BY <1>1, <1>5 DEF Irq!SendInterrupt
  <2>2. CASE \E o \in Irq!Twins(new, events) :
               Irq!INTREQ_0(TRUE, o.data, (events \ {o}) \cup {new})
    <3>1. PICK o \in Irq!Twins(new, events) :
            Irq!INTREQ_0(TRUE, o.data, (events \ {o}) \cup {new})
      BY <2>2
    <3>2. PICK old : old = (events \ {o}) \cup {new}
      OBVIOUS
    <3>3. o \in events /\ o.handler = "send" /\ o.data \in SUBSET Bits
      BY <1>2, <1>3 DEF Irq!Twins, IrqEvents
    <3>4. old \in SUBSET IrqEvents /\ {e \in old : e.handler = "intreq"} = Snapshots
      BY <1>2, <1>3, <3>2, <3>3 DEF Snapshots
    <3>5. Irq!INTREQ_0(TRUE, o.data, old) /\ UNCHANGED mode
      BY <1>2, <3>1, <3>2
    <3> QED  BY <3>3, <3>4, <3>5, Intreq0Keeps
  <2>3. CASE events' = events \cup {new} /\ UNCHANGED <<intreq, intreq_internal, age, overtaken>>
    <3>1. Snapshots' = Snapshots
      BY <1>2, <2>3 DEF Snapshots
    <3> QED  BY <1>2, <1>3, <2>3, <3>1
             DEF IrqInv, IrqTypes, BitOK, Recent, Settled, Coming, Agrees
  <2> QED  BY <2>1, <2>2, <2>3
<1> QED  BY <1>4, <1>5

LEMMA IntreqFKeeps ==
  ASSUME IrqInv, NEW bit \in Bits, Irq!INTREQ_f(bit)
  PROVE  IrqInv'
<1>1. events' = events /\ mode' = mode /\ Snapshots' = Snapshots
  BY DEF Irq!INTREQ_f, Snapshots
<1>2. CASE Irq!UseEventmode(TRUE)
  BY <1>1, <1>2 DEF Irq!INTREQ_f, IrqInv, IrqTypes
<1>3. CASE ~Irq!UseEventmode(TRUE)
  <2>1. mode = "normal" /\ Snapshots = {}
    BY <1>3 DEF Irq!UseEventmode, IrqInv, IrqTypes, Irq!Modes
  <2>2. /\ intreq' = intreq \cup {bit} /\ intreq_internal' = intreq_internal \cup {bit}
        /\ overtaken' = overtaken
        /\ age' = [x \in Bits |-> IF (x \in intreq \cup {bit}) # (x \in intreq) THEN 0 ELSE age[x]]
    BY <1>3 DEF Irq!INTREQ_f, Irq!Changed
  <2>3. IrqTypes'
    BY <1>1, <2>1, <2>2, DelayIs DEF IrqInv, IrqTypes
  <2>4. ASSUME ~overtaken', NEW x \in Bits PROVE BitOK(x)'
    <3>1. Agrees(x, intreq_internal)
      BY <2>1, <2>2, <2>4 DEF IrqInv, BitOK, Settled, Coming
    <3> QED  BY <1>1, <2>1, <2>2, <3>1 DEF BitOK, Recent, Settled, Agrees
  <2> QED  BY <2>3, <2>4 DEF IrqInv
<1> QED  BY <1>2, <1>3

LEMMA IrqCycleKeeps ==
  ASSUME IrqInv, Irq!Cycle
  PROVE  IrqInv'
<1> DEFINE Later(e) == [e EXCEPT !.wait = @ - 1]
<1>1. /\ \A e \in events : e.wait > 0
      /\ events' = {Later(e) : e \in events}
      /\ age' = [bit \in Bits |-> IF age[bit] <= Delay THEN age[bit] + 1 ELSE age[bit]]
      /\ UNCHANGED <<mode, intreq, intreq_internal, overtaken>>
  BY DEF Irq!Cycle
<1>2. /\ events \in SUBSET IrqEvents /\ age \in [Bits -> 0 .. Delay + 1]
      /\ mode = "normal" => Snapshots = {}
  BY DEF IrqInv, IrqTypes
<1>3. ASSUME NEW e \in events
      PROVE  /\ Later(e) \in IrqEvents /\ Later(e).handler = e.handler /\ Later(e).data = e.data
             /\ Later(e).wait = e.wait - 1 /\ e.wait \in 1 .. Delay
  <2>1. e \in IrqEvents /\ e.wait > 0
    BY <1>1, <1>2
  <2>2. e.wait \in 1 .. Delay /\ e.wait - 1 \in 0 .. Delay
    BY <2>1, DelayIs DEF IrqEvents
  <2> QED  BY <2>1, <2>2 DEF IrqEvents
<1>4. ASSUME NEW x \in Snapshots' PROVE \E e \in Snapshots : x = Later(e)
  <2>1. x \in events' /\ x.handler = "intreq"
    BY <1>4 DEF Snapshots
  <2>2. PICK e \in events : x = Later(e)
    BY <1>1, <2>1
  <2>3. e.handler = "intreq"
    BY <1>3, <2>1, <2>2
  <2> QED  BY <2>2, <2>3 DEF Snapshots
<1>5. \A e \in Snapshots : e \in events /\ Later(e) \in Snapshots'
  BY <1>1, <1>3 DEF Snapshots
<1>6. events' \in SUBSET IrqEvents
  BY <1>1, <1>3
<1>7. IrqTypes'
  <2>1. age' \in [Bits -> 0 .. Delay + 1]
    BY <1>1, <1>2, DelayIs
  <2>2. mode' = "normal" => Snapshots' = {}
    BY <1>1, <1>2, <1>4
  <2> QED  BY <1>1, <1>6, <2>1, <2>2 DEF IrqInv, IrqTypes
<1>8. ASSUME ~overtaken', NEW bit \in Bits PROVE BitOK(bit)'
  <2>1. BitOK(bit) /\ age[bit] \in 0 .. Delay + 1
        /\ age'[bit] = IF age[bit] <= Delay THEN age[bit] + 1 ELSE age[bit]
    BY <1>1, <1>2, <1>8 DEF IrqInv
  <2>2. ASSUME NEW x \in Snapshots', x.wait + age'[bit] >= Delay PROVE Agrees(bit, x.data)'
    <3>1. PICK e \in Snapshots : x = Later(e)
      BY <1>4
    <3>2. x.wait = e.wait - 1 /\ x.data = e.data /\ e.wait \in 1 .. Delay
      BY <1>3, <1>5, <3>1
    <3>3. e.wait + age[bit] >= Delay
      BY <2>1, <2>2, <3>2, DelayIs
    <3>4. Agrees(bit, e.data)
      BY <2>1, <3>3 DEF BitOK, Recent
    <3> QED  BY <1>1, <3>2, <3>4 DEF Agrees
  <2>3. CASE Settled(bit)
    <3>1. ASSUME NEW x \in Snapshots' PROVE Agrees(bit, x.data)'
      <4>1. PICK e \in Snapshots : x = Later(e)
        BY <1>4
      <4> QED  BY <1>1, <1>3, <1>5, <2>3, <4>1 DEF Settled, Agrees
    <3>2. Agrees(bit, intreq_internal)'
      BY <1>1, <2>3 DEF Settled, Agrees
    <3> QED  BY <2>2, <3>1, <3>2 DEF BitOK, Recent, Settled
  <2>4. CASE Coming(bit)
    <3>1. PICK e \in Snapshots : e.wait + age[bit] = Delay
      BY <2>4 DEF Coming
    <3>2. Later(e) \in Snapshots' /\ Later(e).wait = e.wait - 1 /\ e.wait \in 1 .. Delay
      BY <1>3, <1>5
    <3>3. Later(e).wait + age'[bit] = Delay
      BY <2>1, <3>1, <3>2, DelayIs
    <3> QED  BY <2>2, <3>2, <3>3 DEF BitOK, Recent, Coming
  <2> QED  BY <2>1, <2>3, <2>4 DEF BitOK
<1> QED  BY <1>7, <1>8 DEF IrqInv

LEMMA FireKeeps ==
  ASSUME IrqInv, NEW e \in events, Irq!Fire(e)
  PROVE  IrqInv'
<1>1. e.wait = 0 /\ mode' = mode /\ e \in IrqEvents /\ e.data \in SUBSET Bits
      /\ events \ {e} \in SUBSET IrqEvents
  BY DEF Irq!Fire, IrqInv, IrqTypes, IrqEvents
<1>2. CASE e.handler # "intreq"
  <2>1. Irq!INTREQ_0(TRUE, e.data, events \ {e})
    BY <1>2 DEF Irq!Fire
  <2>2. {x \in events \ {e} : x.handler = "intreq"} = Snapshots
    BY <1>2 DEF Snapshots
  <2> QED  BY <1>1, <2>1, <2>2, Intreq0Keeps
<1>3. CASE e.handler = "intreq"
  <2>1. /\ intreq_internal' = e.data /\ events' = events \ {e}
        /\ UNCHANGED <<intreq, age, overtaken>>
    BY <1>3 DEF Irq!Fire
  <2>2. Snapshots' = Snapshots \ {e} /\ e \in Snapshots
    BY <1>3, <2>1 DEF Snapshots
  <2>3. IrqTypes'
    BY <1>1, <2>1, <2>2 DEF IrqInv, IrqTypes
  <2>4. ASSUME ~overtaken', NEW bit \in Bits PROVE BitOK(bit)'
    <3>1. BitOK(bit) /\ age[bit] \in 0 .. Delay + 1
      BY <2>1, <2>4 DEF IrqInv, IrqTypes
    <3>2. Recent(bit)'
      BY <2>1, <2>2, <3>1 DEF BitOK, Recent, Agrees
    <3>3. CASE Settled(bit)
      BY <2>1, <2>2, <3>2, <3>3 DEF BitOK, Settled, Agrees
    <3>4. CASE Coming(bit)
      <4>1. PICK w \in Snapshots : w.wait + age[bit] = Delay
        BY <3>4 DEF Coming
      <4>2. CASE w # e
        BY <2>1, <2>2, <3>2, <4>1, <4>2 DEF BitOK, Coming
      <4>3. CASE w = e
        <5>1. age[bit] = Delay
          BY <1>1, <3>1, <4>1, <4>3, DelayIs
        <5>2. \A x \in Snapshots : x.wait + age[bit] >= Delay
          BY <5>1, DelayIs DEF Snapshots, IrqInv, IrqTypes, IrqEvents
        <5>3. \A x \in Snapshots : Agrees(bit, x.data)
          BY <3>1, <5>2 DEF BitOK, Recent
        <5> QED  BY <2>1, <2>2, <3>2, <5>3 DEF BitOK, Settled, Agrees
      <4> QED  BY <4>2, <4>3
    <3> QED  BY <3>1, <3>3, <3>4 DEF BitOK
  <2> QED  BY <2>3, <2>4 DEF IrqInv
<1> QED  BY <1>2, <1>3

LEMMA IrqNextKeeps ==
  ASSUME IrqInv, [Next]_vars
  PROVE  IrqInv'
<1>1. CASE UNCHANGED intvars
  BY <1>1 DEF intvars, IrqInv, IrqTypes, BitOK, Recent, Settled, Coming, Agrees, Snapshots
<1>2. ASSUME NEW set \in BOOLEAN, NEW v \in SUBSET Bits, Irq!Write(set, v) PROVE IrqInv'
  <2>1. events \in SUBSET IrqEvents
    BY DEF IrqInv, IrqTypes
  <2> QED  BY <1>2, <2>1, Intreq0Keeps DEF Irq!Write, Snapshots
<1>3. CASE Irq!Next
  BY <1>2, <1>3, IntreqFKeeps, SendInterruptKeeps, IrqCycleKeeps, FireKeeps DEF Irq!Next
<1> QED  BY <1>1, <1>3 DEF Next, Intreq, Sana2, Timers, vars

LEMMA IrqInitIs == Init => IrqInv
<1> SUFFICES ASSUME Init PROVE IrqInv
  OBVIOUS
<1>1. /\ mode \in Irq!Modes /\ intreq = {} /\ intreq_internal = {} /\ events = {}
      /\ age = [bit \in Bits |-> 0] /\ overtaken = FALSE
  BY DEF Init, Irq!Init
<1>2. Snapshots = {}
  BY <1>1 DEF Snapshots
<1>3. IrqTypes
  <2>1. 0 \in 0 .. Delay + 1
    BY DelayIs
  <2>2. age \in [Bits -> 0 .. Delay + 1]
    BY <1>1, <2>1
  <2> QED  BY <1>1, <1>2, <2>2 DEF IrqTypes
<1>4. \A bit \in Bits : BitOK(bit)
  BY <1>1, <1>2 DEF BitOK, Recent, Settled, Agrees
<1> QED  BY <1>3, <1>4 DEF IrqInv

(* What the CPU sees of INTREQ is at most Delay cycles old, for any bits, any *)
(* delay and any number of slots.                                            *)
THEOREM CpuSeesInTime == Spec => []Seen
<1>1. IrqInv /\ [Next]_vars => IrqInv'
  BY IrqNextKeeps
<1>2. IrqInv => Seen
  <2> SUFFICES ASSUME IrqInv, NEW bit \in Bits, ~overtaken, age[bit] > Delay
               PROVE  bit \in intreq <=> bit \in intreq_internal
    BY DEF Seen, Irq!Seen
  <2>1. BitOK(bit) /\ age[bit] \in Int
    BY DelayIs DEF IrqInv, IrqTypes
  <2>2. ~Coming(bit)
    BY <2>1, DelayIs DEF Coming, Snapshots, IrqInv, IrqTypes, IrqEvents
  <2> QED  BY <2>1, <2>2 DEF BitOK, Settled, Agrees
<1> QED  BY IrqInitIs, <1>1, <1>2, PTL DEF Spec

-----------------------------------------------------------------------------
(* The timers of a CIA                                                       *)

Timer == [t : Nat, latch : Values, start : Nat, run : BOOLEAN, oneshot : BOOLEAN,
          in : {"phi2", "ta"}]
Counts(tm) == tm.run /\ tm.in = "phi2"
TimeLeft(tm) == tm.t + tm.start             \* E clocks before the one it underflows in

(* The event comes at the end of the E clock in which the first of the        *)
(* timers that count underflows.                                             *)
CiaInv ==
  /\ a \in Timer /\ b \in Timer
  /\ elapsed \in Nat /\ evtime \in Nat /\ div10 \in 0 .. DIV10 - 1
  /\ evtime = 0 => ~Counts(a) /\ ~Counts(b)
  /\ evtime # 0 =>
       /\ elapsed <= evtime
       /\ \A tm \in {a, b} : Counts(tm) => evtime + div10 <= DIV10 * (TimeLeft(tm) + 1)
       /\ \E tm \in {a, b} : Counts(tm) /\ evtime + div10 = DIV10 * (TimeLeft(tm) + 1)

LEMMA CiaConstants ==
  /\ Values \subseteq Nat /\ StartHi \in Nat /\ StartCr \in Nat /\ DIV10 \in Nat \ {0}
  /\ Cia!T!Highest \in Values
<1>1. \E highest \in Values : \A v \in Values : v <= highest
  BY PeripheralsAssumption DEF Cia!CiaAssumption
<1> QED  BY <1>1, PeripheralsAssumption DEF Cia!CiaAssumption, Cia!T!Highest

LEMMA DivIs ==
  ASSUME NEW n \in Nat \ {0}, NEW x \in Nat
  PROVE  /\ x \div n \in Nat /\ x % n \in 0 .. n - 1
         /\ \A m \in Nat : x < n * (m + 1) => x \div n <= m
         /\ \A m \in Nat : x = n * m => x \div n = m
         /\ (x + 1) \div n \in {x \div n, (x \div n) + 1}
<1>1. x \div n \in Nat /\ x % n \in 0 .. n - 1 /\ x = n * (x \div n) + (x % n)
  OBVIOUS
<1>2. ASSUME NEW m \in Nat, x < n * (m + 1) PROVE x \div n <= m
  <2>1. PICK q \in Nat : q = x \div n
    BY <1>1
  <2>2. n * q < n * (m + 1)
    BY <1>1, <1>2, <2>1
  <2>3. q < m + 1
    BY <2>2
  <2> QED  BY <2>1, <2>3
<1>3. ASSUME NEW m \in Nat, x = n * m PROVE x \div n = m
  <2>1. PICK q \in Nat : q = x \div n
    BY <1>1
  <2>2. q <= m
    <3>1. x < n * (m + 1)
      BY <1>3
    <3> QED  BY <1>2, <2>1, <3>1
  <2>3. n * m < n * (q + 1)
    BY <1>1, <1>3, <2>1
  <2>4. m < q + 1
    BY <2>3
  <2> QED  BY <2>1, <2>2, <2>4
<1>4. (x + 1) \div n \in {x \div n, (x \div n) + 1}
  <2>1. PICK q \in Nat, r \in 0 .. n - 1 : q = x \div n /\ x = n * q + r
    BY <1>1
  <2>2. PICK p \in Nat, s \in 0 .. n - 1 : p = (x + 1) \div n /\ x + 1 = n * p + s
    OBVIOUS
  <2>3. n * q < n * (p + 1) /\ n * p < n * (q + 2)
    BY <2>1, <2>2
  <2>4. q < p + 1 /\ p < q + 2
    BY <2>3
  <2> QED  BY <2>1, <2>2, <2>4
<1> QED  BY <1>1, <1>2, <1>3, <1>4

(* What CIA_update makes of a timer that counts cc E clocks.                 *)
CatchUp(tm, cc) ==
  [(IF Cia!Underflows(tm, cc) THEN Cia!T!Reload(tm) ELSE Cia!After(tm, cc))
     EXCEPT !.start = Cia!After(tm, cc).start]

LEMMA TimerIs ==
  ASSUME NEW tm \in Timer
  PROVE  /\ tm = [t |-> tm.t, latch |-> tm.latch, start |-> tm.start, run |-> tm.run,
                  oneshot |-> tm.oneshot, in |-> tm.in]
         /\ tm.t \in Nat /\ tm.latch \in Values /\ tm.latch \in Nat /\ tm.start \in Nat
         /\ tm.run \in BOOLEAN /\ tm.oneshot \in BOOLEAN /\ tm.in \in {"phi2", "ta"}
         /\ Counts(tm) \in BOOLEAN /\ TimeLeft(tm) \in Nat
<1>1. tm = [t |-> tm.t, latch |-> tm.latch, start |-> tm.start, run |-> tm.run,
            oneshot |-> tm.oneshot, in |-> tm.in]
  BY DEF Timer
<1>2. /\ tm.t \in Nat /\ tm.latch \in Values /\ tm.start \in Nat
      /\ tm.run \in BOOLEAN /\ tm.oneshot \in BOOLEAN /\ tm.in \in {"phi2", "ta"}
  BY DEF Timer
<1>3. tm.latch \in Nat
  BY <1>2, CiaConstants
<1>4. Counts(tm) \in BOOLEAN
  BY DEF Counts
<1>5. TimeLeft(tm) \in Nat
  BY <1>2 DEF TimeLeft
<1> QED  BY <1>1, <1>2, <1>3, <1>4, <1>5

LEMMA ReloadIs ==
  ASSUME NEW tm \in Timer
  PROVE  /\ Cia!T!Reload(tm) = [t |-> tm.latch, latch |-> tm.latch, start |-> tm.start,
                                run |-> tm.run /\ ~tm.oneshot, oneshot |-> tm.oneshot, in |-> tm.in]
         /\ Cia!T!Reload(tm) \in Timer
         /\ Cia!Ticks!Reload(tm) = Cia!T!Reload(tm)
         /\ Cia!T!Decrement(tm) = IF tm.t = 0 THEN Cia!T!Reload(tm) ELSE [tm EXCEPT !.t = tm.t - 1]
         /\ Cia!T!Decrement(tm) \in Timer
         /\ Cia!Ticks!Decrement(tm) = Cia!T!Decrement(tm)
<1>1. Cia!T!Reload(tm) = [t |-> tm.latch, latch |-> tm.latch, start |-> tm.start,
                          run |-> tm.run /\ ~tm.oneshot, oneshot |-> tm.oneshot, in |-> tm.in]
  <2>1. PICK on \in BOOLEAN : on <=> tm.run /\ ~tm.oneshot
    OBVIOUS
  <2>2. Cia!T!Reload(tm) = [tm EXCEPT !.t = tm.latch, !.run = tm.run /\ ~tm.oneshot]
    BY DEF Timer, Cia!T!Reload
  <2> QED  BY <2>2 DEF Timer
<1>2. Cia!T!Reload(tm) \in Timer
  BY <1>1, TimerIs DEF Timer
<1>3. Cia!Ticks!Reload(tm) = Cia!T!Reload(tm)
  BY DEF Cia!Ticks!Reload, Cia!T!Reload
<1>4. Cia!T!Decrement(tm) = IF tm.t = 0 THEN Cia!T!Reload(tm) ELSE [tm EXCEPT !.t = tm.t - 1]
  BY DEF Cia!T!Decrement, Timer
<1>5. tm.t # 0 => [tm EXCEPT !.t = tm.t - 1] \in Timer
  <2> SUFFICES ASSUME tm.t # 0 PROVE [tm EXCEPT !.t = tm.t - 1] \in Timer
    OBVIOUS
  <2>1. tm.t - 1 \in Nat
    BY TimerIs
  <2> QED  BY <2>1 DEF Timer
<1>6. Cia!Ticks!Decrement(tm) = Cia!T!Decrement(tm)
  BY <1>3 DEF Cia!Ticks!Decrement, Cia!T!Decrement
<1> QED  BY <1>1, <1>2, <1>3, <1>4, <1>5, <1>6

(* compute_passed_time before the underflow.                                 *)
LEMMA AfterIs ==
  ASSUME NEW tm \in Timer, NEW cc \in Nat
  PROVE  /\ ~Counts(tm) => Cia!After(tm, cc) = tm
         /\ Counts(tm) => Cia!After(tm, cc) =
              [t |-> IF cc > tm.start THEN tm.t - (cc - tm.start) ELSE tm.t,
               latch |-> tm.latch,
               start |-> IF cc > tm.start THEN 0 ELSE tm.start - cc,
               run |-> tm.run, oneshot |-> tm.oneshot, in |-> tm.in]
         /\ (Counts(tm) => cc <= TimeLeft(tm)) => Cia!After(tm, cc) \in Timer
         /\ Cia!Underflows(tm, cc) <=> Counts(tm) /\ cc > tm.start /\ tm.t + 1 = cc - tm.start
<1>1. Cia!T!Counting(tm) <=> Counts(tm)
  BY DEF Cia!T!Counting, Counts
<1>2. ~Counts(tm) => Cia!After(tm, cc) = tm
  BY <1>1 DEF Cia!After
<1>3. CASE Counts(tm) /\ cc > tm.start
  <2>1. Cia!After(tm, cc) = [tm EXCEPT !.t = tm.t - (cc - tm.start), !.start = 0]
    BY <1>1, <1>3 DEF Cia!After, Timer
  <2>2. Cia!After(tm, cc) = [t |-> tm.t - (cc - tm.start), latch |-> tm.latch, start |-> 0,
                             run |-> tm.run, oneshot |-> tm.oneshot, in |-> tm.in]
    BY <2>1 DEF Timer
  <2>3. cc <= TimeLeft(tm) => tm.t - (cc - tm.start) \in Nat
    BY <1>3, TimerIs DEF TimeLeft
  <2> QED  BY <1>1, <1>3, <2>2, <2>3, TimerIs DEF Timer, Cia!Underflows
<1>4. CASE Counts(tm) /\ ~(cc > tm.start)
  <2>1. Cia!After(tm, cc) = [tm EXCEPT !.start = tm.start - cc]
    BY <1>1, <1>4 DEF Cia!After, Timer
  <2>2. Cia!After(tm, cc) = [t |-> tm.t, latch |-> tm.latch, start |-> tm.start - cc,
                             run |-> tm.run, oneshot |-> tm.oneshot, in |-> tm.in]
    BY <2>1 DEF Timer
  <2>3. tm.start - cc \in Nat
    BY <1>4, TimerIs
  <2> QED  BY <1>1, <1>4, <2>2, <2>3, TimerIs DEF Timer, Cia!Underflows
<1> QED  BY <1>1, <1>2, <1>3, <1>4, TimerIs DEF Cia!Underflows

(* One E clock more is a tick of the timer, and nothing is caught up with     *)
(* before it underflows.                                                     *)
LEMMA AfterNext ==
  ASSUME NEW tm \in Timer, NEW cc \in Nat, NEW d \in Nat, d = cc + 1,
         Counts(tm) => cc <= TimeLeft(tm)
  PROVE  /\ CatchUp(tm, cc) = Cia!After(tm, cc) /\ ~Cia!Underflows(tm, cc)
         /\ CatchUp(tm, d) = Cia!Ticks!Clocked(Cia!After(tm, cc))
         /\ Cia!Underflows(tm, d) <=> Cia!Ticks!Underflows(Cia!After(tm, cc))
         /\ CatchUp(tm, d) \in Timer
         /\ Cia!After(tm, cc) \in Timer
<1> DEFINE x == Cia!After(tm, cc)
<1>1. x \in Timer
  BY AfterIs
<1>2. CASE ~Counts(tm)
  <2>1. /\ Cia!After(tm, cc) = tm /\ Cia!After(tm, d) = tm
        /\ ~Cia!Underflows(tm, cc) /\ ~Cia!Underflows(tm, d)
    BY <1>1, <1>2, AfterIs
  <2>2. CatchUp(tm, cc) = tm /\ CatchUp(tm, d) = tm
    BY <2>1 DEF CatchUp, Timer
  <2>3. Cia!Ticks!Clocked(tm) = tm /\ ~Cia!Ticks!Underflows(tm)
    BY <1>2 DEF Cia!Ticks!Clocked, Cia!Ticks!Underflows, Cia!Ticks!Counting, Counts
  <2> QED  BY <2>1, <2>2, <2>3
<1>3. CASE Counts(tm)
  <2>1. /\ cc <= tm.t + tm.start /\ tm.t \in Nat /\ tm.start \in Nat
        /\ Cia!T!Counting(tm) /\ tm.latch \in Nat
    BY <1>3, TimerIs DEF TimeLeft, Cia!T!Counting, Counts
  <2>2. /\ x = [t |-> IF cc > tm.start THEN tm.t - (cc - tm.start) ELSE tm.t,
                latch |-> tm.latch,
                start |-> IF cc > tm.start THEN 0 ELSE tm.start - cc,
                run |-> tm.run, oneshot |-> tm.oneshot, in |-> tm.in]
        /\ Counts(x)
    BY <1>3, AfterIs DEF Counts
  <2>3. ~Cia!Underflows(tm, cc)
    BY <2>1, AfterIs
  <2>4. CatchUp(tm, cc) = x
    BY <2>3, <1>1 DEF CatchUp, Timer
  <2>5. Cia!Ticks!Clocked(x) = IF x.start > 0 THEN [x EXCEPT !.start = x.start - 1]
                               ELSE Cia!T!Decrement(x)
    BY <1>1, <2>2, ReloadIs DEF Cia!Ticks!Clocked, Cia!Ticks!Counting, Counts, Timer
  <2>6. Cia!Ticks!Underflows(x) <=> x.start = 0 /\ x.t = 0
    BY <2>2 DEF Cia!Ticks!Underflows, Cia!Ticks!Counting, Counts
  <2>7. PICK y : y = Cia!After(tm, d)
    OBVIOUS
  <2>8. y = [t |-> IF d > tm.start THEN tm.t - (d - tm.start) ELSE tm.t,
             latch |-> tm.latch,
             start |-> IF d > tm.start THEN 0 ELSE tm.start - d,
             run |-> tm.run, oneshot |-> tm.oneshot, in |-> tm.in]
    BY <1>3, <2>7, AfterIs
  <2>9. Cia!Underflows(tm, d) <=> d > tm.start /\ tm.t + 1 = d - tm.start
    BY <1>3, AfterIs
  <2>10. CASE cc < tm.start
    <3>1. /\ y = [t |-> tm.t, latch |-> tm.latch, start |-> tm.start - d,
                  run |-> tm.run, oneshot |-> tm.oneshot, in |-> tm.in]
          /\ x = [t |-> tm.t, latch |-> tm.latch, start |-> tm.start - cc,
                  run |-> tm.run, oneshot |-> tm.oneshot, in |-> tm.in]
          /\ ~Cia!Underflows(tm, d)
      BY <2>1, <2>2, <2>8, <2>9, <2>10
    <3>2. x.start > 0 /\ x.start - 1 = tm.start - d /\ x.start - 1 \in Nat
      BY <2>1, <2>10, <3>1
    <3>3. Cia!Ticks!Clocked(x) = y /\ ~Cia!Ticks!Underflows(x)
      BY <2>5, <2>6, <3>1, <3>2
    <3>4. CatchUp(tm, d) = y
      BY <2>7, <3>1 DEF CatchUp
    <3>5. y \in Timer
      BY <3>1, <3>2, TimerIs DEF Timer
    <3> QED  BY <1>1, <2>3, <2>4, <3>1, <3>3, <3>4, <3>5
  <2>11. CASE cc >= tm.start /\ x.t # 0
    <3>1. /\ x = [t |-> tm.t - (cc - tm.start), latch |-> tm.latch, start |-> 0,
                  run |-> tm.run, oneshot |-> tm.oneshot, in |-> tm.in]
          /\ y = [t |-> tm.t - (d - tm.start), latch |-> tm.latch, start |-> 0,
                  run |-> tm.run, oneshot |-> tm.oneshot, in |-> tm.in]
      <4>1. tm.t - (cc - tm.start) = IF cc > tm.start THEN tm.t - (cc - tm.start) ELSE tm.t
        BY <2>1, <2>11
      <4>2. 0 = IF cc > tm.start THEN 0 ELSE tm.start - cc
        BY <2>1, <2>11
      <4>3. d > tm.start
        BY <2>1, <2>11
      <4> QED  BY <2>2, <2>8, <4>1, <4>2, <4>3
    <3>2. x.t = tm.t - (cc - tm.start) /\ x.t - 1 = tm.t - (d - tm.start) /\ x.t - 1 \in Nat
          /\ x.start = 0
      BY <2>1, <2>11, <3>1, <1>1, TimerIs
    <3>3. ~Cia!Underflows(tm, d)
      BY <2>1, <2>9, <3>2
    <3>4. Cia!Ticks!Clocked(x) = y /\ ~Cia!Ticks!Underflows(x)
      <4>1. Cia!Ticks!Clocked(x) = [x EXCEPT !.t = x.t - 1]
        BY <1>1, <2>5, <2>11, <3>2, ReloadIs
      <4>2. [x EXCEPT !.t = x.t - 1] = y
        BY <3>1, <3>2
      <4> QED  BY <2>6, <2>11, <4>1, <4>2
    <3>5. CatchUp(tm, d) = y
      BY <2>7, <3>1, <3>3 DEF CatchUp
    <3>6. y \in Timer
      BY <3>1, <3>2, TimerIs DEF Timer
    <3> QED  BY <1>1, <2>3, <2>4, <3>3, <3>4, <3>5, <3>6
  <2>12. CASE cc >= tm.start /\ x.t = 0
    <3>1. /\ x = [t |-> tm.t - (cc - tm.start), latch |-> tm.latch, start |-> 0,
                  run |-> tm.run, oneshot |-> tm.oneshot, in |-> tm.in]
          /\ y.start = 0
      <4>1. tm.t - (cc - tm.start) = IF cc > tm.start THEN tm.t - (cc - tm.start) ELSE tm.t
        BY <2>1, <2>12
      <4>2. 0 = IF cc > tm.start THEN 0 ELSE tm.start - cc
        BY <2>1, <2>12
      <4>3. d > tm.start
        BY <2>1, <2>12
      <4> QED  BY <2>2, <2>8, <4>1, <4>2, <4>3
    <3>2. tm.t - (cc - tm.start) = 0 /\ x.start = 0
      BY <2>12, <3>1
    <3>3. Cia!Underflows(tm, d)
      BY <2>1, <2>9, <2>12, <3>2
    <3>4. Cia!Ticks!Clocked(x) = Cia!T!Reload(x) /\ Cia!Ticks!Underflows(x)
      BY <1>1, <2>5, <2>6, <2>12, <3>2, ReloadIs
    <3>5. /\ Cia!T!Reload(x) = [t |-> tm.latch, latch |-> tm.latch, start |-> 0,
                                run |-> tm.run /\ ~tm.oneshot, oneshot |-> tm.oneshot, in |-> tm.in]
          /\ Cia!T!Reload(x) \in Timer
      BY <1>1, <3>1, ReloadIs
    <3>6. CatchUp(tm, d) = [Cia!T!Reload(tm) EXCEPT !.start = 0]
      BY <2>7, <3>1, <3>3 DEF CatchUp
    <3>7. CatchUp(tm, d) = Cia!T!Reload(x)
      BY SMTT(30), <3>5, <3>6, ReloadIs
    <3> QED  BY <1>1, <2>3, <2>4, <3>3, <3>4, <3>5, <3>7
  <2> QED  BY <2>1, <2>10, <2>11, <2>12
<1> QED  BY <1>2, <1>3

(* How far the counters are behind.                                          *)
LEMMA SeenIs ==
  ASSUME CiaInv
  PROVE  \E n \in Nat :
           /\ Cia!SeenClocks = n /\ Cia!Clocks = IF Cia!NoEvent THEN n ELSE n + 1
           /\ \A tm \in {a, b} : Counts(tm) => n <= TimeLeft(tm)
<1> DEFINE E == elapsed + div10
<1>1. /\ DIV10 \in Nat \ {0} /\ div10 \in 0 .. DIV10 - 1 /\ elapsed \in Nat /\ evtime \in Nat
      /\ a \in Timer /\ b \in Timer
  BY CiaConstants DEF CiaInv
<1>2. E \in Nat /\ Cia!Clocks = E \div DIV10 /\ E \div DIV10 \in Nat
  BY <1>1, DivIs DEF Cia!Clocks, Cia!Ccount
<1>3. CASE evtime = 0
  <2>1. Cia!NoEvent /\ Cia!SeenClocks = Cia!Clocks
    BY <1>2, <1>3 DEF Cia!NoEvent, Cia!SeenClocks
  <2> QED  BY <1>2, <1>3, <2>1 DEF CiaInv
<1>4. CASE evtime # 0 /\ elapsed < evtime
  <2>1. Cia!NoEvent /\ Cia!SeenClocks = Cia!Clocks
    BY <1>2, <1>4 DEF Cia!NoEvent, Cia!SeenClocks
  <2>2. ASSUME NEW tm \in {a, b}, Counts(tm) PROVE E \div DIV10 <= TimeLeft(tm)
    <3>1. PICK m \in Nat : m = TimeLeft(tm)
      BY <1>1, <2>2, TimerIs
    <3>2. evtime + div10 <= DIV10 * (m + 1)
      BY <1>4, <2>2, <3>1 DEF CiaInv
    <3>3. E < evtime + div10
      BY <1>1, <1>4
    <3>4. PICK p \in Int : p = DIV10 * (m + 1)
      BY <1>1
    <3>5. E < DIV10 * (m + 1)
      BY <1>1, <3>2, <3>3, <3>4
    <3> QED  BY <1>1, <1>2, <3>1, <3>5, DivIs
  <2> QED  BY <1>2, <2>1, <2>2
<1>5. CASE evtime # 0 /\ ~(elapsed < evtime)
  <2>1. evtime = elapsed
    BY <1>1, <1>5 DEF CiaInv
  <2>2. PICK w \in {a, b} : Counts(w) /\ E = DIV10 * (TimeLeft(w) + 1)
    BY <1>5, <2>1 DEF CiaInv
  <2>3. PICK n \in Nat : n = TimeLeft(w)
    BY <1>1, <2>2, TimerIs
  <2>4. PICK d \in Nat : d = n + 1
    OBVIOUS
  <2>5. Cia!Clocks = d
    BY ZenonT(30), <1>1, <1>2, <2>2, <2>3, <2>4, DivIs
  <2>6. ~Cia!NoEvent /\ Cia!SeenClocks = n
    BY <1>5, <2>4, <2>5 DEF Cia!NoEvent, Cia!SeenClocks
  <2>7. ASSUME NEW tm \in {a, b}, Counts(tm) PROVE n <= TimeLeft(tm)
    <3>1. PICK m \in Nat : m = TimeLeft(tm)
      BY <1>1, <2>7, TimerIs
    <3>2. DIV10 * (n + 1) <= DIV10 * (m + 1)
      BY <1>5, <2>1, <2>2, <2>3, <2>7, <3>1 DEF CiaInv
    <3>3. n + 1 <= m + 1
      BY <1>1, <3>2
    <3> QED  BY <3>1, <3>3
  <2> QED  BY <2>4, <2>5, <2>6, <2>7
<1> QED  BY <1>3, <1>4, <1>5

LEMMA DueIs ==
  ASSUME NEW tm \in Timer, NEW phase \in 0 .. DIV10 - 1
  PROVE  /\ Cia!Due(tm, phase) \in Nat \ {0}
         /\ Cia!Due(tm, phase) + phase = DIV10 * (TimeLeft(tm) + 1)
<1>1. PICK m \in Nat : m = TimeLeft(tm)
  BY TimerIs
<1>2. DIV10 \in Nat \ {0} /\ phase \in Nat /\ phase < DIV10
  BY CiaConstants
<1>3. Cia!Due(tm, phase) = (DIV10 - phase) + DIV10 * m
  BY <1>1 DEF Cia!Due, TimeLeft
<1>4. PICK p \in Nat : p = DIV10 * m
  BY <1>2
<1>5. DIV10 * (m + 1) = DIV10 * m + DIV10
  BY <1>2
<1> QED  BY <1>1, <1>2, <1>3, <1>4, <1>5

(* CIA_calctimers registers the event as CiaInv says.                        *)
LEMMA CalctimersKeeps ==
  ASSUME CiaInv, NEW ta \in Timer, NEW tb \in Timer, Cia!Calctimers(ta, tb)
  PROVE  CiaInv' /\ a' = ta /\ b' = tb /\ elapsed' = 0 /\ Cia!Clocks' = 0 /\ Cia!NoEvent'
<1>1. PICK phase : phase = Cia!Ccount % DIV10
  OBVIOUS
<1>2. phase \in 0 .. DIV10 - 1 /\ DIV10 \in Nat \ {0}
  BY <1>1, CiaConstants, DivIs DEF CiaInv, Cia!Ccount
<1>3. PICK times : times = {Cia!Due(tm, phase) : tm \in {x \in {ta, tb} : Cia!T!Counting(x)}}
  OBVIOUS
<1>4. /\ a' = ta /\ b' = tb /\ div10' = phase /\ elapsed' = 0
      /\ evtime' = IF times = {} THEN 0 ELSE Cia!First(times)
  BY <1>1, <1>3 DEF Cia!Calctimers
<1>5. \A t : t \in times <=> \E x \in {ta, tb} : Counts(x) /\ t = Cia!Due(x, phase)
  BY <1>3 DEF Cia!T!Counting, Counts
<1>6. \A x \in {ta, tb} : Cia!Due(x, phase) \in Nat \ {0}
  BY <1>2, DueIs
<1>7. (\A x \in {a', b'} : x = ta \/ x = tb) /\ elapsed' \in Nat /\ div10' \in 0 .. DIV10 - 1
  BY <1>2, <1>4
<1>8. Cia!Clocks' = 0
  <2>1. Cia!Clocks' = (elapsed' + div10') \div DIV10
    BY DEF Cia!Clocks, Cia!Ccount
  <2>2. elapsed' + div10' = phase /\ phase \in Nat /\ phase < DIV10 * (0 + 1)
    BY <1>2, <1>4
  <2>3. phase \div DIV10 <= 0 /\ phase \div DIV10 \in Nat
    BY <1>2, <2>2, DivIs
  <2>4. phase \div DIV10 = 0
    BY <2>3
  <2> QED  BY <2>1, <2>2, <2>4
<1>9. CASE times = {}
  <2>1. evtime' = 0 /\ ~Counts(ta) /\ ~Counts(tb)
    BY <1>4, <1>5, <1>9
  <2>2. Counts(a)' <=> Counts(ta)
    BY <1>4 DEF Counts
  <2>3. Counts(b)' <=> Counts(tb)
    BY <1>4 DEF Counts
  <2>4. Cia!NoEvent'
    BY <2>1 DEF Cia!NoEvent
  <2> QED  BY <1>4, <1>7, <1>8, <2>1, <2>2, <2>3, <2>4 DEF CiaInv
<1>10. CASE times # {}
  <2>1. \E t \in times : \A u \in times : t <= u
    <3>1. CASE Counts(ta) /\ Counts(tb) /\ Cia!Due(ta, phase) <= Cia!Due(tb, phase)
      <4>1. Cia!Due(ta, phase) \in times
        BY <1>5, <3>1
      <4>2. \A u \in times : Cia!Due(ta, phase) <= u
        BY <1>5, <1>6, <3>1
      <4> QED  BY <4>1, <4>2
    <3>2. CASE Counts(ta) /\ Counts(tb) /\ ~(Cia!Due(ta, phase) <= Cia!Due(tb, phase))
      <4>1. Cia!Due(tb, phase) \in times
        BY <1>5, <3>2
      <4>2. \A u \in times : Cia!Due(tb, phase) <= u
        BY <1>5, <1>6, <3>2
      <4> QED  BY <4>1, <4>2
    <3>3. CASE ~Counts(ta) \/ ~Counts(tb)
      <4>1. PICK t \in times : TRUE
        BY <1>10
      <4>2. \A u \in times : u = t /\ u \in Nat
        BY <1>5, <1>6, <3>3, <4>1
      <4> QED  BY <4>1, <4>2
    <3> QED  BY <3>1, <3>2, <3>3
  <2>2. Cia!First(times) \in times /\ \A u \in times : Cia!First(times) <= u
    BY <2>1 DEF Cia!First
  <2>3. evtime' \in times /\ (\A u \in times : evtime' <= u)
    BY <1>4, <1>10, <2>2
  <2>4. PICK w \in {ta, tb} : Counts(w) /\ evtime' = Cia!Due(w, phase)
    BY <1>5, <2>3
  <2>5. evtime' \in Nat \ {0} /\ evtime' + phase = DIV10 * (TimeLeft(w) + 1)
    BY <1>2, <2>4, DueIs
  <2>6. ASSUME NEW x \in {ta, tb}, Counts(x)
        PROVE  evtime' + phase <= DIV10 * (TimeLeft(x) + 1)
    <3>1. evtime' <= Cia!Due(x, phase) /\ Cia!Due(x, phase) \in Nat
      BY <1>5, <1>6, <2>3, <2>6
    <3>2. Cia!Due(x, phase) + phase = DIV10 * (TimeLeft(x) + 1)
      BY <1>2, <2>6, DueIs
    <3>3. evtime' + phase <= Cia!Due(x, phase) + phase
      BY <1>2, <2>5, <3>1
    <3> QED  BY <3>2, <3>3
  <2>7. Cia!NoEvent' /\ elapsed' <= evtime'
    BY <1>4, <2>5 DEF Cia!NoEvent
  <2>8. /\ \A tm \in {ta, tb} : Counts(tm) => evtime' + div10' <= DIV10 * (TimeLeft(tm) + 1)
        /\ \E tm \in {ta, tb} : Counts(tm) /\ evtime' + div10' = DIV10 * (TimeLeft(tm) + 1)
    BY <1>4, <2>4, <2>5, <2>6
  <2>9. /\ \A tm \in {a, b}' : Counts(tm) => evtime' + div10' <= DIV10 * (TimeLeft(tm) + 1)
        /\ \E tm \in {a, b}' : Counts(tm) /\ evtime' + div10' = DIV10 * (TimeLeft(tm) + 1)
    BY <1>4, <2>8
  <2>10. CiaInv'
    BY <1>4, <1>7, <2>5, <2>7, <2>9 DEF CiaInv, Counts, TimeLeft
  <2> QED  BY <1>4, <1>8, <2>7, <2>10
<1> QED  BY <1>9, <1>10

LEMMA WrittenAre ==
  ASSUME NEW tm \in Timer, NEW ins \in SUBSET {"phi2", "ta"}
  PROVE  /\ Cia!T!Written(tm, ins) \subseteq Timer
         /\ Cia!Ticks!Written(tm, ins) = Cia!T!Written(tm, ins)
<1>1. \A v \in Values : Cia!T!LatchLo(tm, v) \in Timer
  <2> SUFFICES ASSUME NEW v \in Values PROVE [tm EXCEPT !.latch = v] \in Timer
    BY DEF Cia!T!LatchLo
  <2> QED  BY DEF Timer
<1>2. \A v \in Values : Cia!T!LatchHi(tm, v) \in Timer
  <2> TAKE v \in Values
  <2>1. v \in Nat /\ StartHi \in Nat
    BY CiaConstants
  <2>2. PICK t \in Nat : t = IF ~tm.run \/ tm.oneshot THEN v ELSE tm.t
    BY <2>1, TimerIs
  <2>3. PICK run \in BOOLEAN : run <=> tm.run \/ tm.oneshot
    OBVIOUS
  <2>4. PICK start \in Nat : start = IF tm.oneshot THEN StartHi ELSE tm.start
    BY <2>1, TimerIs
  <2>5. Cia!T!LatchHi(tm, v) =
          [tm EXCEPT !.latch = v, !.t = t, !.run = tm.run \/ tm.oneshot, !.start = start]
    BY <2>2, <2>4 DEF Cia!T!LatchHi, Timer
  <2> QED  BY <2>5 DEF Timer
<1>3. \A run, oneshot, load \in BOOLEAN, in \in ins : Cia!T!Control(tm, run, oneshot, in, load) \in Timer
  <2> TAKE run, oneshot, load \in BOOLEAN, in \in ins
  <2>1. PICK t \in Nat : t = IF load THEN tm.latch ELSE tm.t
    BY TimerIs
  <2>2. PICK start \in Nat : start = IF run /\ ~tm.run THEN StartCr ELSE tm.start
    BY CiaConstants, TimerIs
  <2>3. Cia!T!Control(tm, run, oneshot, in, load) =
          [tm EXCEPT !.run = run, !.oneshot = oneshot, !.in = in, !.start = start, !.t = t]
    BY <2>1, <2>2 DEF Cia!T!Control, Timer
  <2> QED  BY <2>3 DEF Timer
<1>4. /\ \A v : Cia!T!LatchLo(tm, v) = Cia!Ticks!LatchLo(tm, v)
      /\ \A v : Cia!T!LatchHi(tm, v) = Cia!Ticks!LatchHi(tm, v)
      /\ \A run, oneshot, load, in :
           Cia!T!Control(tm, run, oneshot, in, load) = Cia!Ticks!Control(tm, run, oneshot, in, load)
  BY DEF Cia!T!LatchLo, Cia!Ticks!LatchLo, Cia!T!LatchHi, Cia!Ticks!LatchHi, Cia!T!Control,
         Cia!Ticks!Control
<1>5. Cia!T!Written(tm, ins) \subseteq Timer
  BY <1>1, <1>2, <1>3 DEF Cia!T!Written
<1>6. Cia!Ticks!Written(tm, ins) = Cia!T!Written(tm, ins)
  BY <1>4 DEF Cia!T!Written, Cia!Ticks!Written
<1> QED  BY <1>5, <1>6

(* The timers that a program reads.                                          *)
SeenA == Cia!After(a, Cia!SeenClocks)
SeenB == Cia!After(b, Cia!SeenClocks)

(* CIA_update before the event: nothing underflows.                          *)
LEMMA CaughtEarly ==
  ASSUME CiaInv, Cia!NoEvent
  PROVE  /\ Cia!CaughtA = SeenA /\ Cia!CaughtB = SeenB
         /\ SeenA \in Timer /\ SeenB \in Timer /\ Cia!Overflowed = {}
<1>1. PICK n \in Nat :
        /\ Cia!SeenClocks = n /\ Cia!Clocks = n
        /\ \A tm \in {a, b} : Counts(tm) => n <= TimeLeft(tm)
  BY SeenIs
<1>2. a \in Timer /\ b \in Timer
  BY DEF CiaInv
<1>3. PICK d \in Nat : d = n + 1
  OBVIOUS
<1>4. /\ CatchUp(a, n) = Cia!After(a, n) /\ ~Cia!Underflows(a, n) /\ Cia!After(a, n) \in Timer
      /\ CatchUp(b, n) = Cia!After(b, n) /\ ~Cia!Underflows(b, n) /\ Cia!After(b, n) \in Timer
  BY <1>1, <1>2, <1>3, AfterNext
<1>5. ~Cia!Cascade(a, b)
  BY <1>1, <1>4 DEF Cia!Cascade
<1>6. Cia!CaughtA = CatchUp(a, n) /\ Cia!CaughtB = CatchUp(b, n)
  BY <1>1, <1>5 DEF Cia!CaughtA, Cia!CaughtB, Cia!Caught, CatchUp
<1>7. Cia!Overflowed = {}
  BY <1>1, <1>4, <1>5 DEF Cia!Overflowed
<1> QED  BY <1>1, <1>4, <1>6, <1>7 DEF SeenA, SeenB

(* CIA_update at the event is a tick of the timers.                          *)
LEMMA CaughtInTime ==
  ASSUME CiaInv, ~Cia!NoEvent
  PROVE  /\ Cia!CaughtA = Cia!Ticks!Clocked(SeenA)
         /\ Cia!CaughtB = IF Cia!Ticks!Underflows(SeenA) /\ SeenB.run /\ SeenB.in = "ta"
                          THEN Cia!Ticks!Decrement(SeenB) ELSE Cia!Ticks!Clocked(SeenB)
         /\ Cia!CaughtA \in Timer /\ Cia!CaughtB \in Timer
         /\ Cia!Overflowed =
              {x \in {"ta"} : Cia!Ticks!Underflows(SeenA)}
                \cup {x \in {"tb"} :
                        \/ Cia!Ticks!Underflows(SeenB)
                        \/ /\ Cia!Ticks!Underflows(SeenA) /\ SeenB.run /\ SeenB.in = "ta"
                           /\ SeenB.t = 0}
<1>1. PICK n \in Nat :
        /\ Cia!SeenClocks = n /\ Cia!Clocks = n + 1
        /\ \A tm \in {a, b} : Counts(tm) => n <= TimeLeft(tm)
  BY SeenIs
<1>2. a \in Timer /\ b \in Timer
  BY DEF CiaInv
<1>3. PICK d \in Nat : d = n + 1
  OBVIOUS
<1>4. /\ CatchUp(a, d) = Cia!Ticks!Clocked(SeenA) /\ CatchUp(b, d) = Cia!Ticks!Clocked(SeenB)
      /\ Cia!Underflows(a, d) <=> Cia!Ticks!Underflows(SeenA)
      /\ Cia!Underflows(b, d) <=> Cia!Ticks!Underflows(SeenB)
      /\ CatchUp(a, d) \in Timer /\ CatchUp(b, d) \in Timer
  BY <1>1, <1>2, <1>3, AfterNext DEF SeenA, SeenB
<1>5. Cia!Clocks = d
  BY <1>1, <1>3
<1>6. b.run /\ b.in = "ta" <=> SeenB.run /\ SeenB.in = "ta"
  BY <1>1, <1>2, AfterIs DEF SeenB, Counts
<1>7. b.in = "ta" => SeenB = b
  BY <1>1, <1>2, AfterIs DEF SeenB, Counts
<1>8. Cia!CaughtA = CatchUp(a, d)
  BY <1>5 DEF Cia!CaughtA, Cia!Caught, CatchUp
<1>9. Cia!Cascade(a, b) <=> Cia!Ticks!Underflows(SeenA) /\ SeenB.run /\ SeenB.in = "ta"
  BY <1>4, <1>5, <1>6 DEF Cia!Cascade
<1>10. ~Cia!Cascade(a, b) => Cia!CaughtB = CatchUp(b, d)
  BY <1>5 DEF Cia!CaughtB, Cia!Caught, CatchUp
<1>11. Cia!Cascade(a, b) => /\ Cia!CaughtB = Cia!Ticks!Decrement(SeenB) /\ Cia!CaughtB \in Timer
                            /\ SeenB.t = b.t
  <2> SUFFICES ASSUME Cia!Cascade(a, b)
               PROVE  /\ Cia!CaughtB = Cia!Ticks!Decrement(SeenB) /\ Cia!CaughtB \in Timer
                      /\ SeenB.t = b.t
    OBVIOUS
  <2>1. SeenB = b /\ Cia!CaughtB = Cia!T!Decrement(b)
    BY <1>7 DEF Cia!Cascade, Cia!CaughtB
  <2> QED  BY <1>2, <2>1, ReloadIs
<1>12. Cia!Overflowed =
         {x \in {"ta"} : Cia!Underflows(a, d)}
           \cup {x \in {"tb"} : Cia!Underflows(b, d) \/ (Cia!Cascade(a, b) /\ b.t = 0)}
  BY <1>5 DEF Cia!Overflowed
<1>13. Cia!Overflowed =
         {x \in {"ta"} : Cia!Ticks!Underflows(SeenA)}
           \cup {x \in {"tb"} : Cia!Ticks!Underflows(SeenB) \/ (Cia!Cascade(a, b) /\ SeenB.t = 0)}
  BY <1>4, <1>11, <1>12
<1> QED  BY <1>4, <1>8, <1>9, <1>10, <1>11, <1>13

LEMMA CaughtAre ==
  ASSUME CiaInv
  PROVE  Cia!CaughtA \in Timer /\ Cia!CaughtB \in Timer
BY CaughtEarly, CaughtInTime

LEMMA CiaCycleKeeps ==
  ASSUME CiaInv, Cia!Cycle
  PROVE  CiaInv'
<1>1. elapsed' \in Nat
  BY CiaConstants, DivIs DEF CiaInv, Cia!Cycle
<1>2. evtime # 0 => elapsed' <= evtime
  BY DEF CiaInv, Cia!Cycle
<1>3. a' = a /\ b' = b /\ evtime' = evtime /\ div10' = div10
  BY DEF Cia!Cycle
<1> QED  BY <1>1, <1>2, <1>3 DEF CiaInv, Counts, TimeLeft

LEMMA CiaNextKeeps ==
  ASSUME CiaInv, [Next]_vars
  PROVE  CiaInv'
<1>1. CASE UNCHANGED ciavars
  BY <1>1 DEF ciavars, CiaInv, Counts, TimeLeft
<1>2. CASE Cia!Handler
  BY <1>2, CaughtAre, CalctimersKeeps DEF Cia!Handler
<1>3. CASE Cia!Write
  <2>1. /\ Cia!T!Written(Cia!CaughtA, {"phi2"}) \subseteq Timer
        /\ Cia!T!Written(Cia!CaughtB, {"phi2", "ta"}) \subseteq Timer
    BY CaughtAre, WrittenAre
  <2> QED  BY <1>3, <2>1, CaughtAre, CalctimersKeeps DEF Cia!Write
<1>4. CASE Cia!ReadICR
  BY <1>4 DEF Cia!ReadICR, CiaInv, Counts, TimeLeft
<1> QED  BY <1>1, <1>2, <1>3, <1>4, CiaCycleKeeps DEF Next, Intreq, Sana2, Timers, vars, Cia!Next

LEMMA CiaInitIs == Init => CiaInv /\ SeenA = a /\ SeenB = b /\ a = Cia!T!Stopped /\ b = a /\ icr = {}
<1> SUFFICES ASSUME Init
             PROVE  CiaInv /\ SeenA = a /\ SeenB = b /\ a = Cia!T!Stopped /\ b = a /\ icr = {}
  OBVIOUS
<1>1. /\ a = Cia!T!Stopped /\ b = Cia!T!Stopped /\ icr = {}
      /\ elapsed = 0 /\ evtime = 0 /\ div10 = 0
  BY DEF Init, Cia!Init, Cia!T!Init
<1>2. Cia!T!Stopped \in Timer /\ ~Counts(Cia!T!Stopped)
  BY CiaConstants DEF Cia!T!Stopped, Timer, Counts
<1>3. CiaInv
  BY <1>1, <1>2, CiaConstants DEF CiaInv
<1>4. PICK n \in Nat : Cia!SeenClocks = n
  BY <1>3, SeenIs
<1> QED  BY <1>1, <1>2, <1>3, <1>4, AfterIs DEF SeenA, SeenB

(* The assertions of compute_passed_time and CIA_update_check hold, for any   *)
(* values of the latches and any length of an E clock.                       *)
THEOREM EventIsInTime == Spec => []Asserted
<1>1. CiaInv /\ [Next]_vars => CiaInv'
  BY CiaNextKeeps
<1>2. CiaInv => Asserted
  <2> SUFFICES ASSUME CiaInv, NEW tm \in {a, b}, Cia!T!Counting(tm), Cia!Clocks > tm.start
               PROVE  tm.t + 1 >= Cia!Clocks - tm.start
    BY DEF Asserted, Cia!Asserted
  <2>1. PICK n \in Nat : /\ Cia!Clocks = IF Cia!NoEvent THEN n ELSE n + 1
                         /\ Counts(tm) => n <= TimeLeft(tm)
    BY SeenIs
  <2>2. n <= tm.t + tm.start /\ tm.t \in Nat /\ tm.start \in Nat
    BY <2>1, TimerIs DEF CiaInv, Counts, TimeLeft, Cia!T!Counting
  <2> QED  BY <2>1, <2>2
<1>3. Init => CiaInv
  BY CiaInitIs
<1> QED  BY <1>1, <1>2, <1>3, PTL DEF Spec

(* A timer that has counted nothing yet.                                     *)
LEMMA AtOnce ==
  ASSUME NEW tm \in Timer
  PROVE  Cia!After(tm, 0) = tm
<1>1. tm.start \in Nat /\ ~(0 > tm.start) /\ tm.start - 0 = tm.start
  BY TimerIs
<1> QED  BY <1>1, AfterIs, TimerIs

LEMMA AfterCalctimers ==
  ASSUME CiaInv, NEW ta \in Timer, NEW tb \in Timer, Cia!Calctimers(ta, tb)
  PROVE  SeenA' = ta /\ SeenB' = tb
<1>1. /\ CiaInv' /\ a' = ta /\ b' = tb /\ elapsed' = 0 /\ Cia!Clocks' = 0 /\ Cia!NoEvent'
  BY CalctimersKeeps
<1>2. Cia!SeenClocks' = 0
  <2>1. Cia!SeenClocks' = Cia!Clocks' - IF Cia!NoEvent' THEN 0 ELSE 1
    BY DEF Cia!SeenClocks
  <2>2. PICK x \in Int : x = IF Cia!NoEvent' THEN 0 ELSE 1
    OBVIOUS
  <2>3. x = 0
    BY <1>1, <2>2
  <2>4. PICK c \in Int : c = Cia!Clocks' /\ c = 0
    BY <1>1
  <2>5. c - x = 0
    BY <2>3, <2>4
  <2> QED  BY <2>1, <2>2, <2>4, <2>5
<1>3. SeenA' = Cia!After(ta, 0) /\ SeenB' = Cia!After(tb, 0)
  BY <1>1, <1>2 DEF SeenA, SeenB, Cia!After
<1> QED  BY <1>3, AtOnce

Behind ==
  \E n \in Nat :
    /\ Cia!SeenClocks = n /\ Cia!Clocks = IF Cia!NoEvent THEN n ELSE n + 1
    /\ \A tm \in {a, b} : Counts(tm) => n <= TimeLeft(tm)

LEMMA BehindIs == CiaInv => Behind
BY SeenIs DEF Behind

LEMMA CycleTicks ==
  ASSUME CiaInv, Cia!Cycle
  PROVE  UNCHANGED <<SeenA, SeenB, icr>> \/ Cia!Ticks!Tick
<1>1. /\ a' = a /\ b' = b /\ icr' = icr /\ evtime' = evtime /\ div10' = div10
      /\ evtime # 0 => elapsed' = elapsed + 1 /\ elapsed < evtime
  BY DEF Cia!Cycle
<1>2. CiaInv' /\ a \in Timer /\ b \in Timer /\ Cia!NoEvent
  BY CiaCycleKeeps DEF CiaInv, Cia!Cycle, Cia!NoEvent
<1>3. PICK n \in Nat :
        /\ Cia!SeenClocks = n /\ Cia!Clocks = n
        /\ \A tm \in {a, b} : Counts(tm) => n <= TimeLeft(tm)
  BY <1>2, SeenIs
<1>4. PICK m \in Nat :
        /\ Cia!SeenClocks' = m /\ Cia!Clocks' = IF Cia!NoEvent' THEN m ELSE m + 1
        /\ \A tm \in {a, b} : Counts(tm) => m <= TimeLeft(tm)
  <2>1. (CiaInv => Behind)'
    BY BehindIs, PTL
  <2> QED  BY <1>1, <1>2, <2>1 DEF Behind, Counts, TimeLeft
<1>5. /\ SeenA = Cia!After(a, n) /\ SeenB = Cia!After(b, n)
      /\ SeenA' = Cia!After(a, m) /\ SeenB' = Cia!After(b, m)
  BY <1>1, <1>3, <1>4 DEF SeenA, SeenB, Cia!After
<1>6. CASE evtime = 0
  <2>1. ~Counts(a) /\ ~Counts(b)
    BY <1>6 DEF CiaInv
  <2>2. SeenA = a /\ SeenB = b /\ SeenA' = a /\ SeenB' = b
    BY <1>2, <1>5, <2>1, AfterIs
  <2> QED  BY <1>1, <2>2
<1>7. CASE evtime # 0
  <2>1. PICK e \in Nat : e = elapsed + div10 /\ elapsed' + div10' = e + 1
    BY <1>1, <1>7, CiaConstants DEF CiaInv
  <2>2. Cia!Clocks = e \div DIV10 /\ Cia!Clocks' = (e + 1) \div DIV10
    BY <2>1 DEF Cia!Clocks, Cia!Ccount
  <2>3. Cia!Clocks' \in {n, n + 1}
    BY SMTT(30), <1>3, <2>2, CiaConstants, DivIs
  <2>4. CASE m = n
    BY <1>1, <1>5, <2>4
  <2>5. CASE m # n
    <3>1. m = n + 1 /\ Cia!NoEvent'
      <4>1. CASE Cia!NoEvent'
        BY <1>4, <2>3, <2>5, <4>1
      <4>2. CASE ~Cia!NoEvent'
        <5>1. m + 1 = n
          BY <1>4, <2>3, <2>5, <4>2
        <5>2. PICK tm \in {a, b} : Counts(tm) /\ evtime + div10 = DIV10 * (TimeLeft(tm) + 1)
          BY <1>7 DEF CiaInv
        <5>3. PICK l \in Nat : l = TimeLeft(tm)
          BY <1>2, TimerIs
        <5>4. elapsed' = evtime
          BY <1>1, <1>2, <1>7, <4>2 DEF Cia!NoEvent, CiaInv
        <5>5. PICK k \in Nat : k = l + 1
          OBVIOUS
        <5>6. e + 1 = DIV10 * k /\ e + 1 \in Nat
          BY <1>1, <2>1, <5>2, <5>3, <5>4, <5>5
        <5>7. Cia!Clocks' = k
          BY <2>2, <5>6, CiaConstants, DivIs
        <5>8. m = l /\ n <= l
          BY <1>3, <1>4, <4>2, <5>2, <5>3, <5>5, <5>7
        <5> QED  BY <5>1, <5>8
      <4> QED  BY <4>1, <4>2
    <3>2. /\ CatchUp(a, m) = Cia!Ticks!Clocked(SeenA) /\ CatchUp(b, m) = Cia!Ticks!Clocked(SeenB)
          /\ Cia!Underflows(a, m) <=> Cia!Ticks!Underflows(SeenA)
          /\ Cia!Underflows(b, m) <=> Cia!Ticks!Underflows(SeenB)
      BY <1>2, <1>3, <1>5, <3>1, AfterNext
    <3>3. PICK d \in Nat : d = m + 1
      OBVIOUS
    <3>4. /\ CatchUp(a, m) = SeenA' /\ CatchUp(b, m) = SeenB'
          /\ ~Cia!Underflows(a, m) /\ ~Cia!Underflows(b, m)
      BY <1>2, <1>4, <1>5, <3>3, AfterNext
    <3> QED  BY <1>1, <3>2, <3>4 DEF Cia!Ticks!Tick, SeenA, SeenB
  <2> QED  BY <2>4, <2>5
<1> QED  BY <1>6, <1>7

LEMMA CiaNextTicks ==
  ASSUME CiaInv, [Next]_vars
  PROVE  [Cia!Ticks!Next]_(Cia!Ticks!vars)
<1>1. Cia!Ticks!vars = <<SeenA, SeenB, icr>>
  BY DEF Cia!Ticks!vars, SeenA, SeenB
<1>2. CASE UNCHANGED ciavars
  BY <1>1, <1>2 DEF ciavars, Cia!Ticks!vars, Cia!After, Cia!SeenClocks, Cia!Clocks, Cia!Ccount,
                    Cia!NoEvent, SeenA, SeenB
<1>3. CASE Cia!Cycle
  BY <1>1, <1>3, CycleTicks DEF Cia!Ticks!Next, Cia!Ticks!vars, SeenA, SeenB
<1>4. CASE Cia!Handler
  <2>1. /\ SeenA' = Cia!CaughtA /\ SeenB' = Cia!CaughtB /\ icr' = icr \cup Cia!Overflowed
    BY <1>4, CaughtAre, AfterCalctimers DEF Cia!Handler
  <2>2. CASE Cia!NoEvent
    BY <1>1, <2>1, <2>2, CaughtEarly DEF Cia!Ticks!vars, SeenA, SeenB
  <2>3. CASE ~Cia!NoEvent
    <3>1. Cia!Ticks!Tick
      BY <2>1, <2>3, CaughtInTime DEF Cia!Ticks!Tick, SeenA, SeenB
    <3> QED  BY <3>1 DEF Cia!Ticks!Next
  <2> QED  BY <2>2, <2>3
<1>5. CASE Cia!Write
  <2>1. /\ Cia!CaughtA = SeenA /\ Cia!CaughtB = SeenB /\ SeenA \in Timer /\ SeenB \in Timer
        /\ icr' = icr
    BY <1>5, CaughtEarly DEF Cia!Write
  <2>2. /\ Cia!T!Written(SeenA, {"phi2"}) \subseteq Timer
        /\ Cia!T!Written(SeenB, {"phi2", "ta"}) \subseteq Timer
        /\ Cia!Ticks!Written(SeenA, {"phi2"}) = Cia!T!Written(SeenA, {"phi2"})
        /\ Cia!Ticks!Written(SeenB, {"phi2", "ta"}) = Cia!T!Written(SeenB, {"phi2", "ta"})
    BY <2>1, WrittenAre
  <2>3. CASE \E ta \in Cia!T!Written(Cia!CaughtA, {"phi2"}) : Cia!Calctimers(ta, Cia!CaughtB)
    <3>1. SeenA' \in Cia!Ticks!Written(SeenA, {"phi2"}) /\ SeenB' = SeenB
      BY <2>1, <2>2, <2>3, AfterCalctimers
    <3> QED  BY <2>1, <3>1 DEF Cia!Ticks!Next, Cia!Ticks!Write, SeenA, SeenB
  <2>4. CASE \E tb \in Cia!T!Written(Cia!CaughtB, {"phi2", "ta"}) : Cia!Calctimers(Cia!CaughtA, tb)
    <3>1. SeenB' \in Cia!Ticks!Written(SeenB, {"phi2", "ta"}) /\ SeenA' = SeenA
      BY <2>1, <2>2, <2>4, AfterCalctimers
    <3> QED  BY <2>1, <3>1 DEF Cia!Ticks!Next, Cia!Ticks!Write, SeenA, SeenB
  <2> QED  BY <1>5, <2>3, <2>4 DEF Cia!Write
<1>6. CASE Cia!ReadICR
  <2>1. icr' = {} /\ UNCHANGED <<a, b, elapsed, div10, evtime>>
    BY <1>6 DEF Cia!ReadICR
  <2>2. SeenA' = SeenA /\ SeenB' = SeenB
    BY <2>1 DEF Cia!After, Cia!SeenClocks, Cia!Clocks, Cia!Ccount, Cia!NoEvent, SeenA, SeenB
  <2> QED  BY <2>1, <2>2 DEF Cia!Ticks!Next, Cia!Ticks!ReadICR, SeenA, SeenB
<1> QED  BY <1>2, <1>3, <1>4, <1>5, <1>6 DEF Next, Intreq, Sana2, Timers, vars, Cia!Next

(* The lazy timers implement CiaTicks: reading them at any time shows every   *)
(* E clock counted, and each underflow noted in its own E clock.             *)
THEOREM TimersImplementTicks == Spec => TimersTick
<1>1. Init => CiaInv /\ Cia!Ticks!Init
  BY CiaInitIs DEF Cia!Ticks!Init, Cia!Ticks!Stopped, Cia!T!Stopped, Cia!Ticks!Highest,
                   Cia!T!Highest, SeenA, SeenB
<1>2. CiaInv /\ [Next]_vars => CiaInv'
  BY CiaNextKeeps
<1>3. CiaInv /\ [Next]_vars => [Cia!Ticks!Next]_(Cia!Ticks!vars)
  BY CiaNextTicks
<1> QED  BY <1>1, <1>2, <1>3, PTL DEF Spec, TimersTick, Cia!TimersTick, Cia!Ticks!Spec

-----------------------------------------------------------------------------
(* The requests of the network device                                        *)

InPipe(r) == \E i \in DOMAIN requests : requests[i] = r
Ahead(r, f) == \E i, j \in DOMAIN requests : i < j /\ requests[i] = r /\ requests[j] = f
Queued(r) == InPipe(r) \/ calling = r \/ r \in lock.todo      \* or about to be queued
With(r, places) == thread.at \in places /\ thread.req = r
Early == {"get", "do", "add"}
Held(r) == ar[r] # "no" /\ ~With(r, {"release"})       \* in dev->ar, and to stay there

S2Types ==
  /\ command \in [Requests -> S2!Commands] /\ sent \subseteq Requests
  /\ s2p \in [Requests -> Seq({"unsent", "sent"})]
  /\ ar \in [Requests -> {"no", "waiting", "ready"}]
  /\ lock.todo \subseteq Requests /\ (lock.by = "nobody" => lock.todo = {})
  /\ requests \in Seq(Requests)
  /\ \/ thread \in {S2!At("read", None), S2!At("trigger", None)}
     \/ \E r \in Requests, place \in Early \cup {"reply", "release", "remove"} :
          thread = S2!At(place, r)
  /\ calling \in Requests \cup {None}
  /\ before \in [Requests -> SUBSET Requests]

(* A packet that was sent is the first of its request, and the request is     *)
(* ready or the thread is about to remove the packet.                        *)
WireOK ==
  \A r \in Requests :
    /\ With(r, {"do", "add", "remove"}) => ar[r] = "no"
    /\ \A i \in DOMAIN s2p[r] :
         s2p[r][i] = "sent" => i = 1 /\ (ar[r] = "ready" \/ With(r, {"remove"}))

(* What the thread has nobody else has.                                      *)
ThreadOK ==
  \A r \in Requests :
    /\ With(r, Early) => r \in sent
    /\ With(r, {"get"}) /\ ar[r] = "waiting" => command[r] \in {"read", "flush"}
    /\ With(r, {"reply"}) => r \in sent /\ ar[r] = "ready"
    /\ With(r, {"release"}) => ar[r] # "waiting"

(* No request is queued twice, and one that is queued is nowhere else.        *)
PipeOK ==
  /\ \A i, j \in DOMAIN requests : requests[i] = requests[j] => i = j
  /\ calling \notin lock.todo
  /\ \A r \in Requests :
       /\ InPipe(r) => r # calling /\ r \notin lock.todo
       /\ r \in lock.todo => Held(r)
       /\ Queued(r) =>
            /\ r \in sent /\ ~With(r, Early) /\ ~With(r, {"reply"})
            /\ ar[r] = "waiting" => command[r] \in {"read", "flush"}
SentOK ==
  \A r \in Requests :
    /\ Held(r) => r \in sent
    /\ r \in sent => Held(r) \/ Queued(r) \/ With(r, Early)

(* What was sent before a flush is in the list, or the flush is still on its  *)
(* way behind it; a flush that is to be answered waits for nothing.          *)
Follows(f, r) ==
  \/ Ahead(r, f)
  \/ calling = f /\ InPipe(r)
  \/ (InPipe(f) \/ calling = f) /\ With(r, Early)
BeforeOK ==
  \A f \in Requests :
    /\ before[f] # {} => command[f] = "flush"
    /\ \A r \in before[f] :
         r # f /\ r \in sent /\ (Held(r) \/ (ar[f] # "waiting" /\ Follows(f, r)))
    /\ Held(f) /\ (Queued(f) \/ With(f, {"get"}) \/ With(f, {"reply"})) => before[f] = {}

OrderOK == ThreadOK /\ PipeOK /\ SentOK /\ BeforeOK
S2Inv == S2Types /\ WireOK /\ (~late => OrderOK)

LEMMA S2Constants ==
  /\ None \notin Requests /\ IsFiniteSet(Requests)
  /\ S2!Commands = {"query", "read", "write", "flush"}
BY PeripheralsAssumption DEF S2!Sana2Assumption, S2!Commands, S2!IsFiniteSet, IsFiniteSet

LEMMA S2Steps ==
  ASSUME [Next]_vars
  PROVE  \/ UNCHANGED s2vars
         \/ S2!Called \/ S2!Nothing \/ S2!Awake
         \/ S2!Read \/ S2!Get \/ S2!Reply \/ S2!Release \/ S2!RemPacket
         \/ S2!Flush \/ S2!Async \/ S2!Add \/ S2!Trigger
         \/ \E r \in Requests :
              \/ S2!BeginIO(r) \/ S2!AbortIO(r) \/ S2!GotPacket(r) \/ S2!FlushDone(r)
              \/ S2!FlushTimeout(r) \/ S2!Push(r) \/ S2!Transmit(r)
<1>1. CASE S2!Next
  BY <1>1 DEF S2!Next, S2!Emulation, S2!DevThread
<1>2. CASE ~S2!Next
  BY <1>2 DEF Next, Sana2, Timers, Intreq, vars
<1> QED  BY <1>1, <1>2

(* async_sem is held for what is to be queued.                               *)
LEMMA HoldIs ==
  ASSUME NEW who, who # "nobody", NEW rs \in SUBSET Requests, S2!Hold(who, rs)
  PROVE  lock'.todo = rs /\ (lock'.by = "nobody" => rs = {})
BY DEF S2!Hold, S2!Unlocked

LEMMA AbortAllIs ==
  ASSUME S2Types, NEW who, who # "nobody", NEW f, S2!AbortAll(who, f)
  PROVE  \E U \in SUBSET Requests :
           /\ U = S2!Unready(f) /\ \A x \in U : ar[x] = "waiting"
           /\ lock.todo = {} /\ lock'.todo = U /\ (lock'.by = "nobody" => U = {})
           /\ ar' = [x \in Requests |-> IF x \in U THEN "ready" ELSE ar[x]]
           /\ before' = [x \in Requests |-> IF x \in U THEN {} ELSE before[x]]
           /\ late' = (late \/ \E x \in U : S2!InWork(x))
<1>1. PICK U : U = S2!Unready(f)
  OBVIOUS
<1>2. U \in SUBSET Requests /\ \A x \in U : ar[x] = "waiting"
  BY <1>1 DEF S2!Unready
<1>3. S2!Hold(who, U)
  BY <1>1 DEF S2!AbortAll
<1>4. lock'.todo = U /\ (lock'.by = "nobody" => U = {})
  BY <1>2, <1>3, HoldIs
<1> QED  BY <1>1, <1>2, <1>4 DEF S2!AbortAll, S2!Free, S2!Again, S2Types

(* The types.                                                                *)
LEMMA AbortAllTypes ==
  ASSUME S2Types, NEW who, who # "nobody", NEW f, S2!AbortAll(who, f)
  PROVE  /\ lock'.todo \subseteq Requests /\ (lock'.by = "nobody" => lock'.todo = {})
         /\ ar' \in [Requests -> {"no", "waiting", "ready"}]
         /\ before' \in [Requests -> SUBSET Requests]
<1>1. PICK U \in SUBSET Requests :
        /\ lock'.todo = U /\ (lock'.by = "nobody" => U = {})
        /\ ar' = [x \in Requests |-> IF x \in U THEN "ready" ELSE ar[x]]
        /\ before' = [x \in Requests |-> IF x \in U THEN {} ELSE before[x]]
  BY AbortAllIs
<1>2. ar' \in [Requests -> {"no", "waiting", "ready"}]
  BY <1>1 DEF S2Types
<1>3. before' \in [Requests -> SUBSET Requests]
  BY <1>1 DEF S2Types
<1> QED  BY <1>1, <1>2, <1>3

LEMMA ThreadIs ==
  ASSUME S2Types, thread.at \notin {"read", "trigger"}
  PROVE  thread.req \in Requests
BY DEF S2Types, S2!At

LEMMA TypesKeep ==
  ASSUME S2Types, [Next]_vars
  PROVE  S2Types'
<1> USE S2Constants
<1>1. CASE UNCHANGED s2vars
  BY <1>1 DEF S2Types, s2vars
<1>2. CASE S2!Called \/ S2!Nothing \/ S2!Awake
  <2>1. CASE S2!Called
    <3>1. calling \in Requests /\ requests' = Append(requests, calling)
      BY <2>1 DEF S2Types, S2!Called, S2!Queue
    <3>2. requests' \in Seq(Requests)
      BY <3>1 DEF S2Types
    <3> QED  BY <2>1, <3>2 DEF S2Types, S2!Called, S2!program, S2!ghosts
  <2>2. CASE S2!Nothing \/ S2!Awake
    BY <2>2 DEF S2Types, S2!Nothing, S2!Awake, S2!program, S2!ghosts
  <2> QED  BY <1>2, <2>1, <2>2
<1>3. CASE S2!Read
  <2>1. Head(requests) \in Requests /\ requests' \in Seq(Requests)
    BY <1>3 DEF S2Types, S2!Read
  <2>2. thread' = S2!At("get", Head(requests))
    BY <1>3 DEF S2!Read
  <2> QED  BY <1>3, <2>1, <2>2 DEF S2Types, S2!Read, S2!program, S2!ghosts, Early
<1>4. CASE S2!Get \/ S2!Reply \/ S2!Release \/ S2!Async \/ S2!Add
  <2>1. PICK r \in Requests : r = thread.req
    BY <1>4, ThreadIs DEF S2!Get, S2!Reply, S2!Release, S2!Async, S2!Add
  <2>2. /\ ar' \in [Requests -> {"no", "waiting", "ready"}]
        /\ sent' \subseteq Requests /\ before' \in [Requests -> SUBSET Requests]
    <3>1. /\ \/ ar' = ar \/ ar' = [ar EXCEPT ![r] = "ready"]
             \/ ar' = [ar EXCEPT ![r] = "no"] \/ ar' = [ar EXCEPT ![r] = "waiting"]
          /\ sent' \subseteq sent
          /\ before' = before \/ before' = [f \in Requests |-> before[f] \ {r}]
      BY <1>4, <2>1 DEF S2!Get, S2!Reply, S2!Release, S2!Async, S2!Add, S2!program, S2!ghosts
    <3>2. ar' \in [Requests -> {"no", "waiting", "ready"}]
      BY <3>1 DEF S2Types
    <3>3. before' \in [Requests -> SUBSET Requests]
      BY <3>1 DEF S2Types
    <3> QED  BY <3>1, <3>2, <3>3 DEF S2Types
  <2>3. \/ thread' = S2!At("trigger", None)
        \/ \E place \in Early \cup {"reply", "release", "remove"} : thread' = S2!At(place, r)
    BY <1>4, <2>1 DEF S2!Get, S2!Reply, S2!Release, S2!Async, S2!Add, Early
  <2>4. UNCHANGED <<command, s2p, lock, requests, calling>>
    BY <1>4 DEF S2!Get, S2!Reply, S2!Release, S2!Async, S2!Add, S2!program
  <2> QED  BY <2>1, <2>2, <2>3, <2>4 DEF S2Types
<1>5. CASE S2!RemPacket
  <2>1. PICK r \in Requests : r = thread.req
    BY <1>5, ThreadIs DEF S2!RemPacket
  <2>2. s2p[r] \in Seq({"unsent", "sent"})
    BY DEF S2Types
  <2>3. s2p[r] # <<>> => Tail(s2p[r]) \in Seq({"unsent", "sent"})
    BY <2>2
  <2>4. s2p' \in [Requests -> Seq({"unsent", "sent"})]
    BY <1>5, <2>1, <2>2, <2>3 DEF S2Types, S2!RemPacket
  <2> QED  BY <1>5, <2>4 DEF S2Types, S2!RemPacket, S2!program, S2!ghosts
<1>6. CASE S2!Trigger
  BY <1>6 DEF S2Types, S2!Trigger, S2!program, S2!ghosts
<1>7. CASE S2!Flush
  <2>1. PICK r \in Requests : r = thread.req
    BY <1>7, ThreadIs DEF S2!Flush
  <2>2. S2!AbortAll("thread", r) /\ thread' = S2!At("add", r)
    BY <1>7, <2>1 DEF S2!Flush
  <2>3. /\ lock'.todo \subseteq Requests /\ (lock'.by = "nobody" => lock'.todo = {})
        /\ ar' \in [Requests -> {"no", "waiting", "ready"}]
        /\ before' \in [Requests -> SUBSET Requests]
    BY <2>2, AbortAllTypes
  <2>4. \E place \in Early : thread' = S2!At(place, r)
    BY <2>2 DEF Early
  <2> QED  BY <1>7, <2>3, <2>4 DEF S2Types, S2!Flush, S2!program
<1>8. ASSUME NEW r \in Requests,
             \/ S2!BeginIO(r) \/ S2!AbortIO(r) \/ S2!GotPacket(r) \/ S2!FlushDone(r)
             \/ S2!FlushTimeout(r) \/ S2!Push(r) \/ S2!Transmit(r)
      PROVE  S2Types'
  <2>1. CASE S2!BeginIO(r)
    <3>1. s2p' = s2p \/ s2p' = [s2p EXCEPT ![r] = Append(@, "unsent")]
      BY <2>1 DEF S2!BeginIO
    <3>2. s2p' \in [Requests -> Seq({"unsent", "sent"})]
      <4>1. s2p[r] \in Seq({"unsent", "sent"})
        BY DEF S2Types
      <4>2. Append(s2p[r], "unsent") \in Seq({"unsent", "sent"})
        BY <4>1
      <4> QED  BY <3>1, <4>2 DEF S2Types
    <3>3. command' \in [Requests -> S2!Commands] /\ before' \in [Requests -> SUBSET Requests]
      BY <2>1 DEF S2Types, S2!BeginIO
    <3> QED  BY <2>1, <3>2, <3>3 DEF S2Types, S2!BeginIO
  <2>2. CASE S2!AbortIO(r)
    BY <2>2 DEF S2Types, S2!AbortIO, S2!program
  <2>3. CASE S2!GotPacket(r) \/ S2!FlushDone(r)
    <3>1. S2!Hold("server", {r})
      BY <2>3 DEF S2!GotPacket, S2!FlushDone
    <3>2. lock'.todo \subseteq Requests /\ (lock'.by = "nobody" => lock'.todo = {})
      BY <3>1, HoldIs
    <3> QED  BY <2>3, <3>2 DEF S2Types, S2!GotPacket, S2!FlushDone, S2!program
  <2>4. CASE S2!FlushTimeout(r)
    <3>1. /\ lock'.todo \subseteq Requests /\ (lock'.by = "nobody" => lock'.todo = {})
          /\ ar' \in [Requests -> {"no", "waiting", "ready"}]
          /\ before' \in [Requests -> SUBSET Requests]
      BY <2>4, AbortAllTypes DEF S2!FlushTimeout
    <3> QED  BY <2>4, <3>1 DEF S2Types, S2!FlushTimeout, S2!program
  <2>5. CASE S2!Push(r)
    <3>1. lock.by # "nobody" /\ S2!Hold(lock.by, lock.todo \ {r})
      BY <2>5 DEF S2Types, S2!Push
    <3>2. PICK rest \in SUBSET Requests : rest = lock.todo \ {r}
      BY DEF S2Types
    <3>3. lock'.todo \subseteq Requests /\ (lock'.by = "nobody" => lock'.todo = {})
      BY <3>1, <3>2, HoldIs
    <3>4. requests' \in Seq(Requests)
      BY <2>5 DEF S2Types, S2!Push, S2!Queue
    <3> QED  BY <2>5, <3>3, <3>4 DEF S2Types, S2!Push, S2!program, S2!ghosts
  <2>6. CASE S2!Transmit(r)
    <3>1. s2p[r] \in Seq({"unsent", "sent"}) /\ s2p[r] # <<>>
      BY <2>6 DEF S2Types, S2!Transmit
    <3>2. <<"sent">> \o Tail(s2p[r]) \in Seq({"unsent", "sent"})
      BY <3>1
    <3>3. s2p' \in [Requests -> Seq({"unsent", "sent"})]
      BY <2>6, <3>2 DEF S2Types, S2!Transmit
    <3>4. lock'.todo \subseteq Requests /\ (lock'.by = "nobody" => lock'.todo = {})
      BY <2>6, HoldIs DEF S2!Transmit
    <3> QED  BY <2>6, <3>3, <3>4 DEF S2Types, S2!Transmit, S2!Signal, S2!program, S2!ghosts
  <2> QED  BY <1>8, <2>1, <2>2, <2>3, <2>4, <2>5, <2>6
<1> QED  BY <1>1, <1>2, <1>3, <1>4, <1>5, <1>6, <1>7, <1>8, S2Steps

-----------------------------------------------------------------------------
(* The packets                                                               *)

\* A step that leaves the packets alone, sets nothing to waiting and the thread where it is.
LEMMA SameWire ==
  ASSUME S2Types, WireOK, s2p' = s2p, thread' = thread,
         \A r \in Requests : ar'[r] = ar[r] \/ (ar[r] # "no" /\ ar'[r] = "ready")
  PROVE  WireOK'
BY DEF WireOK, With

LEMMA WireKeeps ==
  ASSUME S2Types, WireOK, [Next]_vars
  PROVE  WireOK'
<1>1. CASE UNCHANGED <<s2p, ar, thread>>
  BY <1>1 DEF WireOK, With
<1>2. CASE S2!Called \/ S2!Nothing \/ S2!Awake
  BY <1>1, <1>2 DEF S2!Called, S2!Nothing, S2!Awake
<1>3. CASE S2!Read \/ S2!Async \/ S2!Trigger
  <2>1. /\ s2p' = s2p /\ ar' = ar
        /\ thread.at \in {"read", "do", "trigger"}
        /\ \/ thread'.at \notin {"do", "add", "remove"}
           \/ thread.at = "do" /\ thread'.req = thread.req
    BY <1>3 DEF S2!Read, S2!Async, S2!Trigger, S2!program, S2!At
  <2> QED  BY <2>1 DEF WireOK, With
<1>4. CASE S2!Get
  <2>1. PICK r \in Requests : r = thread.req /\ thread.at = "get"
    BY <1>4, ThreadIs DEF S2!Get
  <2>2. /\ s2p' = s2p /\ \A x \in Requests : x # r => ar'[x] = ar[x]
        /\ \/ ar[r] # "no" /\ ar'[r] = "ready" /\ thread' = S2!At("reply", r)
           \/ ar[r] = "no" /\ ar'[r] = "no" /\ thread' = S2!At("do", r)
    BY <1>4, <2>1 DEF S2Types, S2!Get
  <2> QED  BY <2>1, <2>2 DEF WireOK, With, S2!At
<1>5. CASE S2!Reply
  <2>1. /\ s2p' = s2p /\ ar' = ar /\ thread'.req = thread.req
        /\ \/ thread.at = "reply" /\ thread'.at = "release"
           \/ thread.at = "do" /\ thread'.at = "remove"
    BY <1>5 DEF S2!Reply, S2!At
  <2> QED  BY <2>1 DEF WireOK, With
<1>6. CASE S2!Release
  <2>1. PICK r \in Requests : r = thread.req /\ thread.at = "release"
    BY <1>6, ThreadIs DEF S2!Release
  <2>2. /\ s2p' = s2p /\ \A x \in Requests : x # r => ar'[x] = ar[x]
        /\ ar'[r] = "no" /\ thread'.at = "remove" /\ thread'.req = r
    BY <1>6, <2>1 DEF S2Types, S2!Release, S2!program, S2!At
  <2> QED  BY <2>1, <2>2 DEF WireOK, With
<1>7. CASE S2!RemPacket
  <2>1. PICK r \in Requests : r = thread.req /\ thread.at = "remove"
    BY <1>7, ThreadIs DEF S2!RemPacket
  <2>2. /\ ar' = ar /\ thread'.at = "read" /\ \A x \in Requests : x # r => s2p'[x] = s2p[x]
        /\ s2p'[r] = (IF s2p[r] = <<>> THEN s2p[r] ELSE Tail(s2p[r]))
    BY <1>7, <2>1 DEF S2Types, S2!RemPacket, S2!At
  <2>3. s2p[r] \in Seq({"unsent", "sent"})
    BY DEF S2Types
  <2>4. ASSUME NEW i \in DOMAIN s2p'[r] PROVE s2p'[r][i] # "sent"
    <3>1. CASE s2p[r] = <<>>
      BY <2>2, <2>4, <3>1
    <3>2. CASE s2p[r] # <<>>
      <4>1. i + 1 \in DOMAIN s2p[r] /\ i + 1 # 1 /\ s2p'[r][i] = s2p[r][i + 1]
        BY <2>2, <2>3, <2>4, <3>2
      <4> QED  BY <4>1 DEF WireOK
    <3> QED  BY <3>1, <3>2
  <2>5. ASSUME NEW x \in Requests, NEW i \in DOMAIN s2p'[x], s2p'[x][i] = "sent"
        PROVE  i = 1 /\ ar'[x] = "ready"
    <3>1. x # r /\ s2p'[x] = s2p[x] /\ ~With(x, {"remove"})
      BY <2>1, <2>2, <2>4, <2>5 DEF With
    <3> QED  BY <2>2, <2>5, <3>1 DEF WireOK
  <2>6. \A x \in Requests : ~With(x, {"do", "add", "remove"})'
    BY <2>2 DEF With
  <2> QED  BY <2>5, <2>6 DEF WireOK
<1>8. CASE S2!Flush
  <2>1. PICK r \in Requests : r = thread.req /\ thread.at = "do"
    BY <1>8, ThreadIs DEF S2!Flush
  <2>2. /\ s2p' = s2p /\ thread'.at = "add" /\ thread'.req = r
        /\ \A x \in Requests : ar'[x] = ar[x] \/ (ar[x] = "waiting" /\ ar'[x] = "ready")
    <3>1. S2!AbortAll("thread", r)
      BY <1>8, <2>1 DEF S2!Flush
    <3>2. \A x \in Requests : ar'[x] = ar[x] \/ (ar[x] = "waiting" /\ ar'[x] = "ready")
      BY <3>1, AbortAllIs
    <3> QED  BY <1>8, <2>1, <3>2 DEF S2!Flush, S2!At
  <2> QED  BY <2>1, <2>2 DEF WireOK, With
<1>9. CASE S2!Add
  <2>1. PICK r \in Requests : r = thread.req /\ thread.at = "add"
    BY <1>9, ThreadIs DEF S2!Add
  <2>2. /\ s2p' = s2p /\ thread'.at = "trigger" /\ \A x \in Requests : x # r => ar'[x] = ar[x]
    BY <1>9, <2>1 DEF S2Types, S2!Add, S2!At
  <2> QED  BY <2>1, <2>2 DEF WireOK, With
<1>10. ASSUME NEW r \in Requests,
             \/ S2!BeginIO(r) \/ S2!AbortIO(r) \/ S2!GotPacket(r) \/ S2!FlushDone(r)
             \/ S2!FlushTimeout(r) \/ S2!Push(r) \/ S2!Transmit(r)
       PROVE  WireOK'
  <2>1. CASE S2!BeginIO(r)
    <3>1. /\ ar' = ar /\ thread' = thread
          /\ s2p' = s2p \/ s2p' = [s2p EXCEPT ![r] = Append(@, "unsent")]
      BY <2>1 DEF S2!BeginIO
    <3>2. CASE s2p' # s2p
      <4>1. /\ s2p'[r] = Append(s2p[r], "unsent") /\ s2p[r] \in Seq({"unsent", "sent"})
            /\ \A x \in Requests : x # r => s2p'[x] = s2p[x]
        BY <3>1, <3>2 DEF S2Types
      <4>2. \A i \in DOMAIN s2p'[r] : s2p'[r][i] = "sent" => i \in DOMAIN s2p[r] /\ s2p[r][i] = "sent"
        <5>1. PICK q : q = s2p[r] /\ q \in Seq({"unsent", "sent"}) /\ s2p'[r] = Append(q, "unsent")
          BY <4>1
        <5>2. \A i \in DOMAIN Append(q, "unsent") :
                i \in DOMAIN q \/ Append(q, "unsent")[i] = "unsent"
          BY <5>1
        <5>3. \A i \in DOMAIN q : Append(q, "unsent")[i] = q[i]
          BY <5>1
        <5> QED  BY <5>1, <5>2, <5>3
      <4>3. ASSUME NEW x \in Requests, NEW i \in DOMAIN s2p'[x], s2p'[x][i] = "sent"
            PROVE  i \in DOMAIN s2p[x] /\ s2p[x][i] = "sent"
        BY <4>1, <4>2, <4>3
      <4>4. \A x, places : With(x, places)' <=> With(x, places)
        BY <3>1 DEF With
      <4> QED  BY <3>1, <4>3, <4>4 DEF WireOK
    <3> QED  BY <1>1, <3>1, <3>2
  <2>2. CASE S2!AbortIO(r)
    <3>1. /\ s2p' = s2p /\ thread' = thread
          /\ \A x \in Requests : ar'[x] = ar[x] \/ (ar[x] # "no" /\ ar'[x] = "ready")
      BY <2>2 DEF S2Types, S2!AbortIO
    <3> QED  BY <3>1, SameWire
  <2>3. CASE S2!GotPacket(r) \/ S2!FlushDone(r) \/ S2!Push(r)
    BY <1>1, <2>3 DEF S2!GotPacket, S2!FlushDone, S2!Push
  <2>4. CASE S2!FlushTimeout(r)
    <3>1. /\ s2p' = s2p /\ thread' = thread /\ S2!AbortAll("server", r)
      BY <2>4 DEF S2!FlushTimeout
    <3>2. \A x \in Requests : ar'[x] = ar[x] \/ (ar[x] # "no" /\ ar'[x] = "ready")
      BY <3>1, AbortAllIs
    <3> QED  BY <3>1, <3>2, SameWire
  <2>5. CASE S2!Transmit(r)
    <3>1. /\ thread' = thread /\ ar[r] = "waiting" /\ ar'[r] = "ready"
          /\ \A x \in Requests : x # r => s2p'[x] = s2p[x] /\ ar'[x] = ar[x]
          /\ s2p'[r] = <<"sent">> \o Tail(s2p[r])
          /\ s2p[r] \in Seq({"unsent", "sent"}) /\ s2p[r] # <<>>
      BY <2>5 DEF S2Types, S2!Transmit, S2!Signal, S2!Waiting
    <3>2. \A i \in DOMAIN s2p'[r] : i # 1 => i \in DOMAIN s2p[r] /\ s2p'[r][i] = s2p[r][i]
      BY <3>1
    <3>3. \A x \in Requests : With(x, {"do", "add", "remove"})' <=> With(x, {"do", "add", "remove"})
      BY <3>1 DEF With
    <3>4. \A x \in Requests : With(x, {"remove"})' <=> With(x, {"remove"})
      BY <3>1 DEF With
    <3>5. ASSUME NEW i \in DOMAIN s2p'[r], s2p'[r][i] = "sent" PROVE i = 1
      BY <3>1, <3>2, <3>5 DEF WireOK
    <3>6. ASSUME NEW x \in Requests
          PROVE  /\ With(x, {"do", "add", "remove"}) => ar'[x] = "no"
                 /\ \A i \in DOMAIN s2p'[x] :
                      s2p'[x][i] = "sent" => i = 1 /\ (ar'[x] = "ready" \/ With(x, {"remove"}))
      <4>1. CASE x = r
        BY <3>1, <3>5, <4>1 DEF WireOK
      <4>2. CASE x # r
        BY <3>1, <4>2 DEF WireOK
      <4> QED  BY <4>1, <4>2
    <3> QED  BY <3>3, <3>4, <3>6 DEF WireOK
  <2> QED  BY <1>10, <2>1, <2>2, <2>3, <2>4, <2>5
<1> QED  BY <1>1, <1>2, <1>3, <1>4, <1>5, <1>6, <1>7, <1>8, <1>9, <1>10, S2Steps DEF s2vars

-----------------------------------------------------------------------------
(* The order                                                                 *)

(* Queueing what is not queued.                                              *)
LEMMA QueueKeeps ==
  ASSUME requests \in Seq(Requests),
         \A i, j \in DOMAIN requests : requests[i] = requests[j] => i = j,
         NEW q \in Requests, ~InPipe(q), requests' = Append(requests, q)
  PROVE  /\ \A i, j \in DOMAIN requests' : requests'[i] = requests'[j] => i = j
         /\ \A r : InPipe(r)' <=> InPipe(r) \/ r = q
         /\ \A r, f : Ahead(r, f) => Ahead(r, f)'
         /\ \A r : InPipe(r) => Ahead(r, q)'
<1>1. PICK n \in Nat : n = Len(requests) /\ DOMAIN requests = 1 .. n
  OBVIOUS
<1>2. PICK m \in Nat : m = n + 1 /\ \A i \in 1 .. m : i \in 1 .. n \/ i = m
  OBVIOUS
<1>3. /\ DOMAIN requests' = 1 .. m /\ requests'[m] = q /\ m \in 1 .. m
      /\ \A i \in 1 .. n : i \in 1 .. m /\ i < m /\ requests'[i] = requests[i]
  BY <1>1, <1>2
<1>4. \A i \in 1 .. n : requests[i] # q
  BY <1>1 DEF InPipe
<1>5. ASSUME NEW i \in 1 .. m, NEW j \in 1 .. m, requests'[i] = requests'[j] PROVE i = j
  <2>1. CASE i = m \/ j = m
    BY <1>2, <1>3, <1>4, <1>5, <2>1
  <2>2. CASE i \in 1 .. n /\ j \in 1 .. n
    BY <1>1, <1>3, <1>5, <2>2
  <2> QED  BY <1>2, <2>1, <2>2
<1>6. ASSUME NEW r PROVE InPipe(r)' <=> InPipe(r) \/ r = q
  BY <1>1, <1>2, <1>3 DEF InPipe
<1>7. ASSUME NEW r, NEW f, Ahead(r, f) PROVE Ahead(r, f)'
  <2>1. PICK i, j \in 1 .. n : i < j /\ requests[i] = r /\ requests[j] = f
    BY <1>1, <1>7 DEF Ahead
  <2> QED  BY <1>3, <2>1 DEF Ahead
<1>8. ASSUME NEW r, InPipe(r) PROVE Ahead(r, q)'
  <2>1. PICK i \in 1 .. n : requests[i] = r
    BY <1>1, <1>8 DEF InPipe
  <2> QED  BY <1>3, <2>1 DEF Ahead
<1> QED  BY <1>3, <1>5, <1>6, <1>7, <1>8

(* Taking the first one out.                                                 *)
LEMMA TakenKeeps ==
  ASSUME requests \in Seq(Requests), requests # <<>>,
         \A i, j \in DOMAIN requests : requests[i] = requests[j] => i = j,
         requests' = Tail(requests)
  PROVE  \E h \in Requests :
           /\ h = Head(requests) /\ InPipe(h) /\ ~InPipe(h)'
           /\ requests' \in Seq(Requests)
           /\ \A i, j \in DOMAIN requests' : requests'[i] = requests'[j] => i = j
           /\ \A r : InPipe(r) <=> InPipe(r)' \/ r = h
           /\ \A r, f : Ahead(r, f) => InPipe(f)' /\ (r = h \/ Ahead(r, f)')
<1>1. PICK n \in Nat : n = Len(requests) /\ DOMAIN requests = 1 .. n /\ n > 0
  OBVIOUS
<1>2. /\ requests' \in Seq(Requests) /\ DOMAIN requests' = 1 .. (n - 1)
      /\ \A i \in 1 .. (n - 1) : requests'[i] = requests[i + 1]
      /\ Head(requests) = requests[1] /\ Head(requests) \in Requests
  BY <1>1
<1>3. \A i \in 1 .. n : i = 1 \/ (i - 1 \in 1 .. (n - 1) /\ requests'[i - 1] = requests[i])
  <2> TAKE i \in 1 .. n
  <2>1. CASE i # 1
    <3>1. PICK k \in 1 .. (n - 1) : k = i - 1 /\ k + 1 = i
      BY <2>1
    <3>2. requests'[k] = requests[k + 1]
      BY <1>2
    <3> QED  BY <3>1, <3>2
  <2> QED  BY <2>1
<1>4. \A i \in 1 .. (n - 1) : i + 1 \in 1 .. n /\ i + 1 # 1
  BY <1>1
<1>40. PICK h \in Requests : h = Head(requests) /\ h = requests[1] /\ 1 \in 1 .. n
  BY <1>1, <1>2
<1>41. \A i, j \in 1 .. n : requests[i] = requests[j] => i = j
  BY <1>1
<1>42. \A r : InPipe(r)' <=> \E i \in 1 .. (n - 1) : requests'[i] = r
  BY <1>2 DEF InPipe
<1>43. \A r : InPipe(r) <=> \E i \in 1 .. n : requests[i] = r
  BY <1>1 DEF InPipe
<1>5. ~InPipe(h)' /\ InPipe(h)
  <2>1. \A i \in 1 .. (n - 1) : requests'[i] # requests[1]
    BY <1>2, <1>4, <1>40, <1>41
  <2> QED  BY <1>40, <1>42, <1>43, <2>1
<1>6. \A i, j \in DOMAIN requests' : requests'[i] = requests'[j] => i = j
  <2> SUFFICES ASSUME NEW i \in 1 .. (n - 1), NEW j \in 1 .. (n - 1), requests'[i] = requests'[j]
               PROVE  i = j
    BY <1>2
  <2>1. i + 1 = j + 1
    BY <1>1, <1>2, <1>4
  <2> QED  BY <2>1
<1>7. ASSUME NEW r PROVE InPipe(r) <=> InPipe(r)' \/ r = h
  <2>1. ASSUME NEW i \in 1 .. n, requests[i] = r, r # h
        PROVE  \E j \in 1 .. (n - 1) : requests'[j] = r
    BY <1>3, <1>40, <2>1
  <2>2. ASSUME NEW j \in 1 .. (n - 1), requests'[j] = r
        PROVE  \E i \in 1 .. n : requests[i] = r
    BY <1>2, <1>4, <2>2
  <2> QED  BY <1>5, <1>42, <1>43, <2>1, <2>2
<1>8. ASSUME NEW r, NEW f, Ahead(r, f)
      PROVE  InPipe(f)' /\ (r = h \/ Ahead(r, f)')
  <2>1. PICK i, j \in 1 .. n : i < j /\ requests[i] = r /\ requests[j] = f
    BY <1>1, <1>8 DEF Ahead
  <2>20. i \in Int /\ j \in Int /\ j # 1
    BY <2>1
  <2>2. PICK l \in 1 .. (n - 1) : l = j - 1 /\ requests'[l] = f
    BY <1>3, <2>1, <2>20
  <2>3. CASE i = 1
    BY <1>40, <1>42, <2>1, <2>2, <2>3
  <2>4. CASE i # 1
    <3>1. PICK k \in 1 .. (n - 1) : k = i - 1 /\ requests'[k] = r
      BY <1>3, <2>1, <2>4
    <3>2. k < l
      BY <2>1, <2>20, <2>2, <3>1
    <3> QED  BY <1>2, <1>42, <2>2, <3>1, <3>2 DEF Ahead
  <2> QED  BY <2>3, <2>4
<1> QED  BY <1>2, <1>5, <1>6, <1>7, <1>8, <1>40

(* What is queued, to be queued, or with the thread.                         *)
LEMMA InWorkIs ==
  ASSUME requests \in Seq(Requests), NEW r
  PROVE  S2!InWork(r) <=> Queued(r) \/ thread.req = r
BY DEF S2!InWork, S2!Contains, Queued, InPipe

(* Where the thread is matters for the places that OrderOK names only.       *)
SameWith ==
  \A x : /\ With(x, Early)' <=> With(x, Early)
         /\ With(x, {"get"})' => With(x, {"get"})
         /\ With(x, {"reply"})' <=> With(x, {"reply"})
         /\ With(x, {"release"})' <=> With(x, {"release"})

LEMMA SameThread == thread' = thread => SameWith
BY DEF SameWith, With

LEMMA PassKeeps ==
  ASSUME S2Types, OrderOK, SameWith,
         UNCHANGED <<command, sent, ar, lock, requests, calling, before>>
  PROVE  OrderOK'
<1>1. \A x : (InPipe(x)' <=> InPipe(x)) /\ (Queued(x)' <=> Queued(x)) /\ (Held(x)' <=> Held(x))
  BY DEF SameWith, InPipe, Queued, Held
<1>2. \A x, f : Follows(f, x)' <=> Follows(f, x)
  BY <1>1 DEF SameWith, Follows, Ahead
<1>3. ThreadOK'
  BY DEF SameWith, OrderOK, ThreadOK
<1>4. PipeOK'
  BY <1>1 DEF SameWith, OrderOK, PipeOK
<1>5. SentOK'
  BY <1>1 DEF SameWith, OrderOK, SentOK
<1>6. BeforeOK'
  BY <1>1, <1>2 DEF SameWith, OrderOK, BeforeOK
<1> QED  BY <1>3, <1>4, <1>5, <1>6 DEF OrderOK

LEMMA BeginIOKeeps ==
  ASSUME S2Types, OrderOK, NEW r \in Requests, S2!BeginIO(r)
  PROVE  OrderOK'
<1> USE S2Constants
<1>1. PICK c \in S2!Commands :
        /\ command' = [command EXCEPT ![r] = c]
        /\ before' = [before EXCEPT ![r] = IF c = "flush" THEN sent ELSE {}]
  BY DEF S2!BeginIO
<1>2. /\ calling = None /\ calling' = r /\ r \notin sent /\ sent' = sent \cup {r}
      /\ ar' = ar /\ lock' = lock /\ requests' = requests /\ thread' = thread
  BY DEF S2!BeginIO, S2!Starts, S2!Idle
<1>3. ~InPipe(r) /\ r \notin lock.todo /\ ~Queued(r) /\ ~Held(r) /\ ~With(r, Early)
      /\ ~With(r, {"get"}) /\ ~With(r, {"reply"}) /\ ar[r] # "waiting"
  BY <1>2 DEF OrderOK, PipeOK, SentOK, ThreadOK, Queued, With, Held, Early
<1>4. SameWith
  BY <1>2, SameThread
<1>5. \A x \in Requests : /\ InPipe(x)' <=> InPipe(x)
                          /\ Held(x)' <=> Held(x)
                          /\ Queued(x)' <=> Queued(x) \/ x = r
  BY <1>2, <1>4 DEF SameWith, InPipe, Held, Queued, S2Types
<1>6. /\ \A x \in Requests : x # r => command'[x] = command[x] /\ before'[x] = before[x]
      /\ before'[r] = (IF c = "flush" THEN sent ELSE {}) /\ command'[r] = c
  BY <1>1 DEF S2Types
<1>7. ThreadOK'
  BY <1>2, <1>3, <1>4, <1>6 DEF OrderOK, ThreadOK, SameWith
<1>8. PipeOK'
  <2>1. ASSUME NEW x \in Requests, Queued(x)'
        PROVE  /\ x \in sent' /\ ~With(x, Early)' /\ ~With(x, {"reply"})'
               /\ ar'[x] = "waiting" => command'[x] \in {"read", "flush"}
    <3>1. CASE x = r
      BY <1>2, <1>3, <1>4, <3>1 DEF SameWith
    <3>2. CASE x # r
      BY <1>2, <1>4, <1>5, <1>6, <2>1, <3>2 DEF OrderOK, PipeOK, SameWith
    <3> QED  BY <3>1, <3>2
  <2>2. \A x \in Requests : /\ InPipe(x)' => x # calling' /\ x \notin lock'.todo
                            /\ x \in lock'.todo => Held(x)'
    BY <1>2, <1>3, <1>5 DEF OrderOK, PipeOK
  <2>3. calling' \notin lock'.todo /\ \A i, j \in DOMAIN requests' : requests'[i] = requests'[j] => i = j
    BY <1>2, <1>3 DEF OrderOK, PipeOK
  <2> QED  BY <2>1, <2>2, <2>3 DEF PipeOK
<1>9. SentOK'
  BY <1>2, <1>4, <1>5 DEF OrderOK, SentOK, SameWith
<1>10. BeforeOK'
  <2>1. ASSUME NEW f \in Requests
        PROVE  /\ before'[f] # {} => command'[f] = "flush"
               /\ \A x \in before'[f] :
                    x # f /\ x \in sent' /\ (Held(x)' \/ (ar'[f] # "waiting" /\ Follows(f, x)'))
               /\ Held(f)' /\ (Queued(f)' \/ With(f, {"get"})' \/ With(f, {"reply"})')
                    => before'[f] = {}
    <3>1. CASE f = r
      <4>1. ASSUME NEW x \in before'[r]
            PROVE  x # r /\ x \in sent' /\ (Held(x)' \/ Follows(r, x)')
        <5>1. x \in sent /\ x \in Requests /\ x # r
          BY <1>2, <1>6, <4>1 DEF S2Types
        <5>2. Held(x) \/ InPipe(x) \/ With(x, Early)
          BY <1>2, <5>1 DEF OrderOK, SentOK, PipeOK, Queued
        <5> QED  BY <1>2, <1>4, <1>5, <5>1, <5>2 DEF Follows, SameWith
      <4> QED  BY <1>2, <1>3, <1>5, <1>6, <3>1, <4>1
    <3>2. CASE f # r
      <4>1. \A x \in before[f] : x \in Requests /\ (Follows(f, x) => Follows(f, x)')
        BY <1>2, <1>4, <1>5 DEF Follows, Ahead, SameWith, S2Types
      <4> QED  BY <1>2, <1>4, <1>5, <1>6, <3>2, <4>1 DEF OrderOK, BeforeOK, SameWith
    <3> QED  BY <3>1, <3>2
  <2> QED  BY <2>1 DEF BeforeOK
<1> QED  BY <1>7, <1>8, <1>9, <1>10 DEF OrderOK

LEMMA AbortIOKeeps ==
  ASSUME S2Types, OrderOK, NEW r \in Requests, S2!AbortIO(r), ~late'
  PROVE  OrderOK'
<1> USE S2Constants
<1>1. /\ calling = None /\ ar[r] # "no" /\ ar' = [ar EXCEPT ![r] = "ready"] /\ calling' = r
      /\ before' = [before EXCEPT ![r] = {}]
      /\ command' = command /\ sent' = sent /\ lock' = lock /\ requests' = requests
      /\ thread' = thread /\ ~S2!InWork(r)
  BY DEF S2!AbortIO, S2!Starts, S2!Idle, S2!program, S2!Again
<1>2. ~Queued(r) /\ ~InPipe(r) /\ r \notin lock.todo /\ \A places : ~With(r, places)
  BY <1>1, InWorkIs DEF S2Types, Queued, With
<1>3. SameWith
  BY <1>1, SameThread
<1>4. /\ ar'[r] = "ready" /\ before'[r] = {}
      /\ \A x \in Requests : x # r => ar'[x] = ar[x] /\ before'[x] = before[x]
  BY <1>1 DEF S2Types
<1>5. \A x \in Requests : /\ InPipe(x)' <=> InPipe(x)
                          /\ Held(x)' <=> Held(x)
                          /\ Queued(x)' <=> Queued(x) \/ x = r
  BY <1>1, <1>3, <1>4 DEF SameWith, InPipe, Held, Queued
<1>6. Held(r) /\ r \in sent
  BY <1>1, <1>2 DEF Held, OrderOK, SentOK
<1>7. ThreadOK'
  BY <1>1, <1>2, <1>3, <1>4 DEF OrderOK, ThreadOK, SameWith
<1>8. PipeOK'
  <2>1. ASSUME NEW x \in Requests, Queued(x)'
        PROVE  /\ x \in sent' /\ ~With(x, Early)' /\ ~With(x, {"reply"})'
               /\ ar'[x] = "waiting" => command'[x] \in {"read", "flush"}
    <3>1. CASE x = r
      BY <1>1, <1>2, <1>3, <1>4, <1>6, <3>1 DEF SameWith
    <3>2. CASE x # r
      BY <1>1, <1>3, <1>4, <1>5, <2>1, <3>2 DEF OrderOK, PipeOK, SameWith
    <3> QED  BY <3>1, <3>2
  <2>2. \A x \in Requests : /\ InPipe(x)' => x # calling' /\ x \notin lock'.todo
                            /\ x \in lock'.todo => Held(x)'
    BY <1>1, <1>2, <1>5 DEF OrderOK, PipeOK
  <2>3. calling' \notin lock'.todo /\ \A i, j \in DOMAIN requests' : requests'[i] = requests'[j] => i = j
    BY <1>1, <1>2 DEF OrderOK, PipeOK
  <2> QED  BY <2>1, <2>2, <2>3 DEF PipeOK
<1>9. SentOK'
  BY <1>1, <1>3, <1>5 DEF OrderOK, SentOK, SameWith
<1>10. BeforeOK'
  <2>1. ASSUME NEW f \in Requests
        PROVE  /\ before'[f] # {} => command'[f] = "flush"
               /\ \A x \in before'[f] :
                    x # f /\ x \in sent' /\ (Held(x)' \/ (ar'[f] # "waiting" /\ Follows(f, x)'))
               /\ Held(f)' /\ (Queued(f)' \/ With(f, {"get"})' \/ With(f, {"reply"})')
                    => before'[f] = {}
    <3>1. CASE f = r
      BY <1>4, <3>1
    <3>2. CASE f # r
      <4>1. \A x \in before[f] : x \in Requests /\ (Follows(f, x) => Follows(f, x)')
        BY <1>1, <1>3, <1>5 DEF Follows, Ahead, SameWith, S2Types
      <4> QED  BY <1>1, <1>3, <1>4, <1>5, <3>2, <4>1 DEF OrderOK, BeforeOK, SameWith
    <3> QED  BY <3>1, <3>2
  <2> QED  BY <2>1 DEF BeforeOK
<1> QED  BY <1>7, <1>8, <1>9, <1>10 DEF OrderOK

(* A request that somebody has taken on to queue gets into the pipe.         *)
LEMMA QueuedKeeps ==
  ASSUME S2Types, OrderOK, NEW r \in Requests, calling = r \/ r \in lock.todo,
         requests' = Append(requests, r),
         calling' = (IF calling = r THEN None ELSE calling), lock'.todo = lock.todo \ {r},
         UNCHANGED <<command, sent, ar, thread, before>>
  PROVE  OrderOK'
<1> USE S2Constants
<1>1. SameWith
  BY SameThread
<1>2. ~InPipe(r) /\ Queued(r)
  BY DEF OrderOK, PipeOK, Queued
<1>3. /\ \A i, j \in DOMAIN requests' : requests'[i] = requests'[j] => i = j
      /\ \A x : InPipe(x)' <=> InPipe(x) \/ x = r
      /\ \A x, f : Ahead(x, f) => Ahead(x, f)'
      /\ \A x : InPipe(x) => Ahead(x, r)'
  <2>1. requests \in Seq(Requests) /\ \A i, j \in DOMAIN requests : requests[i] = requests[j] => i = j
    BY DEF S2Types, OrderOK, PipeOK
  <2> QED  BY <1>2, <2>1, QueueKeeps
<1>4. \A x \in Requests : (Held(x)' <=> Held(x)) /\ (Queued(x)' <=> Queued(x))
  BY <1>1, <1>2, <1>3 DEF SameWith, Held, Queued
<1>5. ThreadOK'
  BY <1>1 DEF OrderOK, ThreadOK, SameWith
<1>6. PipeOK'
  <2>1. \A x \in Requests :
          /\ InPipe(x)' => x # calling' /\ x \notin lock'.todo
          /\ x \in lock'.todo => Held(x)'
    BY <1>3, <1>4 DEF OrderOK, PipeOK
  <2>2. calling' \notin lock'.todo
    BY DEF OrderOK, PipeOK, S2Types
  <2>3. \A x \in Requests : Queued(x)' =>
          /\ x \in sent' /\ ~With(x, Early)' /\ ~With(x, {"reply"})'
          /\ ar'[x] = "waiting" => command'[x] \in {"read", "flush"}
    BY <1>1, <1>4 DEF OrderOK, PipeOK, SameWith
  <2> QED  BY <1>3, <2>1, <2>2, <2>3 DEF PipeOK
<1>7. SentOK'
  BY <1>1, <1>4 DEF OrderOK, SentOK, SameWith
<1>8. BeforeOK'
  <2>1. \A f, x \in Requests : Follows(f, x) => Follows(f, x)'
    BY <1>1, <1>3 DEF Follows, SameWith
  <2>2. \A f \in Requests : \A x \in before[f] : x \in Requests
    BY DEF S2Types
  <2> QED  BY <1>1, <1>4, <2>1, <2>2 DEF OrderOK, BeforeOK, SameWith
<1> QED  BY <1>5, <1>6, <1>7, <1>8 DEF OrderOK

(* Somebody takes on to queue what waits in the list, and marks it or not.   *)
LEMMA TakenOnKeeps ==
  ASSUME S2Types, OrderOK, SameWith, NEW U \in SUBSET Requests,
         \A x \in U : /\ ar[x] = "waiting" /\ ar'[x] \in {"waiting", "ready"} /\ before'[x] = {}
                      /\ ar'[x] = "waiting" => command[x] \in {"read", "flush"}
                      /\ ~Queued(x) /\ thread.req # x,
         \A x \in Requests \ U : ar'[x] = ar[x] /\ before'[x] = before[x],
         lock.todo = {}, lock'.todo = U,
         UNCHANGED <<command, sent, requests, calling>>
  PROVE  OrderOK'
<1> USE S2Constants
<1>1. \A x \in Requests : /\ InPipe(x)' <=> InPipe(x)
                          /\ Held(x)' <=> Held(x)
                          /\ Queued(x)' <=> Queued(x) \/ x \in U
  BY DEF SameWith, InPipe, Held, Queued
<1>2. \A x \in U : x \in Requests /\ (\A places : ~With(x, places)) /\ ~InPipe(x) /\ calling # x
  BY DEF With, Queued
<1>3. \A x \in U : Held(x) /\ x \in sent
  BY <1>2 DEF Held, OrderOK, SentOK
<1>4. ThreadOK'
  BY <1>2 DEF OrderOK, ThreadOK, SameWith
<1>5. PipeOK'
  <2>1. ASSUME NEW x \in Requests, Queued(x)'
        PROVE  /\ x \in sent' /\ ~With(x, Early)' /\ ~With(x, {"reply"})'
               /\ ar'[x] = "waiting" => command'[x] \in {"read", "flush"}
    <3>1. CASE x \in U
      BY <1>2, <1>3, <3>1 DEF SameWith
    <3>2. CASE x \notin U
      BY <1>1, <2>1, <3>2 DEF OrderOK, PipeOK, SameWith
    <3> QED  BY <3>1, <3>2
  <2>2. \A x \in Requests : /\ InPipe(x)' => x # calling' /\ x \notin lock'.todo
                            /\ x \in lock'.todo => Held(x)'
    BY <1>1, <1>2, <1>3 DEF OrderOK, PipeOK
  <2>3. calling' \notin lock'.todo /\ \A i, j \in DOMAIN requests' : requests'[i] = requests'[j] => i = j
    BY <1>2 DEF OrderOK, PipeOK
  <2> QED  BY <2>1, <2>2, <2>3 DEF PipeOK
<1>6. SentOK'
  BY <1>1 DEF OrderOK, SentOK, SameWith
<1>7. BeforeOK'
  <2>1. ASSUME NEW f \in Requests
        PROVE  /\ before'[f] # {} => command'[f] = "flush"
               /\ \A x \in before'[f] :
                    x # f /\ x \in sent' /\ (Held(x)' \/ (ar'[f] # "waiting" /\ Follows(f, x)'))
               /\ Held(f)' /\ (Queued(f)' \/ With(f, {"get"})' \/ With(f, {"reply"})')
                    => before'[f] = {}
    <3>1. CASE f \in U
      BY <3>1
    <3>2. CASE f \notin U
      <4>1. \A x \in before[f] : x \in Requests /\ (Follows(f, x) => Follows(f, x)')
        BY <1>1 DEF Follows, Ahead, SameWith, S2Types
      <4> QED  BY <1>1, <3>2, <4>1 DEF OrderOK, BeforeOK, SameWith
    <3> QED  BY <3>1, <3>2
  <2> QED  BY <2>1 DEF BeforeOK
<1> QED  BY <1>4, <1>5, <1>6, <1>7 DEF OrderOK

(* The server takes on a read or a flush that is over.                       *)
LEMMA ServerKeeps ==
  ASSUME S2Types, OrderOK, NEW r \in Requests, S2!GotPacket(r) \/ S2!FlushDone(r), ~late'
  PROVE  OrderOK'
<1>1. /\ ar[r] = "waiting" /\ command[r] \in {"read", "flush"} /\ lock.by = "nobody"
      /\ command[r] = "flush" => S2!Flushed(r)
      /\ S2!Hold("server", {r}) /\ ~S2!InWork(r)
      /\ UNCHANGED <<command, sent, ar, requests, thread, calling, before>>
  BY DEF S2!GotPacket, S2!FlushDone, S2!Waiting, S2!Free, S2!Again, S2!program
<1>2. ~Queued(r) /\ thread.req # r
  BY <1>1, InWorkIs DEF S2Types
<1>3. before[r] = {}
  <2>1. ASSUME S2!Flushed(r), NEW x \in before[r] PROVE FALSE
    <3>1. x \in Requests /\ x # r /\ Held(x)
      BY <1>1, <2>1 DEF S2Types, OrderOK, BeforeOK
    <3> QED  BY <2>1, <3>1 DEF S2!Flushed, S2!Listed, Held
  <2> QED  BY <1>1, <2>1 DEF OrderOK, BeforeOK
<1>4. lock.todo = {} /\ lock'.todo = {r} /\ SameWith
  <2>1. lock.todo = {} /\ SameWith
    BY <1>1, SameThread DEF S2Types
  <2>2. PICK rs \in SUBSET Requests : rs = {r}
    OBVIOUS
  <2>3. S2!Hold("server", rs)
    BY <1>1, <2>2
  <2>4. lock'.todo = rs
    BY <2>3, HoldIs
  <2> QED  BY <2>1, <2>2, <2>4
<1> QED  BY <1>1, <1>2, <1>3, <1>4, TakenOnKeeps

(* A write that waits is with nobody.                                        *)
LEMMA TransmitKeeps ==
  ASSUME S2Types, WireOK, OrderOK, NEW r \in Requests, S2!Transmit(r)
  PROVE  OrderOK'
<1> USE S2Constants
<1>1. /\ ar[r] = "waiting" /\ command[r] = "write" /\ lock.by = "nobody"
      /\ ar' = [ar EXCEPT ![r] = "ready"] /\ S2!Hold("writer", {r})
      /\ UNCHANGED <<command, sent, requests, thread, calling, before>>
  BY DEF S2!Transmit, S2!Waiting, S2!Free, S2!Signal, S2!program, S2!ghosts
<1>2. ~Queued(r)
  BY <1>1 DEF OrderOK, PipeOK
<1>3. thread.req # r
  <2> SUFFICES ASSUME thread.req = r PROVE FALSE
    OBVIOUS
  <2>1. thread.at \in Early \cup {"reply", "release", "remove"}
    BY DEF S2Types, S2!At
  <2>2. ~With(r, {"do", "add", "remove"})
    BY <1>1 DEF WireOK
  <2>3. ~With(r, {"get"}) /\ ~With(r, {"reply"}) /\ ~With(r, {"release"})
    BY <1>1 DEF OrderOK, ThreadOK
  <2> QED  BY <2>1, <2>2, <2>3 DEF With, Early
<1>4. before[r] = {}
  BY <1>1 DEF OrderOK, BeforeOK
<1>5. lock.todo = {} /\ lock'.todo = {r} /\ SameWith
  <2>1. lock.todo = {} /\ SameWith
    BY <1>1, SameThread DEF S2Types
  <2>2. PICK rs \in SUBSET Requests : rs = {r}
    OBVIOUS
  <2>3. S2!Hold("writer", rs)
    BY <1>1, <2>2
  <2>4. lock'.todo = rs
    BY <2>3, HoldIs
  <2> QED  BY <2>1, <2>2, <2>4
<1>6. ar'[r] = "ready" /\ \A x \in Requests : x # r => ar'[x] = ar[x]
  BY <1>1 DEF S2Types
<1> QED  BY <1>1, <1>2, <1>3, <1>4, <1>5, <1>6, TakenOnKeeps

LEMMA FlushKeeps ==
  ASSUME S2Types, OrderOK, ~late',
         S2!Flush \/ \E f \in Requests : S2!FlushTimeout(f)
  PROVE  OrderOK'
<1>1. PICK who \in {"server", "thread"}, f \in Requests :
        /\ S2!AbortAll(who, f)
        /\ UNCHANGED <<command, sent, requests, calling>>
        /\ \/ thread' = thread
           \/ thread = S2!At("do", f) /\ thread' = S2!At("add", f)
  <2>1. CASE S2!Flush
    <3>1. thread.req \in Requests /\ thread = S2!At("do", thread.req)
      BY <2>1, ThreadIs DEF S2!Flush, S2Types, S2!At
    <3> QED  BY <2>1, <3>1 DEF S2!Flush, S2!program
  <2>2. CASE \E f \in Requests : S2!FlushTimeout(f)
    BY <2>2 DEF S2!FlushTimeout, S2!program
  <2> QED  BY <2>1, <2>2
<1>2. PICK U \in SUBSET Requests :
        /\ \A x \in U : ar[x] = "waiting"
        /\ lock.todo = {} /\ lock'.todo = U
        /\ ar' = [x \in Requests |-> IF x \in U THEN "ready" ELSE ar[x]]
        /\ before' = [x \in Requests |-> IF x \in U THEN {} ELSE before[x]]
        /\ late' = (late \/ \E x \in U : S2!InWork(x))
  BY <1>1, AbortAllIs
<1>3. \A x \in U : ~Queued(x) /\ thread.req # x
  BY <1>2, InWorkIs DEF S2Types
<1>4. SameWith
  <2>1. CASE thread' = thread
    BY <2>1, SameThread
  <2>2. CASE thread = S2!At("do", f) /\ thread' = S2!At("add", f)
    BY <2>2 DEF SameWith, With, Early, S2!At
  <2> QED  BY <1>1, <2>1, <2>2
<1>5. /\ \A x \in U : ar'[x] = "ready" /\ before'[x] = {}
      /\ \A x \in Requests \ U : ar'[x] = ar[x] /\ before'[x] = before[x]
  BY <1>2
<1> QED  BY <1>1, <1>2, <1>3, <1>4, <1>5, TakenOnKeeps

(* Whoever has taken on to queue a request does so.                          *)
LEMMA IntoPipeKeeps ==
  ASSUME S2Types, OrderOK, S2!Called \/ \E r \in Requests : S2!Push(r)
  PROVE  OrderOK'
<1> USE S2Constants
<1>1. CASE S2!Called
  <2>1. calling \in Requests /\ calling \notin lock.todo
    BY <1>1 DEF S2Types, S2!Called, OrderOK, PipeOK
  <2>2. lock.todo \ {calling} = lock.todo
    BY <2>1
  <2>3. /\ requests' = Append(requests, calling) /\ calling' = None /\ lock' = lock
        /\ UNCHANGED <<command, sent, ar, thread, before>>
    BY <1>1 DEF S2!Called, S2!Queue, S2!program, S2!ghosts
  <2> QED  BY <2>1, <2>2, <2>3, QueuedKeeps
<1>2. ASSUME NEW r \in Requests, S2!Push(r) PROVE OrderOK'
  <2>1. /\ r \in lock.todo /\ requests' = Append(requests, r) /\ S2!Hold(lock.by, lock.todo \ {r})
        /\ UNCHANGED <<command, sent, ar, thread, before, calling>>
    BY <1>2 DEF S2!Push, S2!Queue, S2!program, S2!ghosts
  <2>2. lock.by # "nobody" /\ calling # r
    BY <2>1 DEF S2Types, OrderOK, PipeOK
  <2>3. PICK rest \in SUBSET Requests : rest = lock.todo \ {r}
    BY DEF S2Types
  <2>4. lock'.todo = lock.todo \ {r}
    BY <2>1, <2>2, <2>3, HoldIs
  <2> QED  BY <2>1, <2>2, <2>4, QueuedKeeps
<1> QED  BY <1>1, <1>2

(* The thread takes the first request out of the pipe.                       *)
LEMMA ReadKeeps ==
  ASSUME S2Types, OrderOK, S2!Read
  PROVE  OrderOK'
<1> USE S2Constants
<1>1. /\ thread.at = "read" /\ requests # <<>> /\ requests' = Tail(requests)
      /\ thread' = S2!At("get", Head(requests))
      /\ UNCHANGED <<command, sent, ar, lock, calling, before>>
  BY DEF S2!Read, S2!program, S2!ghosts
<1>2. PICK h \in Requests :
        /\ h = Head(requests) /\ InPipe(h) /\ ~InPipe(h)'
        /\ \A i, j \in DOMAIN requests' : requests'[i] = requests'[j] => i = j
        /\ \A x : InPipe(x) <=> InPipe(x)' \/ x = h
        /\ \A x, f : Ahead(x, f) => InPipe(f)' /\ (x = h \/ Ahead(x, f)')
  <2>1. requests \in Seq(Requests) /\ \A i, j \in DOMAIN requests : requests[i] = requests[j] => i = j
    BY DEF S2Types, OrderOK, PipeOK
  <2> QED  BY <1>1, <2>1, TakenKeeps
<1>3. /\ \A x, places : With(x, places) => "read" \in places
      /\ \A x, places : With(x, places)' <=> x = h /\ "get" \in places
  BY <1>1, <1>2 DEF With, S2!At
<1>4. /\ \A x : ~With(x, Early) /\ ~With(x, {"get"}) /\ ~With(x, {"reply"}) /\ ~With(x, {"release"})
      /\ \A x : ~With(x, {"reply"})' /\ ~With(x, {"release"})'
      /\ \A x : (With(x, Early)' <=> x = h) /\ (With(x, {"get"})' <=> x = h)
  BY <1>3 DEF Early
<1>5. /\ h \in sent /\ h # calling /\ h \notin lock.todo
      /\ ar[h] = "waiting" => command[h] \in {"read", "flush"}
  BY <1>2 DEF OrderOK, PipeOK, Queued
<1>6. \A x \in Requests : /\ Held(x)' <=> Held(x)
                          /\ Queued(x) <=> Queued(x)' \/ x = h
                          /\ x = h => ~Queued(x)'
  BY <1>1, <1>2, <1>4, <1>5 DEF Held, Queued
<1>7. ThreadOK'
  BY <1>1, <1>4, <1>5 DEF ThreadOK
<1>8. PipeOK'
  BY <1>1, <1>2, <1>4, <1>6 DEF OrderOK, PipeOK
<1>9. SentOK'
  BY <1>1, <1>4, <1>6 DEF OrderOK, SentOK
<1>10. BeforeOK'
  <2>1. ASSUME NEW f \in Requests
        PROVE  /\ before'[f] # {} => command'[f] = "flush"
               /\ \A x \in before'[f] :
                    x # f /\ x \in sent' /\ (Held(x)' \/ (ar'[f] # "waiting" /\ Follows(f, x)'))
               /\ Held(f)' /\ (Queued(f)' \/ With(f, {"get"})' \/ With(f, {"reply"})')
                    => before'[f] = {}
    <3>1. \A x \in before[f] : x \in Requests /\ (Follows(f, x) => Follows(f, x)')
      BY <1>1, <1>2, <1>4 DEF Follows, S2Types
    <3>2. Queued(h)
      BY <1>2 DEF Queued
    <3> QED  BY <1>1, <1>4, <1>6, <3>1, <3>2 DEF OrderOK, BeforeOK
  <2> QED  BY <2>1 DEF BeforeOK
<1> QED  BY <1>7, <1>8, <1>9, <1>10 DEF OrderOK

(* ... looks for it in the list,                                             *)
LEMMA GetKeeps ==
  ASSUME S2Types, OrderOK, S2!Get
  PROVE  OrderOK'
<1>1. PICK r \in Requests : r = thread.req /\ thread.at = "get"
  BY ThreadIs DEF S2!Get
<1>2. UNCHANGED <<command, sent, lock, requests, calling, before>>
  BY DEF S2!Get, S2!program, S2!ghosts
<1>3. CASE ar[r] = "no"
  <2>1. ar' = ar /\ thread' = S2!At("do", r)
    BY <1>1, <1>3 DEF S2!Get
  <2>2. SameWith
    BY <1>1, <2>1 DEF SameWith, With, Early, S2!At
  <2> QED  BY <1>2, <2>1, <2>2, PassKeeps
<1>4. CASE ar[r] # "no"
  <2>1. ar' = [ar EXCEPT ![r] = "ready"] /\ thread' = S2!At("reply", r)
    BY <1>1, <1>4 DEF S2!Get
  <2>2. /\ \A x : (With(x, Early) <=> x = r) /\ (With(x, {"get"}) <=> x = r)
        /\ \A x : ~With(x, {"reply"}) /\ ~With(x, {"release"})
        /\ \A x : ~With(x, Early)' /\ ~With(x, {"get"})' /\ ~With(x, {"release"})'
        /\ \A x : With(x, {"reply"})' <=> x = r
    BY <1>1, <2>1 DEF With, Early, S2!At
  <2>3. ar'[r] = "ready" /\ \A x \in Requests : x # r => ar'[x] = ar[x]
    BY <2>1 DEF S2Types
  <2>4. r \in sent /\ ~Queued(r) /\ Held(r)
    BY <1>4, <2>2 DEF OrderOK, ThreadOK, PipeOK, Held
  <2>5. \A x \in Requests : /\ InPipe(x)' <=> InPipe(x)
                            /\ Held(x)' <=> Held(x)
                            /\ Queued(x)' <=> Queued(x)
    BY <1>2, <1>4, <2>2, <2>3 DEF InPipe, Held, Queued
  <2>6. ThreadOK'
    BY <1>2, <2>2, <2>3, <2>4 DEF ThreadOK
  <2>7. PipeOK'
    BY <1>2, <2>2, <2>3, <2>4, <2>5 DEF OrderOK, PipeOK
  <2>8. SentOK'
    BY <1>2, <2>2, <2>4, <2>5 DEF OrderOK, SentOK
  <2>9. BeforeOK'
    <3>1. \A f \in Requests : \A x \in before[f] :
            x \in Requests /\ (x # r /\ Follows(f, x) => Follows(f, x)')
      BY <1>2, <2>2, <2>5 DEF Follows, Ahead, S2Types
    <3>2. \A f \in Requests : ar[f] # "waiting" => ar'[f] # "waiting"
      BY <2>3
    <3> QED  BY <1>2, <2>2, <2>4, <2>5, <3>1, <3>2 DEF OrderOK, BeforeOK
  <2> QED  BY <2>6, <2>7, <2>8, <2>9 DEF OrderOK
<1> QED  BY <1>3, <1>4

(* ... answers it                                                            *)
LEMMA ReplyKeeps ==
  ASSUME S2Types, WireOK, OrderOK, S2!Reply
  PROVE  OrderOK'
<1>1. PICK r \in Requests : r = thread.req /\ thread.at \in {"reply", "do"}
  BY ThreadIs DEF S2!Reply
<1>2. /\ thread' = S2!At("release", r) \/ (thread.at = "do" /\ thread' = S2!At("remove", r))
      /\ sent' = sent \ {r} /\ before' = [f \in Requests |-> before[f] \ {r}]
      /\ UNCHANGED <<command, ar, lock, requests, calling>>
  BY <1>1 DEF S2!Reply
<1>3. /\ \A x : With(x, Early) \/ With(x, {"reply"}) => x = r
      /\ \A x : ~With(x, {"release"}) /\ ~With(x, {"get"})
      /\ \A x : ~With(x, Early)' /\ ~With(x, {"get"})' /\ ~With(x, {"reply"})'
      /\ \A x : With(x, {"release"})' => x = r
      /\ With(r, {"release"})' \/ With(r, {"do", "add", "remove"})
      /\ With(r, {"do", "add", "remove"}) \/ With(r, {"reply"})
      /\ With(r, Early) \/ With(r, {"reply"})
  BY <1>1, <1>2 DEF With, Early, S2!At
<1>4. r \in sent /\ ~Queued(r) /\ ~Held(r)' /\ ar[r] # "waiting"
  BY <1>2, <1>3 DEF OrderOK, ThreadOK, PipeOK, WireOK, Held
<1>5. /\ \A x \in Requests : (InPipe(x)' <=> InPipe(x)) /\ (Queued(x)' <=> Queued(x))
      /\ \A x \in Requests : x # r => (Held(x)' <=> Held(x))
  BY <1>2, <1>3 DEF InPipe, Held, Queued
<1>6. ThreadOK'
  BY <1>2, <1>3, <1>4 DEF ThreadOK
<1>7. PipeOK'
  BY <1>2, <1>3, <1>4, <1>5 DEF OrderOK, PipeOK, Queued
<1>8. SentOK'
  BY <1>2, <1>3, <1>4, <1>5 DEF OrderOK, SentOK
<1>9. BeforeOK'
  <2>1. \A f \in Requests : before'[f] = before[f] \ {r} /\ \A x \in before[f] : x \in Requests
    BY <1>2 DEF S2Types
  <2>2. \A f, x \in Requests : x # r /\ Follows(f, x) => Follows(f, x)'
    BY <1>2, <1>3, <1>5 DEF Follows, Ahead
  <2> QED  BY <1>2, <1>3, <1>4, <1>5, <2>1, <2>2 DEF OrderOK, BeforeOK
<1> QED  BY <1>6, <1>7, <1>8, <1>9 DEF OrderOK

(* ... and takes it off the list.                                            *)
LEMMA ReleaseKeeps ==
  ASSUME S2Types, OrderOK, S2!Release
  PROVE  OrderOK'
<1>1. PICK r \in Requests : r = thread.req /\ thread.at = "release"
  BY ThreadIs DEF S2!Release
<1>2. /\ thread' = S2!At("remove", r) /\ ar' = [ar EXCEPT ![r] = "no"]
      /\ UNCHANGED <<command, sent, lock, requests, calling, before>>
  BY <1>1 DEF S2!Release, S2!program, S2!ghosts
<1>3. /\ \A x : ~With(x, Early) /\ ~With(x, {"get"}) /\ ~With(x, {"reply"})
      /\ \A x : With(x, {"release"}) <=> x = r
      /\ \A x : ~With(x, Early)' /\ ~With(x, {"get"})' /\ ~With(x, {"reply"})'
      /\ \A x : ~With(x, {"release"})'
  BY <1>1, <1>2 DEF With, Early, S2!At
<1>4. ar'[r] = "no" /\ \A x \in Requests : x # r => ar'[x] = ar[x]
  BY <1>2 DEF S2Types
<1>5. \A x \in Requests : /\ InPipe(x)' <=> InPipe(x)
                          /\ Held(x)' <=> Held(x)
                          /\ Queued(x)' <=> Queued(x)
                          /\ ar'[x] = "waiting" => ar[x] = "waiting"
  BY <1>2, <1>3, <1>4 DEF InPipe, Held, Queued
<1>6. ThreadOK'
  BY <1>3 DEF ThreadOK
<1>7. PipeOK'
  BY <1>2, <1>3, <1>5 DEF OrderOK, PipeOK
<1>8. SentOK'
  BY <1>2, <1>3, <1>5 DEF OrderOK, SentOK
<1>9. BeforeOK'
  <2>1. \A f \in Requests : \A x \in before[f] :
          x \in Requests /\ (Follows(f, x) => Follows(f, x)')
    BY <1>2, <1>3, <1>5 DEF Follows, Ahead, S2Types
  <2> QED  BY <1>2, <1>3, <1>5, <2>1 DEF OrderOK, BeforeOK
<1> QED  BY <1>6, <1>7, <1>8, <1>9 DEF OrderOK

(* Or it puts it on the list.                                                *)
LEMMA AddKeeps ==
  ASSUME S2Types, WireOK, OrderOK, S2!Add
  PROVE  OrderOK'
<1>1. PICK r \in Requests : r = thread.req /\ thread.at = "add"
  BY ThreadIs DEF S2!Add
<1>2. /\ thread' = S2!At("trigger", None) /\ ar' = [ar EXCEPT ![r] = "waiting"]
      /\ UNCHANGED <<command, sent, lock, requests, calling, before>>
  BY <1>1 DEF S2!Add, S2!program, S2!ghosts
<1>3. /\ \A x : ~With(x, {"release"}) /\ ~With(x, {"get"}) /\ ~With(x, {"reply"})
      /\ \A x : With(x, Early) <=> x = r
      /\ With(r, {"do", "add", "remove"})
      /\ \A x : ~With(x, Early)' /\ ~With(x, {"get"})' /\ ~With(x, {"reply"})'
      /\ \A x : ~With(x, {"release"})'
  BY <1>1, <1>2 DEF With, Early, S2!At
<1>4. ar'[r] = "waiting" /\ \A x \in Requests : x # r => ar'[x] = ar[x]
  BY <1>2 DEF S2Types
<1>5. r \in sent /\ ar[r] = "no" /\ ~Queued(r)
  BY <1>3 DEF OrderOK, ThreadOK, PipeOK, WireOK
<1>6. /\ \A x \in Requests : (InPipe(x)' <=> InPipe(x)) /\ (Queued(x)' <=> Queued(x))
      /\ \A x \in Requests : x # r => (Held(x)' <=> Held(x))
      /\ Held(r)'
  BY <1>2, <1>3, <1>4 DEF InPipe, Held, Queued
<1>7. ThreadOK'
  BY <1>3 DEF ThreadOK
<1>8. PipeOK'
  BY <1>2, <1>3, <1>4, <1>5, <1>6 DEF OrderOK, PipeOK, Queued
<1>9. SentOK'
  BY <1>2, <1>3, <1>5, <1>6 DEF OrderOK, SentOK
<1>10. BeforeOK'
  <2>1. ASSUME NEW f \in Requests
        PROVE  /\ before'[f] # {} => command'[f] = "flush"
               /\ \A x \in before'[f] :
                    x # f /\ x \in sent' /\ (Held(x)' \/ (ar'[f] # "waiting" /\ Follows(f, x)'))
               /\ Held(f)' /\ (Queued(f)' \/ With(f, {"get"})' \/ With(f, {"reply"})')
                    => before'[f] = {}
    <3>1. \A x \in before[f] : x \in Requests /\ (x # r /\ Follows(f, x) => Follows(f, x)')
      BY <1>2, <1>3, <1>6 DEF Follows, Ahead, S2Types
    <3>2. CASE f = r
      <4>1. \A x : ~Follows(r, x)
        BY <1>5 DEF Follows, Ahead, Queued, InPipe
      <4> QED  BY <1>2, <1>3, <1>5, <1>6, <3>1, <3>2, <4>1 DEF OrderOK, BeforeOK
    <3>3. CASE f # r
      BY <1>2, <1>3, <1>4, <1>6, <3>1, <3>3 DEF OrderOK, BeforeOK
    <3> QED  BY <3>2, <3>3
  <2> QED  BY <2>1 DEF BeforeOK
<1> QED  BY <1>7, <1>8, <1>9, <1>10 DEF OrderOK

(* The other steps do not touch the order.                                   *)
LEMMA OthersKeep ==
  ASSUME S2Types, OrderOK,
         UNCHANGED s2vars \/ S2!Nothing \/ S2!Awake \/ S2!RemPacket \/ S2!Async \/ S2!Trigger
  PROVE  OrderOK'
<1>1. UNCHANGED <<command, sent, ar, lock, requests, calling, before>>
  BY DEF s2vars, S2!Nothing, S2!Awake, S2!RemPacket, S2!Async, S2!Trigger, S2!program, S2!ghosts
<1>2. SameWith
  <2>1. CASE thread' = thread
    BY <2>1, SameThread
  <2>2. CASE S2!RemPacket \/ S2!Async \/ S2!Trigger
    BY <2>2 DEF S2!RemPacket, S2!Async, S2!Trigger, S2!At, SameWith, With, Early
  <2> QED  BY <2>1, <2>2 DEF s2vars, S2!Nothing, S2!Awake
<1> QED  BY <1>1, <1>2, PassKeeps

LEMMA S2NextKeeps ==
  ASSUME S2Inv, [Next]_vars
  PROVE  S2Inv'
<1>1. S2Types /\ WireOK /\ (~late => OrderOK)
  BY DEF S2Inv
<1>2. S2Types' /\ WireOK'
  BY <1>1, TypesKeep, WireKeeps
<1>3. ASSUME ~late' PROVE ~late
  BY <1>3, S2Steps DEF s2vars, S2!Called, S2!Nothing, S2!Awake, S2!Read, S2!Get, S2!Reply,
       S2!Release, S2!RemPacket, S2!Flush, S2!Async, S2!Add, S2!Trigger, S2!BeginIO, S2!AbortIO,
       S2!GotPacket, S2!FlushDone, S2!FlushTimeout, S2!AbortAll, S2!Push, S2!Transmit,
       S2!Again, S2!ghosts
<1>4. ASSUME ~late' PROVE OrderOK'
  <2>1. OrderOK
    BY <1>1, <1>3, <1>4
  <2>2. CASE \/ UNCHANGED s2vars \/ S2!Nothing \/ S2!Awake \/ S2!RemPacket \/ S2!Async
             \/ S2!Trigger
    BY <1>1, <2>1, <2>2, OthersKeep
  <2>3. CASE S2!Read \/ S2!Get \/ S2!Reply \/ S2!Release \/ S2!Add
    BY <1>1, <2>1, <2>3, ReadKeeps, GetKeeps, ReplyKeeps, ReleaseKeeps, AddKeeps
  <2>4. CASE S2!Called \/ \E r \in Requests : S2!Push(r)
    BY <1>1, <2>1, <2>4, IntoPipeKeeps
  <2>5. CASE S2!Flush \/ \E r \in Requests : S2!FlushTimeout(r)
    BY <1>1, <1>4, <2>1, <2>5, FlushKeeps
  <2>6. ASSUME NEW r \in Requests,
               S2!BeginIO(r) \/ S2!AbortIO(r) \/ S2!GotPacket(r) \/ S2!FlushDone(r)
                 \/ S2!Transmit(r)
        PROVE  OrderOK'
    BY <1>1, <1>4, <2>1, <2>6, BeginIOKeeps, AbortIOKeeps, ServerKeeps, TransmitKeeps
  <2> QED  BY <2>2, <2>3, <2>4, <2>5, <2>6, S2Steps
<1> QED  BY <1>2, <1>4 DEF S2Inv

LEMMA S2InitIs == Init => S2Inv
<1> SUFFICES ASSUME Init PROVE S2Inv
  OBVIOUS
<1> USE S2Constants
<1>1. /\ command = [r \in Requests |-> "query"] /\ sent = {}
      /\ s2p = [r \in Requests |-> <<>>] /\ ar = [r \in Requests |-> "no"]
      /\ lock = S2!Unlocked /\ requests = <<>>
      /\ thread = S2!At("read", None) /\ calling = None
      /\ before = [r \in Requests |-> {}]
  BY DEF Init, S2!Init
<1>2. S2Types
  BY <1>1 DEF S2Types, S2!Unlocked
<1>3. /\ \A r : ~With(r, Early) /\ ~With(r, {"get"}) /\ ~With(r, {"reply"}) /\ ~With(r, {"release"})
      /\ \A r : ~With(r, {"do", "add", "remove"}) /\ ~InPipe(r)
  BY <1>1 DEF With, Early, S2!At, InPipe
<1>4. \A r \in Requests : ~Held(r) /\ ~Queued(r) /\ r \notin lock.todo
  BY <1>1, <1>3 DEF Held, Queued, S2!Unlocked
<1>5. WireOK
  <2>1. ASSUME NEW r \in Requests PROVE DOMAIN s2p[r] = {}
    <3>1. s2p[r] = <<>>
      BY <1>1
    <3>2. s2p[r] \in Seq({"sent"}) /\ Len(s2p[r]) = 0
      BY <3>1
    <3> QED  BY <3>2
  <2> QED  BY <1>3, <2>1 DEF WireOK
<1>6. ThreadOK /\ SentOK
  BY <1>1, <1>3, <1>4 DEF ThreadOK, SentOK
<1>7. PipeOK
  BY <1>1, <1>3, <1>4 DEF PipeOK, S2!Unlocked
<1>8. BeforeOK
  BY <1>1 DEF BeforeOK
<1> QED  BY <1>2, <1>5, <1>6, <1>7, <1>8 DEF S2Inv, OrderOK

-----------------------------------------------------------------------------
(* No packet goes on the wire a second time, whenever requests are queued    *)
(* again, aborted or used again, for any number of requests and any openers. *)
THEOREM PacketsAreSentOnce == Spec => []SentOnce
<1>1. S2Inv /\ [Next]_vars => S2Inv'
  BY S2NextKeeps
<1>2. S2Inv => SentOnce
  <2> SUFFICES ASSUME S2Inv, NEW r \in Requests, ar[r] = "waiting", s2p[r] # <<>>
               PROVE  Head(s2p[r]) = "unsent"
    BY DEF SentOnce, S2!SentOnce, S2!Waiting
  <2>1. s2p[r] \in Seq({"unsent", "sent"})
    BY DEF S2Inv, S2Types
  <2>2. 1 \in DOMAIN s2p[r] /\ Head(s2p[r]) = s2p[r][1] /\ s2p[r][1] \in {"unsent", "sent"}
    BY <2>1
  <2>3. ~With(r, {"remove"})
    BY DEF S2Inv, WireOK, With
  <2> QED  BY <2>2, <2>3 DEF S2Inv, WireOK
<1> QED  BY S2InitIs, <1>1, <1>2, PTL DEF Spec

(* What was sent before a flush is answered before it.                       *)
THEOREM FlushIsLast == Spec => []FlushLast
<1>1. S2Inv /\ [Next]_vars => S2Inv'
  BY S2NextKeeps
<1>2. S2Inv => FlushLast
  <2> SUFFICES ASSUME S2Inv, thread.at = "reply", ~late PROVE before[thread.req] = {}
    BY DEF FlushLast, S2!FlushLast
  <2>1. PICK r \in Requests : thread.req = r
    BY ThreadIs DEF S2Inv
  <2>2. With(r, {"reply"}) /\ ~With(r, {"release"})
    BY <2>1 DEF With
  <2>3. ar[r] = "ready"
    BY <2>2 DEF S2Inv, OrderOK, ThreadOK
  <2>4. Held(r)
    BY <2>2, <2>3 DEF Held
  <2> QED  BY <2>1, <2>2, <2>4 DEF S2Inv, OrderOK, BeforeOK
<1> QED  BY S2InitIs, <1>1, <1>2, PTL DEF Spec
=============================================================================
