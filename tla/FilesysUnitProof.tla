-------------------------- MODULE FilesysUnitProof --------------------------
(***************************************************************************)
(* The packets of a unit for any number of units, packets and resets, any  *)
(* limit on started commands and any room in the pipes: each is in one     *)
(* place, is answered once and not forgotten, and the pipes never fill.    *)
(***************************************************************************)
EXTENDS FilesysUnit, FiniteSetTheorems, SequenceTheorems, TLAPS

Holds(s, p) == \E i \in 1 .. Len(s) : s[i] = p
HoldsFrom(s, k, p) == \E i \in 1 .. Len(s) : i >= k /\ s[i] = p
Distinct(s) == \A i, j \in 1 .. Len(s) : s[i] = s[j] => i = j

Messages == Packets \cup {Dummy}

Types ==
  /\ port \in [Units -> Seq(Messages)]
  /\ hpc \in [Units -> {"boot", "loop", "start", "defer", "enqueue", "release", "check"}]
  /\ hmsg \in [Units -> Messages]
  /\ list \in [Units -> Seq(Packets)] /\ scan \in [Units -> Nat] /\ d5 \in [Units -> Nat]
  /\ status \in [Packets -> {"new", "sent", "unstarted", "started", "complete", "timedout"}]
  /\ answers \in [Packets -> {0, 1}]
  /\ ipc \in {"on", "off"} /\ unit_no \in Nat /\ int_requested \in BOOLEAN
  /\ unit_pipe \in [Units -> Seq(Messages)] /\ back_pipe \in [Units -> Nat]
  /\ tpc \in [Units -> {"read", "handle", "sent", "int", "locks", "die", "dead"}]
  /\ tcmd \in [Units -> Messages]
  /\ waitingrecords \in [Units -> SUBSET Packets]
  /\ self \in [Units -> BOOLEAN]
  /\ cmds_sent \in [Units -> Nat] /\ cmds_acked \in [Units -> Nat] /\ cmds_complete \in [Units -> Nat]
  /\ reset_state \in [Units -> {"FS_STARTUP", "FS_GO_DOWN"}]
  /\ reset_sync_sem \in [Units -> Nat] /\ rpc \in Nat

(* How far the reset has come with unit u: the death message is in the pipe, *)
(* or the thread has it and has not yet said so, or the thread is dead.      *)
Reaper(u) ==
  /\ reset_state[u] = "FS_GO_DOWN" <=> rpc >= 2 * u
  /\ rpc < 2 * u => ~Holds(unit_pipe[u], Death) /\ tpc[u] \notin {"die", "dead"}
  /\ rpc = 2 * u =>
       \/ Holds(unit_pipe[u], Death) /\ tpc[u] \notin {"die", "dead"} /\ reset_sync_sem[u] = 0
       \/ ~Holds(unit_pipe[u], Death) /\ tpc[u] = "die" /\ reset_sync_sem[u] = 0
       \/ ~Holds(unit_pipe[u], Death) /\ tpc[u] = "dead"
  /\ rpc > 2 * u => ~Holds(unit_pipe[u], Death) /\ tpc[u] = "dead"

(* Before the handler process has booted there is no unit and nothing to do. *)
Booting(u) ==
  /\ self[u] <=> hpc[u] # "boot"
  /\ hpc[u] = "boot" =>
       /\ port[u] = <<>> /\ list[u] = <<>> /\ d5[u] = 0 /\ back_pipe[u] = 0
       /\ tpc[u] \notin {"sent", "int", "locks"}
       /\ \A p \in Packets : Home(p) = u => status[p] = "new"

(* The packets that the handler process has: each in one place only.         *)
Handled(u) ==
  /\ Distinct(port[u]) /\ Distinct(list[u])
  /\ \A p \in Packets : Holds(port[u], p) => Home(p) = u /\ status[p] = "sent"
  /\ hpc[u] \in {"start", "defer"} =>
       status[hmsg[u]] = "sent" /\ ~Holds(port[u], hmsg[u])
  /\ hpc[u] = "enqueue" =>
       /\ status[hmsg[u]] \in {"started", "complete", "timedout"} /\ answers[hmsg[u]] = 0
       /\ ~Holds(list[u], hmsg[u])
  /\ hpc[u] \in {"start", "defer", "enqueue"} => hmsg[u] \in Packets /\ Home(hmsg[u]) = u
  /\ hpc[u] \notin {"start", "defer", "enqueue"} => hmsg[u] = Dummy
  /\ \A p \in Packets : Holds(list[u], p) =>
       /\ Home(p) = u /\ answers[p] = 0
       /\ status[p] \in {"unstarted", "started", "complete", "timedout"}

(* The packets that the unit's thread has: started ones, which the handler   *)
(* process keeps in its list.                                                *)
Kept(u, p) == Holds(list[u], p) \/ (hpc[u] = "enqueue" /\ hmsg[u] = p)
Has(u, p) ==
  Holds(unit_pipe[u], p) \/ (tpc[u] = "handle" /\ tcmd[u] = p) \/ p \in waitingrecords[u]
Threaded(u) ==
  /\ Distinct(unit_pipe[u])
  /\ \A p \in Packets : Has(u, p) => Home(p) = u /\ status[p] = "started" /\ Kept(u, p)
  /\ \A p \in waitingrecords[u] : ~Holds(unit_pipe[u], p)
  /\ tpc[u] = "handle" =>
       /\ tcmd[u] \in Packets /\ ~Holds(unit_pipe[u], tcmd[u])
       /\ tcmd[u] \notin waitingrecords[u]

(* A packet that is answered is marked.                                      *)
Answered == \A p \in Packets : answers[p] = 1 => status[p] \in {"complete", "timedout"}

(* d5 is the number of started commands that are not answered yet.           *)
Started(u) == {p \in Packets : Holds(list[u], p) /\ status[p] # "unstarted"}
Counted(u) ==
  /\ d5[u] = Cardinality(Started(u)) /\ d5[u] <= MaxStarted
  /\ hpc[u] \in {"start", "enqueue"} => d5[u] < MaxStarted

(* The commands whose locks the thread has still to send back, with those in *)
(* the pipe, are no more than the limit when the pipe has been emptied.      *)
Commands(u) == Len(unit_pipe[u]) - (IF Holds(unit_pipe[u], Death) THEN 1 ELSE 0)
Due(u) == Commands(u) + (IF tpc[u] \in {"handle", "sent", "int", "locks"} THEN 1 ELSE 0)
Open(u) == d5[u] + (IF hpc[u] = "enqueue" THEN 1 ELSE 0)
Locks(u) ==
  /\ back_pipe[u] + Due(u) <= Open(u) + MaxStarted + 1
  /\ hpc[u] = "check" => back_pipe[u] + Due(u) <= MaxStarted + 1

(* The dummy message is under way exactly while an acknowledgment is.        *)
UnderWay(u) == Holds(port[u], Dummy) \/ hpc[u] = "release"
Dummies(u) ==
  /\ ~(Holds(port[u], Dummy) /\ hpc[u] = "release")
  /\ hpc[u] # "boot" => (UnderWay(u) <=> cmds_acked[u] # cmds_complete[u])
  /\ cmds_acked[u] <= cmds_sent[u]

(* Somebody will make the handler process look at its list again.            *)
Call(u) ==
  \/ tpc[u] = "sent"
  \/ /\ cmds_sent[u] # cmds_acked[u]
     /\ tpc[u] = "int" \/ int_requested \/ (ipc = "on" /\ unit_no <= u)
  \/ cmds_acked[u] # cmds_complete[u]
Told(u) ==
  /\ \A p \in Packets :
       Holds(list[u], p) /\ status[p] = "complete" =>
         Call(u) \/ (hpc[u] = "check" /\ HoldsFrom(list[u], scan[u], p))
  /\ hpc[u] = "enqueue" /\ status[hmsg[u]] = "complete" => Call(u)
  /\ hpc[u] = "check" => scan[u] >= 1

UnitInv(u) ==
  /\ Reaper(u) /\ Booting(u) /\ Handled(u) /\ Threaded(u)
  /\ Counted(u) /\ Locks(u) /\ Dummies(u) /\ Told(u)

IInv == Types /\ Answered /\ \A u \in Units : UnitInv(u)

-----------------------------------------------------------------------------
(* What a sequence holds after a message is added to it or taken from it.    *)

LEMMA Nothing == (\A p : ~Holds(<<>>, p)) /\ Distinct(<<>>) /\ Len(<<>>) = 0
BY DEF Holds, Distinct

LEMMA Appended ==
  ASSUME NEW S, NEW s \in Seq(S), NEW x \in S
  PROVE  /\ Append(s, x) \in Seq(S) /\ Len(Append(s, x)) = Len(s) + 1
         /\ \A p : Holds(Append(s, x), p) <=> Holds(s, p) \/ p = x
         /\ Distinct(s) /\ ~Holds(s, x) => Distinct(Append(s, x))
<1> DEFINE n == Len(s)
           a == Append(s, x)
<1>1. /\ n \in Nat /\ a \in Seq(S) /\ Len(a) = n + 1
      /\ \A i \in 1 .. n : a[i] = s[i]
      /\ a[n + 1] = x
  BY AppendProperties, LenProperties
<1> HIDE DEF a
<1>2. \A i \in 1 .. n + 1 : i \in 1 .. n \/ i = n + 1
  BY <1>1
<1>3. 1 .. n \subseteq 1 .. n + 1 /\ n + 1 \in 1 .. n + 1
  BY <1>1
<1>4. \A p : Holds(a, p) <=> Holds(s, p) \/ p = x
  <2> SUFFICES ASSUME NEW p PROVE Holds(a, p) <=> Holds(s, p) \/ p = x
    OBVIOUS
  <2>1. ASSUME Holds(a, p) PROVE Holds(s, p) \/ p = x
    BY <1>1, <1>2, <2>1 DEF Holds
  <2>2. ASSUME Holds(s, p) \/ p = x PROVE Holds(a, p)
    BY <1>1, <1>3, <2>2 DEF Holds
  <2> QED BY <2>1, <2>2
<1>5. ASSUME Distinct(s), ~Holds(s, x) PROVE Distinct(a)
  <2> SUFFICES ASSUME NEW i \in 1 .. n + 1, NEW j \in 1 .. n + 1, a[i] = a[j] PROVE i = j
    BY <1>1 DEF Distinct
  <2> QED BY <1>1, <1>2, <1>5 DEF Distinct, Holds
<1> QED BY <1>1, <1>4, <1>5 DEF a

LEMMA HeadTaken ==
  ASSUME NEW S, NEW s \in Seq(S), s # <<>>
  PROVE  /\ Tail(s) \in Seq(S) /\ Head(s) \in S
         /\ Len(s) \in Nat \ {0} /\ Len(Tail(s)) = Len(s) - 1
         /\ \A p : Holds(s, p) <=> Holds(Tail(s), p) \/ p = Head(s)
         /\ Distinct(s) => Distinct(Tail(s)) /\ ~Holds(Tail(s), Head(s))
<1> DEFINE n == Len(s)
           t == Tail(s)
<1>1. /\ n \in Nat \ {0} /\ t \in Seq(S) /\ Head(s) = s[1] /\ Head(s) \in S /\ Len(t) = n - 1
      /\ \A i \in 1 .. n - 1 : t[i] = s[i + 1]
  BY HeadTailProperties, EmptySeq
<1> HIDE DEF t, n
<1>2. \A i \in 1 .. n - 1 : i + 1 \in 1 .. n /\ i + 1 # 1
  BY <1>1
<1>3. \A i \in 1 .. n : i = 1 \/ (i - 1 \in 1 .. n - 1 /\ (i - 1) + 1 = i)
  BY <1>1
<1>4. ASSUME NEW p PROVE Holds(s, p) <=> Holds(t, p) \/ p = Head(s)
  <2>1. ASSUME Holds(s, p) PROVE Holds(t, p) \/ p = Head(s)
    <3>1. PICK i \in 1 .. n : s[i] = p
      BY <2>1 DEF Holds, n
    <3> QED BY <1>1, <1>3, <3>1 DEF Holds
  <2>2. ASSUME Holds(t, p) PROVE Holds(s, p)
    BY <1>1, <1>2, <2>2 DEF Holds, n
  <2>3. 1 \in 1 .. n
    BY <1>1
  <2> QED BY <1>1, <2>1, <2>2, <2>3 DEF Holds, n
<1>5. ASSUME Distinct(s) PROVE Distinct(t) /\ ~Holds(t, Head(s))
  <2>1. ASSUME NEW i \in 1 .. n - 1, NEW j \in 1 .. n - 1, t[i] = t[j] PROVE i = j
    <3>1. i + 1 \in 1 .. n /\ j + 1 \in 1 .. n /\ s[i + 1] = s[j + 1]
      BY <1>1, <1>2, <2>1
    <3>2. i + 1 = j + 1
      BY <1>5, <3>1 DEF Distinct, n
    <3> QED BY <3>2
  <2>2. ASSUME Holds(t, Head(s)) PROVE FALSE
    <3>1. PICK i \in 1 .. n - 1 : s[i + 1] = s[1]
      BY <1>1, <2>2 DEF Holds
    <3>2. i + 1 \in 1 .. n /\ 1 \in 1 .. n /\ i + 1 # 1
      BY <1>1, <1>2
    <3> QED BY <1>5, <3>1, <3>2 DEF Distinct, n
  <2> QED BY <1>1, <2>1, <2>2 DEF Distinct
<1> QED BY <1>1, <1>4, <1>5 DEF t, n

LEMMA InFront ==
  ASSUME NEW S, NEW s \in Seq(S), NEW x \in S
  PROVE  /\ <<x>> \o s \in Seq(S)
         /\ \A p : Holds(<<x>> \o s, p) <=> Holds(s, p) \/ p = x
         /\ Distinct(s) /\ ~Holds(s, x) => Distinct(<<x>> \o s)
<1> DEFINE n == Len(s)
           a == <<x>> \o s
<1>1. /\ n \in Nat /\ a \in Seq(S) /\ Len(a) = n + 1 /\ a[1] = x
      /\ \A i \in 1 .. n : a[i + 1] = s[i]
  BY LenProperties
<1> HIDE DEF a, n
<1>2. \A i \in 1 .. n + 1 : i = 1 \/ (i - 1 \in 1 .. n /\ (i - 1) + 1 = i)
  BY <1>1
<1>3. 1 \in 1 .. n + 1 /\ \A i \in 1 .. n : i + 1 \in 1 .. n + 1
  BY <1>1
<1>4. ASSUME NEW p PROVE Holds(a, p) <=> Holds(s, p) \/ p = x
  <2>1. ASSUME Holds(a, p) PROVE Holds(s, p) \/ p = x
    <3>1. PICK i \in 1 .. n + 1 : a[i] = p
      BY <1>1, <2>1 DEF Holds
    <3> QED BY <1>1, <1>2, <3>1 DEF Holds, n
  <2>2. ASSUME Holds(s, p) \/ p = x PROVE Holds(a, p)
    BY <1>1, <1>3, <2>2 DEF Holds, n
  <2> QED BY <2>1, <2>2
<1>5. ASSUME Distinct(s), ~Holds(s, x) PROVE Distinct(a)
  <2> SUFFICES ASSUME NEW i \in 1 .. n + 1, NEW j \in 1 .. n + 1, a[i] = a[j] PROVE i = j
    BY <1>1 DEF Distinct
  <2>1. CASE i = 1 /\ j = 1
    BY <2>1
  <2>2. CASE i # 1 /\ j # 1
    <3>1. i - 1 \in 1 .. n /\ j - 1 \in 1 .. n /\ s[i - 1] = s[j - 1]
      BY <1>1, <1>2, <2>2
    <3>2. i - 1 = j - 1
      BY <1>5, <3>1 DEF Distinct, n
    <3> QED BY <3>2
  <2>3. CASE i = 1 /\ j # 1
    <3>1. j - 1 \in 1 .. n /\ s[j - 1] = x
      BY <1>1, <1>2, <1>5, <2>3
    <3> QED BY <1>5, <3>1 DEF Holds, n
  <2>4. CASE i # 1 /\ j = 1
    <3>1. i - 1 \in 1 .. n /\ s[i - 1] = x
      BY <1>1, <1>2, <1>5, <2>4
    <3> QED BY <1>5, <3>1 DEF Holds, n
  <2> QED BY <2>1, <2>2, <2>3, <2>4
<1> QED BY <1>1, <1>4, <1>5 DEF a

LEMMA Removed ==
  ASSUME NEW S, NEW s \in Seq(S), NEW k \in 1 .. Len(s), Distinct(s)
  PROVE  /\ RemoveAt(s, k) \in Seq(S) /\ Distinct(RemoveAt(s, k))
         /\ \A p : Holds(RemoveAt(s, k), p) <=> Holds(s, p) /\ p # s[k]
         /\ \A p : HoldsFrom(s, k, p) /\ p # s[k] => HoldsFrom(RemoveAt(s, k), k, p)
<1> DEFINE n == Len(s)
           r == RemoveAt(s, k)
<1>1. n \in Nat /\ k \in Nat /\ k >= 1 /\ k <= n
  BY LenProperties
<1>2. /\ r \in Seq(S) /\ Len(r) = n - 1
      /\ \A i \in 1 .. n - 1 : r[i] = IF i < k THEN s[i] ELSE s[i + 1]
  <2> DEFINE a == SubSeq(s, 1, k - 1)
             b == SubSeq(s, k + 1, n)
  <2>0. \A i \in 1 .. n : s[i] \in S
    BY ElementOfSeq
  <2>1. a \in Seq(S) /\ Len(a) = k - 1 /\ \A i \in 1 .. k - 1 : a[i] = s[i]
    <3>1. \A i \in 1 .. k - 1 : s[i] \in S
      BY <1>1, <2>0
    <3> QED BY <1>1, <3>1, SubSeqProperties
  <2>2. b \in Seq(S) /\ Len(b) = n - k /\ \A i \in 1 .. n - k : b[i] = s[k + i]
    <3>1. \A i \in k + 1 .. n : s[i] \in S
      BY <1>1, <2>0
    <3>2. /\ b \in Seq(S) /\ Len(b) = IF k + 1 <= n THEN n - (k + 1) + 1 ELSE 0
          /\ \A i \in 1 .. n - (k + 1) + 1 : b[i] = s[(k + 1) + i - 1]
      BY <1>1, <3>1, SubSeqProperties
    <3>3. Len(b) = n - k /\ n - (k + 1) + 1 = n - k
      BY <1>1, <3>2
    <3>4. ASSUME NEW i \in 1 .. n - k PROVE b[i] = s[k + i]
      <4>1. (k + 1) + i - 1 = k + i
        BY <1>1
      <4> QED BY <3>2, <3>3, <4>1
    <3> QED BY <3>2, <3>3, <3>4
  <2>3. r = a \o b
    BY DEF RemoveAt
  <2> HIDE DEF a, b, r
  <2>4. /\ a \o b \in Seq(S) /\ Len(a \o b) = Len(a) + Len(b)
        /\ \A i \in 1 .. Len(a) + Len(b) :
             (a \o b)[i] = IF i <= Len(a) THEN a[i] ELSE b[i - Len(a)]
    BY <2>1, <2>2, ConcatProperties
  <2>5. Len(a) + Len(b) = n - 1
    BY <1>1, <2>1, <2>2
  <2>6. ASSUME NEW i \in 1 .. n - 1 PROVE r[i] = IF i < k THEN s[i] ELSE s[i + 1]
    <3>1. r[i] = IF i <= k - 1 THEN a[i] ELSE b[i - (k - 1)]
      BY <2>1, <2>3, <2>4, <2>5
    <3>2. CASE i < k
      <4>1. i \in 1 .. k - 1
        BY <1>1, <3>2
      <4> QED BY <2>1, <3>1, <3>2, <4>1
    <3>3. CASE i >= k
      <4>1. i - (k - 1) \in 1 .. n - k /\ k + (i - (k - 1)) = i + 1 /\ ~(i <= k - 1) /\ ~(i < k)
        BY <1>1, <3>3
      <4> QED BY <2>2, <3>1, <4>1
    <3> QED BY <1>1, <3>2, <3>3
  <2> QED BY <2>3, <2>4, <2>5, <2>6
<1> HIDE DEF r, n
<1>3. \A i \in 1 .. n - 1 : i < k => i \in 1 .. n /\ i # k /\ r[i] = s[i]
  BY <1>1, <1>2
<1>4. \A i \in 1 .. n - 1 : i >= k => i + 1 \in 1 .. n /\ i + 1 # k /\ r[i] = s[i + 1]
  BY <1>1, <1>2
<1>5. \A i \in 1 .. n : i < k => i \in 1 .. n - 1 /\ r[i] = s[i]
  BY <1>1, <1>2
<1>6. \A i \in 1 .. n : i > k => i - 1 \in 1 .. n - 1 /\ i - 1 >= k /\ r[i - 1] = s[i]
  <2> SUFFICES ASSUME NEW i \in 1 .. n, i > k
               PROVE  i - 1 \in 1 .. n - 1 /\ i - 1 >= k /\ r[i - 1] = s[i]
    OBVIOUS
  <2>1. i - 1 \in 1 .. n - 1 /\ i - 1 >= k /\ (i - 1) + 1 = i
    BY <1>1
  <2> QED BY <1>4, <2>1
<1>7. Distinct(r)
  <2> SUFFICES ASSUME NEW i \in 1 .. n - 1, NEW j \in 1 .. n - 1, r[i] = r[j] PROVE i = j
    BY <1>2 DEF Distinct
  <2>1. PICK x \in 1 .. n : r[i] = s[x] /\ x = IF i < k THEN i ELSE i + 1
    BY <1>1, <1>3, <1>4
  <2>2. PICK y \in 1 .. n : r[j] = s[y] /\ y = IF j < k THEN j ELSE j + 1
    BY <1>1, <1>3, <1>4
  <2>3. x = y
    BY <2>1, <2>2 DEF Distinct, n
  <2> QED BY <1>1, <2>1, <2>2, <2>3
<1>8. ASSUME NEW p PROVE Holds(r, p) <=> Holds(s, p) /\ p # s[k]
  <2>1. ASSUME Holds(r, p) PROVE Holds(s, p) /\ p # s[k]
    <3>1. PICK i \in 1 .. n - 1 : r[i] = p
      BY <1>2, <2>1 DEF Holds
    <3>2. PICK x \in 1 .. n : x # k /\ r[i] = s[x]
      BY <1>1, <1>3, <1>4
    <3>3. s[x] # s[k]
      BY <3>2 DEF Distinct, n
    <3> QED BY <3>1, <3>2, <3>3 DEF Holds, n
  <2>2. ASSUME Holds(s, p), p # s[k] PROVE Holds(r, p)
    <3>1. PICK i \in 1 .. n : s[i] = p
      BY <2>2 DEF Holds, n
    <3>2. i < k \/ i > k
      BY <1>1, <2>2, <3>1
    <3> QED BY <1>2, <1>5, <1>6, <3>1, <3>2 DEF Holds
  <2> QED BY <2>1, <2>2
<1>9. ASSUME NEW p, HoldsFrom(s, k, p), p # s[k] PROVE HoldsFrom(r, k, p)
  <2>1. PICK i \in 1 .. n : i >= k /\ s[i] = p
    BY <1>9 DEF HoldsFrom, n
  <2>2. i > k
    BY <1>1, <1>9, <2>1
  <2> QED BY <1>2, <1>6, <2>1, <2>2 DEF HoldsFrom
<1> QED BY <1>2, <1>7, <1>8, <1>9 DEF r

(* A sequence without repetitions is as long as what it holds is numerous.   *)
LEMMA AsLongAsHeld ==
  ASSUME NEW S, NEW s \in Seq(S), Distinct(s)
  PROVE  /\ IsFiniteSet({p \in S : Holds(s, p)})
         /\ Cardinality({p \in S : Holds(s, p)}) = Len(s)
<1> DEFINE n == Len(s)
           T == {p \in S : Holds(s, p)}
           f == [i \in 1 .. n |-> s[i]]
<1>1. n \in Nat
  BY LenProperties
<1>2. IsFiniteSet(1 .. n) /\ Cardinality(1 .. n) = n
  BY <1>1, FS_Interval, SMTT(30)
<1>3. f \in Bijection(1 .. n, T)
  <2>1. \A i \in 1 .. n : s[i] \in S
    BY ElementOfSeq
  <2>2. f \in [1 .. n -> T]
    BY <2>1 DEF Holds
  <2>3. \A i, j \in 1 .. n : f[i] = f[j] => i = j
    BY DEF Distinct
  <2>4. \A p \in T : \E i \in 1 .. n : f[i] = p
    BY DEF Holds
  <2> QED BY <2>2, <2>3, <2>4 DEF Bijection, Injection, Surjection, IsInjective
<1>4. ExistsBijection(1 .. n, T)
  BY <1>3 DEF ExistsBijection
<1> QED BY <1>2, <1>4, FS_Bijection

-----------------------------------------------------------------------------
(* Which parts of the invariant a step leaves alone.                         *)

LEMMA Basics ==
  /\ NUnits \in Nat /\ NPackets \in Nat /\ MaxStarted \in Nat /\ MaxStarted >= 1
  /\ Units \subseteq Nat /\ \A u \in Units : u >= 1 /\ u <= NUnits
  /\ Death = Dummy /\ Dummy \notin Packets /\ Dummy \in Messages /\ Packets \subseteq Messages
  /\ \A p \in Packets : Home(p) \in Units
<1>1. Dummy \notin Packets
  BY DEF Dummy, Packets, Units
<1> QED BY <1>1, UnitAssumption DEF Units, Packets, Home, Messages, Death, Dummy

LEMMA PacketsFinite == IsFiniteSet(Packets)
<1>1. IsFiniteSet(Units) /\ IsFiniteSet(1 .. NPackets)
  BY Basics, FS_Interval DEF Units
<1> QED BY <1>1, FS_Product DEF Packets

(* The packets of unit u keep their status, and their number of answers.     *)
Untouched(u) ==
  \A p \in Packets : Home(p) = u => status'[p] = status[p] /\ answers'[p] = answers[p]

LEMMA ReaperStays ==
  ASSUME NEW u \in Units, Reaper(u), rpc' = rpc, unit_pipe'[u] = unit_pipe[u], tpc'[u] = tpc[u],
         reset_state'[u] = reset_state[u], reset_sync_sem'[u] = reset_sync_sem[u]
  PROVE  Reaper(u)'
  BY DEF Reaper

LEMMA BootingStays ==
  ASSUME NEW u \in Units, Booting(u), Untouched(u), self'[u] = self[u], hpc'[u] = hpc[u],
         port'[u] = port[u], list'[u] = list[u], d5'[u] = d5[u], back_pipe'[u] = back_pipe[u],
         tpc'[u] = tpc[u]
  PROVE  Booting(u)'
  BY DEF Booting, Untouched

\* Once it has booted.
LEMMA BootedStays ==
  ASSUME NEW u \in Units, Booting(u), hpc[u] # "boot", self'[u] = self[u], hpc'[u] # "boot"
  PROVE  Booting(u)'
  BY DEF Booting

LEMMA HandledStays ==
  ASSUME NEW u \in Units, Handled(u), Untouched(u), hpc'[u] = hpc[u], hmsg'[u] = hmsg[u],
         port'[u] = port[u], list'[u] = list[u]
  PROVE  Handled(u)'
  BY DEF Handled, Untouched

LEMMA ThreadedStays ==
  ASSUME NEW u \in Units, Threaded(u), unit_pipe'[u] = unit_pipe[u],
         tpc'[u] = "handle" <=> tpc[u] = "handle", tcmd'[u] = tcmd[u],
         waitingrecords'[u] = waitingrecords[u],
         \A p \in Packets : Has(u, p) /\ status[p] = "started" =>
           status'[p] = status[p] /\ (Kept(u, p) => Kept(u, p)')
  PROVE  Threaded(u)'
<1>1. \A p \in Packets : Has(u, p)' <=> Has(u, p)
  BY DEF Has
<1> QED BY <1>1 DEF Threaded

LEMMA CountedStays ==
  ASSUME NEW u \in Units, Counted(u), list'[u] = list[u], d5'[u] = d5[u],
         hpc'[u] \in {"start", "enqueue"} => hpc[u] \in {"start", "enqueue"} \/ d5[u] < MaxStarted,
         \A p \in Packets : Holds(list[u], p) =>
           (status'[p] = "unstarted" <=> status[p] = "unstarted")
  PROVE  Counted(u)'
<1>1. Started(u)' = Started(u)
  BY DEF Started
<1> QED BY <1>1 DEF Counted

LEMMA LocksStay ==
  ASSUME NEW u \in Units, Locks(u), unit_pipe'[u] = unit_pipe[u], back_pipe'[u] = back_pipe[u],
         d5'[u] = d5[u], hpc'[u] = "enqueue" <=> hpc[u] = "enqueue",
         hpc'[u] = "check" => hpc[u] = "check",
         tpc'[u] \in {"handle", "sent", "int", "locks"} <=> tpc[u] \in {"handle", "sent", "int", "locks"}
  PROVE  Locks(u)'
<1>1. Due(u)' = Due(u) /\ Open(u)' = Open(u)
  BY DEF Due, Open, Commands
<1> QED BY <1>1 DEF Locks

LEMMA DummiesStay ==
  ASSUME NEW u \in Units, Dummies(u), hpc[u] # "boot" \/ hpc'[u] = "boot",
         hpc'[u] = "release" <=> hpc[u] = "release",
         Holds(port'[u], Dummy) <=> Holds(port[u], Dummy),
         cmds_acked'[u] = cmds_acked[u], cmds_complete'[u] = cmds_complete[u],
         cmds_acked[u] <= cmds_sent[u] => cmds_acked[u] <= cmds_sent'[u]
  PROVE  Dummies(u)'
  BY DEF Dummies, UnderWay

LEMMA ToldStays ==
  ASSUME NEW u \in Units, Told(u), Call(u) => Call(u)', list'[u] = list[u], scan'[u] = scan[u],
         hpc'[u] = "check" <=> hpc[u] = "check", hpc'[u] = "enqueue" => hpc[u] = "enqueue",
         hpc'[u] = "enqueue" => hmsg'[u] = hmsg[u] /\ status'[hmsg[u]] = status[hmsg[u]],
         \A p \in Packets : Holds(list[u], p) => status'[p] = status[p]
  PROVE  Told(u)'
<1>1. ASSUME NEW p \in Packets, Holds(list'[u], p), status'[p] = "complete"
      PROVE  Call(u)' \/ (hpc'[u] = "check" /\ HoldsFrom(list'[u], scan'[u], p))
  BY <1>1 DEF Told
<1>2. ASSUME hpc'[u] = "enqueue", status'[hmsg'[u]] = "complete" PROVE Call(u)'
  BY <1>2 DEF Told
<1> QED BY <1>1, <1>2 DEF Told

(* Everything of unit u is as it was, but for a request of the interrupt and *)
(* a reset.                                                                  *)
Same(u) ==
  /\ port'[u] = port[u] /\ hpc'[u] = hpc[u] /\ hmsg'[u] = hmsg[u]
  /\ list'[u] = list[u] /\ scan'[u] = scan[u] /\ d5'[u] = d5[u]
  /\ unit_pipe'[u] = unit_pipe[u] /\ back_pipe'[u] = back_pipe[u]
  /\ tpc'[u] = tpc[u] /\ tcmd'[u] = tcmd[u] /\ waitingrecords'[u] = waitingrecords[u]
  /\ self'[u] = self[u] /\ cmds_sent'[u] = cmds_sent[u] /\ cmds_acked'[u] = cmds_acked[u]
  /\ cmds_complete'[u] = cmds_complete[u] /\ reset_state'[u] = reset_state[u]
  /\ reset_sync_sem'[u] = reset_sync_sem[u]

LEMMA SameStays ==
  ASSUME NEW u \in Units, UnitInv(u), Same(u), Untouched(u), Reaper(u)', Call(u) => Call(u)'
  PROVE  UnitInv(u)'
<1>1. Booting(u)' /\ Handled(u)'
  BY BootingStays, HandledStays DEF UnitInv, Same
<1>2. \A p \in Packets : Holds(list[u], p) => status'[p] = status[p]
  BY DEF UnitInv, Handled, Untouched
<1>3. hpc[u] = "enqueue" => status'[hmsg[u]] = status[hmsg[u]]
  BY DEF UnitInv, Handled, Untouched
<1>4. Threaded(u)'
  <2>1. \A p \in Packets : Kept(u, p) => Kept(u, p)'
    BY DEF Kept, Same
  <2>2. \A p \in Packets : Has(u, p) => status'[p] = status[p]
    BY DEF UnitInv, Threaded, Untouched
  <2> QED BY <2>1, <2>2, ThreadedStays DEF UnitInv, Same
<1>5. Counted(u)'
  BY <1>2, CountedStays DEF UnitInv, Same
<1>6. Locks(u)'
  BY LocksStay DEF UnitInv, Same
<1>7. Dummies(u)'
  BY DummiesStay DEF UnitInv, Same
<1>8. Told(u)'
  BY <1>2, <1>3, ToldStays DEF UnitInv, Same
<1> QED BY <1>1, <1>4, <1>5, <1>6, <1>7, <1>8 DEF UnitInv

Globals == UNCHANGED <<rpc, ipc, unit_no>> /\ (int_requested => int_requested')
Apart(u) == \A v \in Units \ {u} : Same(v) /\ Untouched(v)

(* A step of one unit's handler process or thread leaves the others alone.   *)
LEMMA Elsewhere ==
  ASSUME IInv, NEW u \in Units, Globals, Apart(u), Types', Answered', UnitInv(u)'
  PROVE  IInv'
<1> SUFFICES ASSUME NEW v \in Units, v # u PROVE UnitInv(v)'
  BY DEF IInv
<1>1. Same(v) /\ Untouched(v) /\ UnitInv(v)
  BY DEF Apart, IInv
<1>2. Reaper(v)'
  BY <1>1, ReaperStays DEF UnitInv, Same, Globals
<1>3. Call(v) => Call(v)'
  BY <1>1 DEF Call, Same, Globals
<1> QED BY <1>1, <1>2, <1>3, SameStays

-----------------------------------------------------------------------------
(* The steps of the handler process                                          *)

LEMMA HBootKeeps ==
  ASSUME IInv, NEW u \in Units, HBoot(u)
  PROVE  IInv'
<1> USE DEF HBoot, HGoto, Update, intVars, threadVars, resetVars
<1>1. Types /\ Answered /\ UnitInv(u)
  BY DEF IInv
<1>2. Types' /\ Answered' /\ Globals
  BY <1>1 DEF Types, Answered, Globals
<1>3. Apart(u) /\ Untouched(u)
  BY <1>1 DEF Apart, Same, Untouched, Types
<1>4. /\ hpc[u] = "boot" /\ hpc'[u] = "loop" /\ self'[u] = TRUE
      /\ cmds_sent'[u] = 0 /\ cmds_acked'[u] = 0 /\ cmds_complete'[u] = 0
      /\ port[u] = <<>> /\ list[u] = <<>>
  BY <1>1 DEF Types, UnitInv, Booting
<1>5. Reaper(u)'
  BY <1>1, ReaperStays DEF UnitInv
<1>6. Booting(u)'
  BY <1>4 DEF Booting
<1>7. Handled(u)'
  BY <1>1, <1>4 DEF UnitInv, Handled
<1>8. Threaded(u)'
  <2>1. \A p \in Packets : Kept(u, p) => Kept(u, p)'
    BY <1>4 DEF Kept
  <2> QED BY <1>1, <2>1, ThreadedStays DEF UnitInv
<1>9. Counted(u)' /\ Locks(u)'
  BY <1>1, <1>4, CountedStays, LocksStay DEF UnitInv
<1>10. Dummies(u)'
  BY <1>4, Nothing DEF Dummies, UnderWay
<1>11. Told(u)'
  BY <1>4, Nothing DEF Told
<1> QED BY <1>2, <1>3, <1>5, <1>6, <1>7, <1>8, <1>9, <1>10, <1>11, Elsewhere DEF UnitInv

LEMMA SendKeeps ==
  ASSUME IInv, NEW p \in Packets, Send(p)
  PROVE  IInv'
<1> USE DEF Send, Update, intVars, threadVars, cmdsVars, resetVars
<1>0. PICK u \in Units : u = Home(p)
  BY Basics
<1>1. Types /\ Answered /\ UnitInv(u) /\ Booting(u) /\ Handled(u) /\ Threaded(u)
  BY DEF IInv, UnitInv
<1>2. /\ port'[u] = Append(port[u], p) /\ status[p] = "new" /\ status'[p] = "sent"
      /\ \A q \in Packets \ {p} : status'[q] = status[q]
      /\ hpc[u] # "boot" /\ p # Dummy
  BY <1>0, <1>1, Basics DEF Types
<1>3. /\ Append(port[u], p) \in Seq(Messages)
      /\ \A q : Holds(port'[u], q) <=> Holds(port[u], q) \/ q = p
      /\ Distinct(port[u]) /\ ~Holds(port[u], p) => Distinct(port'[u])
  <2>1. port[u] \in Seq(Messages) /\ p \in Messages
    BY <1>1, Basics DEF Types
  <2> QED BY <1>2, <2>1, Appended
<1>4. Types' /\ Answered' /\ Globals
  BY <1>0, <1>1, <1>2, <1>3 DEF Types, Answered, Globals
<1>5. Apart(u)
  BY <1>0, <1>1, <1>2 DEF Apart, Same, Untouched, Types
<1>6. Reaper(u)'
  BY <1>1, ReaperStays DEF UnitInv
<1>7. Booting(u)'
  BY <1>1, <1>2, BootedStays
<1>8. Handled(u)'
  BY <1>0, <1>1, <1>2, <1>3 DEF Handled
<1>9. Threaded(u)'
  <2>1. \A q \in Packets : Kept(u, q) => Kept(u, q)'
    BY DEF Kept
  <2>2. \A q \in Packets : status[q] = "started" => status'[q] = status[q]
    BY <1>2
  <2> QED BY <1>1, <2>1, <2>2, ThreadedStays
<1>10. Counted(u)' /\ Locks(u)'
  <2>1. \A q \in Packets : Holds(list[u], q) => status'[q] = status[q]
    BY <1>1, <1>2 DEF Handled
  <2> QED BY <1>1, <2>1, CountedStays, LocksStay DEF UnitInv
<1>11. Dummies(u)'
  BY <1>1, <1>2, <1>3, DummiesStay DEF UnitInv
<1>12. Told(u)'
  <2>1. \A q \in Packets : Holds(list[u], q) => status'[q] = status[q]
    BY <1>1, <1>2 DEF Handled
  <2>2. hpc[u] = "enqueue" => status'[hmsg[u]] = status[hmsg[u]]
    BY <1>1, <1>2 DEF Handled
  <2>3. Call(u) => Call(u)'
    BY DEF Call
  <2> QED BY <1>1, <2>1, <2>2, <2>3, ToldStays DEF UnitInv
<1> QED BY <1>4, <1>5, <1>6, <1>7, <1>8, <1>9, <1>10, <1>11, <1>12, Elsewhere DEF UnitInv

LEMMA HGetMsgKeeps ==
  ASSUME IInv, NEW u \in Units, HGetMsg(u)
  PROVE  IInv'
<1> USE DEF HGetMsg, HGoto, Update, intVars, threadVars, cmdsVars, resetVars
<1>1. /\ Types /\ Answered /\ UnitInv(u) /\ Reaper(u) /\ Booting(u) /\ Handled(u) /\ Threaded(u)
      /\ Counted(u) /\ Locks(u) /\ Dummies(u) /\ Told(u)
  BY DEF IInv, UnitInv
<1>2. PICK m : m = Head(port[u])
  OBVIOUS
<1>3. /\ m \in Messages /\ Tail(port[u]) \in Seq(Messages)
      /\ \A q : Holds(port[u], q) <=> Holds(Tail(port[u]), q) \/ q = m
      /\ Distinct(Tail(port[u])) /\ ~Holds(Tail(port[u]), m)
  BY <1>1, <1>2, HeadTaken DEF Types, Handled
<1>4. /\ hpc[u] = "loop" /\ hmsg'[u] = m /\ port'[u] = Tail(port[u])
      /\ hpc'[u] \in {"release", "defer", "start"}
      /\ hpc'[u] = "release" <=> m = Dummy
      /\ hpc'[u] = "start" => ~(d5[u] >= MaxStarted)
  BY <1>1, <1>2 DEF Types
<1>5. d5[u] \in Nat /\ MaxStarted \in Nat
  BY <1>1, Basics DEF Types
<1>6. Types' /\ Answered' /\ Globals
  BY <1>1, <1>2, <1>3 DEF Types, Answered, Globals
<1>7. Apart(u) /\ Untouched(u)
  BY <1>1 DEF Apart, Same, Untouched, Types
<1>8. Reaper(u)'
  BY <1>1, ReaperStays
<1>9. Booting(u)'
  BY <1>1, <1>4, BootedStays
<1>10. Handled(u)'
  <2>1. m # Dummy => m \in Packets /\ Home(m) = u /\ status[m] = "sent"
    BY <1>1, <1>3 DEF Handled, Messages
  <2> HIDE DEF HGetMsg
  <2>2. status' = status /\ answers' = answers /\ list' = list
    BY DEF HGetMsg
  <2> QED BY <1>1, <1>3, <1>4, <2>1, <2>2 DEF Handled
<1>11. Threaded(u)'
  <2>1. \A p \in Packets : Kept(u, p) => Kept(u, p)'
    BY <1>4 DEF Kept
  <2> QED BY <1>1, <2>1, ThreadedStays
<1>12. Counted(u)' /\ Locks(u)'
  BY <1>1, <1>4, <1>5, CountedStays, LocksStay
<1>13. Dummies(u)'
  BY <1>1, <1>3, <1>4 DEF Dummies, UnderWay
<1>14. Told(u)'
  <2>1. Call(u) => Call(u)'
    BY DEF Call
  <2> QED BY <1>1, <1>4, <2>1, ToldStays
<1> QED BY <1>6, <1>7, <1>8, <1>9, <1>10, <1>11, <1>12, <1>13, <1>14, Elsewhere DEF UnitInv

LEMMA HDeferKeeps ==
  ASSUME IInv, NEW u \in Units, HDefer(u)
  PROVE  IInv'
<1> USE DEF HDefer, HGoto, Update, intVars, threadVars, cmdsVars, resetVars
<1>1. /\ Types /\ Answered /\ UnitInv(u) /\ Reaper(u) /\ Booting(u) /\ Handled(u) /\ Threaded(u)
      /\ Counted(u) /\ Locks(u) /\ Dummies(u) /\ Told(u)
  BY DEF IInv, UnitInv
<1>2. PICK p \in Packets : p = hmsg[u]
  BY <1>1 DEF Handled
<1>3. /\ hpc[u] = "defer" /\ hpc'[u] = "loop" /\ hmsg'[u] = Dummy
      /\ Home(p) = u /\ status[p] = "sent" /\ ~Holds(port[u], p) /\ ~Holds(list[u], p)
      /\ status'[p] = "unstarted" /\ \A q \in Packets \ {p} : status'[q] = status[q]
      /\ list'[u] = <<p>> \o list[u] /\ answers[p] = 0
  <2>1. /\ hpc[u] = "defer" /\ hpc'[u] = "loop" /\ hmsg'[u] = Dummy
        /\ status'[p] = "unstarted" /\ \A q \in Packets \ {p} : status'[q] = status[q]
        /\ list'[u] = <<p>> \o list[u]
    BY <1>1, <1>2 DEF Types
  <2>2. Home(p) = u /\ status[p] = "sent" /\ ~Holds(port[u], p) /\ ~Holds(list[u], p)
    BY <1>1, <1>2, <2>1 DEF Handled
  <2>3. answers[p] \in {0, 1} /\ answers[p] # 1
    BY <1>1, <2>2 DEF Types, Answered
  <2> QED BY <2>1, <2>2, <2>3
<1>4. /\ <<p>> \o list[u] \in Seq(Packets) /\ Distinct(list'[u])
      /\ \A q : Holds(list'[u], q) <=> Holds(list[u], q) \/ q = p
  BY <1>1, <1>3, InFront DEF Types, Handled
<1>5. Types' /\ Answered' /\ Globals
  <2>1. /\ hpc' \in [Units -> {"boot", "loop", "start", "defer", "enqueue", "release", "check"}]
        /\ hmsg' \in [Units -> Messages]
    BY <1>1, Basics, SMTT(30) DEF Types
  <2>2. list' \in [Units -> Seq(Packets)]
    BY <1>1, <1>3, <1>4, SMTT(30) DEF Types
  <2>3. status' \in [Packets -> {"new", "sent", "unstarted", "started", "complete", "timedout"}]
    BY <1>1, <1>2, SMTT(30) DEF Types
  <2>4. Answered'
    BY <1>1, <1>3 DEF Answered
  <2>5. /\ UNCHANGED <<port, scan, d5, answers, ipc, unit_no, int_requested, unit_pipe, back_pipe>>
        /\ UNCHANGED <<tpc, tcmd, waitingrecords, self, cmds_sent, cmds_acked, cmds_complete>>
        /\ UNCHANGED <<reset_state, reset_sync_sem, rpc>>
    OBVIOUS
  <2> HIDE DEF HDefer
  <2>6. Types'
    BY <1>1, <2>1, <2>2, <2>3, <2>5, ZenonT(30) DEF Types
  <2> QED BY <2>4, <2>5, <2>6 DEF Globals
<1>6. Apart(u)
  BY <1>1, <1>2, <1>3 DEF Apart, Same, Untouched, Types
<1>7. Reaper(u)' /\ Booting(u)'
  BY <1>1, <1>3, ReaperStays, BootedStays
<1>8. Handled(u)'
  BY <1>1, <1>3, <1>4 DEF Handled
<1>9. Threaded(u)'
  <2>1. \A q \in Packets : Kept(u, q) => Kept(u, q)'
    BY <1>3, <1>4 DEF Kept
  <2>2. \A q \in Packets : status[q] = "started" => status'[q] = status[q]
    BY <1>3
  <2> QED BY <1>1, <2>1, <2>2, ThreadedStays
<1>10. Counted(u)'
  <2>1. Started(u)' = Started(u)
    BY <1>3, <1>4 DEF Started
  <2> QED BY <1>1, <1>3, <2>1 DEF Counted
<1>11. Locks(u)' /\ Dummies(u)'
  BY <1>1, <1>3, LocksStay, DummiesStay
<1>12. Told(u)'
  BY <1>1, <1>3, <1>4 DEF Told, Call
<1> QED BY <1>5, <1>6, <1>7, <1>8, <1>9, <1>10, <1>11, <1>12, Elsewhere DEF UnitInv

LEMMA HStartKeeps ==
  ASSUME IInv, NEW u \in Units, HStart(u)
  PROVE  IInv'
<1> USE DEF HStart, HGoto, Update, intVars, threadVars, cmdsVars, resetVars
<1>1. /\ Types /\ Answered /\ UnitInv(u) /\ Reaper(u) /\ Booting(u) /\ Handled(u) /\ Threaded(u)
      /\ Counted(u) /\ Locks(u) /\ Dummies(u) /\ Told(u)
  BY DEF IInv, UnitInv
<1>2. PICK p \in Packets : p = hmsg[u]
  BY <1>1 DEF Handled
<1>3. /\ hpc[u] = "start" /\ hpc'[u] = "enqueue" /\ hmsg'[u] = p
      /\ Home(p) = u /\ status[p] = "sent" /\ ~Holds(port[u], p) /\ ~Holds(list[u], p)
      /\ status'[p] = "started" /\ \A q \in Packets \ {p} : status'[q] = status[q]
      /\ unit_pipe'[u] = Append(unit_pipe[u], p) /\ answers[p] = 0
  <2>1. /\ hpc[u] = "start" /\ hpc'[u] = "enqueue" /\ hmsg'[u] = p
        /\ status'[p] = "started" /\ \A q \in Packets \ {p} : status'[q] = status[q]
        /\ unit_pipe'[u] = Append(unit_pipe[u], p)
    BY <1>1, <1>2 DEF Types
  <2>2. Home(p) = u /\ status[p] = "sent" /\ ~Holds(port[u], p) /\ ~Holds(list[u], p)
    BY <1>1, <1>2, <2>1 DEF Handled
  <2>3. answers[p] \in {0, 1} /\ answers[p] # 1
    BY <1>1, <2>2 DEF Types, Answered
  <2> QED BY <2>1, <2>2, <2>3
<1>4. /\ Append(unit_pipe[u], p) \in Seq(Messages) /\ Len(unit_pipe'[u]) = Len(unit_pipe[u]) + 1
      /\ \A q : Holds(unit_pipe'[u], q) <=> Holds(unit_pipe[u], q) \/ q = p
      /\ Distinct(unit_pipe[u]) /\ ~Holds(unit_pipe[u], p) => Distinct(unit_pipe'[u])
      /\ Len(unit_pipe[u]) \in Nat /\ p # Death
  <2>1. unit_pipe[u] \in Seq(Messages) /\ p \in Messages
    BY <1>1, Basics DEF Types
  <2> QED BY <1>3, <2>1, Appended, LenProperties, Basics
<1>5. ~Has(u, p)
  BY <1>1, <1>3 DEF Threaded
<1>6. Types' /\ Answered' /\ Globals
  BY <1>1, <1>2, <1>3, <1>4 DEF Types, Answered, Globals
<1>7. Apart(u)
  BY <1>1, <1>2, <1>3 DEF Apart, Same, Untouched, Types
<1>8. Reaper(u)'
  BY <1>1, <1>4 DEF Reaper
<1>9. Booting(u)'
  BY <1>1, <1>3, BootedStays
<1>10. Handled(u)'
  BY <1>1, <1>3 DEF Handled
<1>11. Threaded(u)'
  <2>1. \A q \in Packets : Has(u, q)' <=> Has(u, q) \/ q = p
    BY <1>4 DEF Has
  <2>2. \A q \in Packets : Has(u, q)' => Home(q) = u /\ status'[q] = "started" /\ Kept(u, q)'
    BY <1>1, <1>3, <1>5, <2>1 DEF Threaded, Kept
  <2> QED BY <1>1, <1>4, <1>5, <2>2 DEF Threaded, Has
<1>12. Counted(u)'
  BY <1>1, <1>3, CountedStays DEF Handled
<1>13. Locks(u)'
  <2>1. Due(u)' = Due(u) + 1
    <3>1. tpc'[u] = tpc[u] /\ (Holds(unit_pipe'[u], Death) <=> Holds(unit_pipe[u], Death))
      BY <1>4
    <3> HIDE DEF HStart
    <3>2. Commands(u)' = Commands(u) + 1 /\ Commands(u) \in Int
      <4>1. CASE Holds(unit_pipe[u], Death)
        BY <1>4, <3>1, <4>1 DEF Commands
      <4>2. CASE ~Holds(unit_pipe[u], Death)
        <5>1. ~Holds(unit_pipe'[u], Death)
          BY <3>1, <4>2
        <5>2. Commands(u) = Len(unit_pipe[u]) - 0 /\ Commands(u)' = Len(unit_pipe'[u]) - 0
          BY <4>2, <5>1 DEF Commands
        <5> QED BY <1>4, <5>2
      <4> QED BY <4>1, <4>2
    <3> QED BY <3>1, <3>2 DEF Due
  <2>2. Open(u)' = Open(u) + 1
    BY <1>1, <1>3 DEF Open, Types
  <2>3. back_pipe[u] \in Nat /\ Due(u) \in Int /\ Open(u) \in Nat /\ MaxStarted \in Nat
    BY <1>1, <1>4, Basics DEF Due, Open, Commands, Types
  <2> QED BY <1>1, <1>3, <2>1, <2>2, <2>3, SMTT(30) DEF Locks
<1>14. Dummies(u)'
  BY <1>1, <1>3, DummiesStay
<1>15. Told(u)'
  <2>1. \A q \in Packets : Holds(list[u], q) => status'[q] = status[q]
    BY <1>3
  <2>2. status'[hmsg'[u]] # "complete"
    BY <1>3
  <2> HIDE DEF HStart
  <2>3. list' = list /\ (Call(u) => Call(u)')
    BY DEF HStart, Call
  <2> QED BY <1>1, <1>3, <2>1, <2>2, <2>3 DEF Told
<1> QED BY <1>6, <1>7, <1>8, <1>9, <1>10, <1>11, <1>12, <1>13, <1>14, <1>15, Elsewhere DEF UnitInv

LEMMA HRefuseKeeps ==
  ASSUME IInv, NEW u \in Units, HRefuse(u)
  PROVE  IInv'
<1> USE DEF HRefuse, HGoto, Update, intVars, threadVars, cmdsVars, resetVars
<1>1. /\ Types /\ Answered /\ UnitInv(u) /\ Reaper(u) /\ Booting(u) /\ Handled(u) /\ Threaded(u)
      /\ Counted(u) /\ Locks(u) /\ Dummies(u) /\ Told(u)
  BY DEF IInv, UnitInv
<1>2. PICK p \in Packets : p = hmsg[u]
  BY <1>1 DEF Handled
<1>3. /\ hpc[u] = "start" /\ hpc'[u] = "loop" /\ hmsg'[u] = Dummy
      /\ Home(p) = u /\ status[p] = "sent" /\ ~Holds(port[u], p) /\ ~Holds(list[u], p)
      /\ status'[p] = "complete" /\ \A q \in Packets \ {p} : status'[q] = status[q]
      /\ answers'[p] = 1 /\ \A q \in Packets \ {p} : answers'[q] = answers[q]
  <2>1. /\ hpc[u] = "start" /\ hpc'[u] = "loop" /\ hmsg'[u] = Dummy
        /\ status'[p] = "complete" /\ \A q \in Packets \ {p} : status'[q] = status[q]
        /\ answers'[p] = answers[p] + 1 /\ \A q \in Packets \ {p} : answers'[q] = answers[q]
    BY <1>1, <1>2 DEF Types
  <2>2. Home(p) = u /\ status[p] = "sent" /\ ~Holds(port[u], p) /\ ~Holds(list[u], p)
    BY <1>1, <1>2, <2>1 DEF Handled
  <2>3. answers[p] = 0
    BY <1>1, <2>2 DEF Types, Answered
  <2> QED BY <2>1, <2>2, <2>3
<1>4. Types' /\ Answered' /\ Globals
  BY <1>1, <1>2, <1>3, Basics DEF Types, Answered, Globals
<1>5. Apart(u)
  BY <1>1, <1>2, <1>3 DEF Apart, Same, Untouched, Types
<1>6. Reaper(u)' /\ Booting(u)'
  BY <1>1, <1>3, ReaperStays, BootedStays
<1>7. \A q \in Packets : Holds(list[u], q) => status'[q] = status[q]
  BY <1>3
<1>8. Handled(u)'
  BY <1>1, <1>3 DEF Handled
<1>9. Threaded(u)'
  <2>1. \A q \in Packets : Kept(u, q) => Kept(u, q)'
    BY <1>3 DEF Kept
  <2>2. \A q \in Packets : status[q] = "started" => status'[q] = status[q]
    BY <1>3
  <2> QED BY <1>1, <2>1, <2>2, ThreadedStays
<1>10. Counted(u)' /\ Locks(u)' /\ Dummies(u)'
  BY <1>1, <1>3, <1>7, CountedStays, LocksStay, DummiesStay
<1>11. Told(u)'
  <2>1. Call(u) => Call(u)'
    BY DEF Call
  <2> QED BY <1>1, <1>3, <1>7, <2>1, ToldStays
<1> QED BY <1>4, <1>5, <1>6, <1>8, <1>9, <1>10, <1>11, Elsewhere DEF UnitInv

LEMMA HEnqueueKeeps ==
  ASSUME IInv, NEW u \in Units, HEnqueue(u)
  PROVE  IInv'
<1> USE DEF HEnqueue, HGoto, Update, intVars, threadVars, cmdsVars, resetVars
<1>1. /\ Types /\ Answered /\ UnitInv(u) /\ Reaper(u) /\ Booting(u) /\ Handled(u) /\ Threaded(u)
      /\ Counted(u) /\ Locks(u) /\ Dummies(u) /\ Told(u)
  BY DEF IInv, UnitInv
<1>2. PICK p \in Packets : p = hmsg[u]
  BY <1>1 DEF Handled
<1>3. /\ hpc[u] = "enqueue" /\ hpc'[u] = "loop" /\ hmsg'[u] = Dummy /\ hmsg[u] = p
      /\ Home(p) = u /\ status[p] \in {"started", "complete", "timedout"} /\ ~Holds(list[u], p)
      /\ list'[u] = <<p>> \o list[u] /\ d5'[u] = d5[u] + 1 /\ d5[u] \in Nat /\ answers[p] = 0
  <2>1. Home(p) = u /\ status[p] \in {"started", "complete", "timedout"} /\ ~Holds(list[u], p) /\ answers[p] = 0
    BY <1>1, <1>2 DEF Handled
  <2> QED BY <1>1, <1>2, <2>1 DEF Types
<1>4. /\ <<p>> \o list[u] \in Seq(Packets) /\ Distinct(list'[u])
      /\ \A q : Holds(list'[u], q) <=> Holds(list[u], q) \/ q = p
  BY <1>1, <1>3, InFront DEF Types, Handled
<1>5. Types' /\ Answered' /\ Globals
  <2>1. /\ list' \in [Units -> Seq(Packets)] /\ d5' \in [Units -> Nat]
        /\ hmsg' \in [Units -> Messages]
    BY SMTT(30), <1>1, <1>2, <1>3, <1>4, Basics DEF Types
  <2> QED BY <1>1, <2>1 DEF Types, Answered, Globals
<1>6. Apart(u)
  BY <1>1, <1>2, <1>3 DEF Apart, Same, Untouched, Types
<1>7. Reaper(u)' /\ Booting(u)'
  BY <1>1, <1>3, ReaperStays, BootedStays
<1>8. Handled(u)'
  BY <1>1, <1>3, <1>4 DEF Handled
<1>9. Threaded(u)'
  <2>1. \A q \in Packets : Kept(u, q) => Kept(u, q)'
    BY <1>3, <1>4 DEF Kept
  <2> QED BY <1>1, <2>1, ThreadedStays
<1>10. Counted(u)'
  <2>1. Started(u)' = Started(u) \cup {p} /\ p \notin Started(u)
    BY <1>3, <1>4 DEF Started
  <2>2. IsFiniteSet(Started(u))
    BY PacketsFinite, FS_Subset DEF Started
  <2>3. Cardinality(Started(u)') = Cardinality(Started(u)) + 1
    BY <2>1, <2>2, FS_AddElement
  <2> QED BY <1>1, <1>3, <2>3, Basics DEF Counted
<1>11. Locks(u)'
  <2>1. Due(u)' = Due(u)
    BY DEF Due, Commands
  <2>2. Open(u)' = Open(u)
    BY <1>3 DEF Open
  <2> QED BY <1>1, <1>3, <2>1, <2>2 DEF Locks
<1>12. Dummies(u)'
  BY <1>1, <1>3, DummiesStay
<1>13. Told(u)'
  <2>1. Call(u) <=> Call(u)'
    BY DEF Call
  <2> HIDE DEF HEnqueue
  <2>2. status' = status
    BY DEF HEnqueue
  <2> QED BY <1>1, <1>3, <1>4, <2>1, <2>2 DEF Told
<1> QED BY <1>5, <1>6, <1>7, <1>8, <1>9, <1>10, <1>11, <1>12, <1>13, Elsewhere DEF UnitInv

(* The thread has no more commands than there are started and unanswered.    *)
LEMMA DueIsOpen ==
  ASSUME NEW u \in Units, Types, Handled(u), Threaded(u), Counted(u)
  PROVE  /\ Due(u) <= Open(u) + 1
         /\ tpc[u] \notin {"sent", "int", "locks"} => Due(u) <= Open(u)
         /\ Due(u) \in Nat /\ Open(u) \in Nat
         /\ tpc[u] \in {"handle", "sent", "int", "locks"} => Due(u) >= 1
<1> DEFINE P == {p \in Messages : Holds(unit_pipe[u], p)}
           W == P \ {Death}
           X == IF tpc[u] = "handle" THEN W \cup {tcmd[u]} ELSE W
           S == Started(u)
           Y == IF hpc[u] = "enqueue" THEN S \cup {hmsg[u]} ELSE S
<1>1. /\ IsFiniteSet(P) /\ Cardinality(P) = Len(unit_pipe[u]) /\ Len(unit_pipe[u]) \in Nat
  BY AsLongAsHeld, LenProperties DEF Types, Threaded
<1>2. IsFiniteSet(W) /\ Cardinality(W) = Commands(u) /\ Cardinality(W) \in Nat
  <2>1. Death \in P <=> Holds(unit_pipe[u], Death)
    BY Basics
  <2>2. IsFiniteSet(W) /\ Cardinality(W) = IF Death \in P THEN Cardinality(P) - 1 ELSE Cardinality(P)
    BY <1>1, FS_RemoveElement
  <2>3. Cardinality(W) \in Nat
    BY <2>2, FS_CardinalityType
  <2> HIDE DEF P, W
  <2>4. CASE Holds(unit_pipe[u], Death)
    BY <1>1, <2>1, <2>2, <2>3, <2>4 DEF Commands
  <2>5. CASE ~Holds(unit_pipe[u], Death)
    BY <1>1, <2>1, <2>2, <2>3, <2>5 DEF Commands
  <2> QED BY <2>4, <2>5
<1>3. /\ IsFiniteSet(X)
      /\ Cardinality(X) = Commands(u) + (IF tpc[u] = "handle" THEN 1 ELSE 0)
  <2>1. CASE tpc[u] = "handle"
    <3>1. tcmd[u] \notin W
      BY <2>1 DEF Threaded
    <3> HIDE DEF W
    <3> QED BY <1>2, <2>1, <3>1, FS_AddElement
  <2>2. CASE tpc[u] # "handle"
    <3> HIDE DEF W
    <3> QED BY <1>2, <2>2
  <2> QED BY <2>1, <2>2
<1>4. IsFiniteSet(S) /\ d5[u] = Cardinality(S) /\ d5[u] \in Nat
  BY PacketsFinite, FS_Subset DEF Started, Counted, Types
<1>5. IsFiniteSet(Y) /\ Cardinality(Y) = Open(u)
  <2>1. CASE hpc[u] = "enqueue"
    <3>1. hmsg[u] \notin S
      BY <2>1 DEF Handled, Started
    <3> HIDE DEF S
    <3> QED BY <1>4, <2>1, <3>1, FS_AddElement DEF Open
  <2>2. CASE hpc[u] # "enqueue"
    <3> HIDE DEF S
    <3> QED BY <1>4, <2>2 DEF Open
  <2> QED BY <2>1, <2>2
<1>6. X \in SUBSET Y
  <2>1. \A p \in X : p \in Packets /\ Has(u, p)
    BY Basics DEF Messages, Has, Threaded
  <2>2. \A p \in Packets : Has(u, p) => p \in Y
    BY DEF Threaded, Kept, Started
  <2> QED BY <2>1, <2>2
<1>7. Cardinality(X) <= Cardinality(Y)
  BY <1>5, <1>6, FS_Subset
<1> HIDE DEF P, W, X, S, Y
<1>8. Commands(u) \in Nat /\ Open(u) \in Nat
  BY <1>2, <1>4 DEF Open
<1> QED BY <1>3, <1>5, <1>7, <1>8 DEF Due

LEMMA HReleaseKeeps ==
  ASSUME IInv, NEW u \in Units, HRelease(u)
  PROVE  IInv'
<1> USE DEF HRelease, HGoto, Update, intVars, threadVars, resetVars
<1>1. /\ Types /\ Answered /\ UnitInv(u) /\ Reaper(u) /\ Booting(u) /\ Handled(u) /\ Threaded(u)
      /\ Counted(u) /\ Locks(u) /\ Dummies(u) /\ Told(u)
  BY DEF IInv, UnitInv
<1>2. /\ hpc[u] = "release" /\ hpc'[u] = "check" /\ scan'[u] = 1 /\ back_pipe'[u] = 0
      /\ cmds_complete'[u] = cmds_acked[u]
  BY <1>1 DEF Types
<1>3. Types' /\ Answered' /\ Globals
  BY <1>1, <1>2 DEF Types, Answered, Globals
<1>4. Apart(u) /\ Untouched(u)
  BY <1>1 DEF Apart, Same, Untouched, Types
<1>5. Reaper(u)' /\ Booting(u)'
  BY <1>1, <1>2, ReaperStays, BootedStays
<1>6. Handled(u)'
  BY <1>1, <1>2 DEF Handled
<1>7. Threaded(u)'
  <2>1. \A q \in Packets : Kept(u, q) => Kept(u, q)'
    BY <1>2 DEF Kept
  <2> QED BY <1>1, <2>1, ThreadedStays
<1>8. Counted(u)'
  BY <1>1, <1>2, CountedStays
<1>9. Locks(u)'
  <2>1. Due(u)' = Due(u) /\ Open(u)' = Open(u)
    BY <1>2 DEF Due, Commands, Open
  <2>2. Due(u) <= Open(u) + 1 /\ Due(u) \in Nat /\ Open(u) \in Nat
    BY <1>1, DueIsOpen
  <2>3. Open(u) = d5[u] /\ d5[u] <= MaxStarted /\ MaxStarted \in Nat
    BY <1>1, <1>2, Basics DEF Open, Counted, Types
  <2> HIDE DEF HRelease
  <2> QED BY <1>2, <2>1, <2>2, <2>3 DEF Locks
<1>10. Dummies(u)'
  BY <1>1, <1>2 DEF Dummies, UnderWay
<1>11. Told(u)'
  <2>1. \A q : Holds(list[u], q) => HoldsFrom(list[u], 1, q)
    BY DEF Holds, HoldsFrom
  <2> QED BY <1>2, <2>1 DEF Told
<1> QED BY <1>3, <1>4, <1>5, <1>6, <1>7, <1>8, <1>9, <1>10, <1>11, Elsewhere DEF UnitInv

LEMMA HReplyKeeps ==
  ASSUME IInv, NEW u \in Units, HReply(u)
  PROVE  IInv'
<1> USE DEF HReply, Marked, Done, HGoto, Update, intVars, threadVars, cmdsVars, resetVars
<1>1. /\ Types /\ Answered /\ UnitInv(u) /\ Reaper(u) /\ Booting(u) /\ Handled(u) /\ Threaded(u)
      /\ Counted(u) /\ Locks(u) /\ Dummies(u) /\ Told(u)
  BY DEF IInv, UnitInv
<1>2. /\ hpc[u] = "check" /\ hpc'[u] = "check" /\ list[u] \in Seq(Packets)
      /\ scan[u] \in 1 .. Len(list[u]) /\ Distinct(list[u])
  BY <1>1, LenProperties DEF Types, Told, Handled
<1>3. PICK p \in Packets : p = list[u][scan[u]]
  BY <1>2, ElementOfSeq
<1>4. /\ list'[u] = RemoveAt(list[u], scan[u]) /\ d5'[u] = d5[u] - 1 /\ status[p] \in {"complete", "timedout"}
      /\ answers'[p] = answers[p] + 1 /\ \A q \in Packets \ {p} : answers'[q] = answers[q]
      /\ Holds(list[u], p) /\ d5[u] \in Nat
  BY <1>1, <1>2, <1>3 DEF Types, Holds
<1>5. /\ list'[u] \in Seq(Packets) /\ Distinct(list'[u])
      /\ \A q : Holds(list'[u], q) <=> Holds(list[u], q) /\ q # p
      /\ \A q : HoldsFrom(list[u], scan[u], q) /\ q # p => HoldsFrom(list'[u], scan[u], q)
  BY <1>2, <1>3, <1>4, Removed
<1>6. Home(p) = u /\ answers[p] = 0 /\ answers'[p] = 1 /\ ~Has(u, p)
  <2>1. Home(p) = u /\ answers[p] = 0
    BY <1>1, <1>4 DEF Handled
  <2>2. ~Has(u, p)
    BY <1>1, <1>4 DEF Threaded
  <2> QED BY <1>4, <2>1, <2>2
<1>7. IsFiniteSet(Started(u)) /\ Cardinality(Started(u)') = d5[u] - 1 /\ d5[u] >= 1
  <2>1. Started(u)' = Started(u) \ {p} /\ p \in Started(u)
    BY <1>4, <1>5 DEF Started
  <2>2. IsFiniteSet(Started(u))
    BY PacketsFinite, FS_Subset DEF Started
  <2>3. Cardinality(Started(u)') = Cardinality(Started(u)) - 1 /\ Cardinality(Started(u)') \in Nat
    BY <2>1, <2>2, FS_RemoveElement, FS_CardinalityType
  <2> QED BY <1>1, <1>4, <2>2, <2>3 DEF Counted
<1>8. Types' /\ Answered' /\ Globals
  <2>1. list' \in [Units -> Seq(Packets)]
    BY <1>1, <1>5, SMTT(30) DEF Types
  <2>2. d5' \in [Units -> Nat]
    BY <1>1, <1>4, <1>7, SMTT(30) DEF Types
  <2>3. answers' \in [Packets -> {0, 1}]
    BY <1>1, <1>3, <1>6, SMTT(30) DEF Types
  <2>4. hpc' \in [Units -> {"boot", "loop", "start", "defer", "enqueue", "release", "check"}]
    BY <1>1, SMTT(30) DEF Types
  <2>5. /\ UNCHANGED <<port, hmsg, scan, status, ipc, unit_no, int_requested, unit_pipe, back_pipe>>
        /\ UNCHANGED <<tpc, tcmd, waitingrecords, self, cmds_sent, cmds_acked, cmds_complete>>
        /\ UNCHANGED <<reset_state, reset_sync_sem, rpc>>
    OBVIOUS
  <2> HIDE DEF HReply
  <2>6. Answered'
    BY <1>1, <1>4, <2>5, SMTT(30) DEF Answered
  <2>7. Types'
    BY <1>1, <2>1, <2>2, <2>3, <2>4, <2>5, ZenonT(30) DEF Types
  <2> QED BY <2>6, <2>5, <2>7 DEF Globals
<1>9. Apart(u)
  BY <1>1, <1>3, <1>4, <1>6 DEF Apart, Same, Untouched, Types
<1>10. Reaper(u)' /\ Booting(u)'
  BY <1>1, <1>2, ReaperStays, BootedStays
<1>11. Handled(u)'
  BY <1>1, <1>2, <1>4, <1>5 DEF Handled
<1>12. Threaded(u)'
  <2>1. \A q \in Packets : Has(u, q) => (Kept(u, q) => Kept(u, q)')
    BY <1>2, <1>5, <1>6 DEF Kept
  <2> QED BY <1>1, <2>1, ThreadedStays
<1>13. Counted(u)'
  BY <1>1, <1>2, <1>4, <1>7, Basics DEF Counted
<1>14. Locks(u)'
  <2>1. Due(u)' = Due(u) /\ Open(u)' = Open(u) - 1 /\ Open(u) = d5[u] /\ MaxStarted \in Nat
    BY <1>2, <1>4, Basics DEF Due, Commands, Open
  <2>2. Due(u) \in Nat /\ back_pipe[u] \in Nat
    BY <1>1, DueIsOpen DEF Types
  <2> HIDE DEF HReply
  <2>3. back_pipe' = back_pipe
    BY DEF HReply
  <2> QED BY <1>1, <1>2, <1>4, <1>7, <2>1, <2>2, <2>3 DEF Locks
<1>15. Dummies(u)'
  BY <1>1, <1>2, DummiesStay
<1>16. Told(u)'
  <2>1. Call(u) <=> Call(u)'
    BY DEF Call
  <2> HIDE DEF HReply
  <2>2. status' = status /\ scan' = scan
    BY DEF HReply
  <2> QED BY <1>1, <1>2, <1>5, <2>1, <2>2 DEF Told
<1> QED BY <1>8, <1>9, <1>10, <1>11, <1>12, <1>13, <1>14, <1>15, <1>16, Elsewhere DEF UnitInv

LEMMA HCheckNextKeeps ==
  ASSUME IInv, NEW u \in Units, HCheckNext(u)
  PROVE  IInv'
<1> USE DEF HCheckNext, Marked, Done, HGoto, Update, intVars, threadVars, cmdsVars, resetVars
<1>1. /\ Types /\ Answered /\ UnitInv(u) /\ Reaper(u) /\ Booting(u) /\ Handled(u) /\ Threaded(u)
      /\ Counted(u) /\ Locks(u) /\ Dummies(u) /\ Told(u)
  BY DEF IInv, UnitInv
<1>2. /\ hpc[u] = "check" /\ hpc'[u] = "check" /\ scan'[u] = scan[u] + 1 /\ scan[u] \in Nat
      /\ Len(list[u]) \in Nat
  BY <1>1, LenProperties DEF Types
<1>3. Types' /\ Answered' /\ Globals
  <2>1. scan' \in [Units -> Nat]
    BY <1>1, <1>2 DEF Types
  <2> HIDE DEF HCheckNext
  <2>2. /\ UNCHANGED <<port, hmsg, list, d5, answers, status, int_requested, unit_pipe, back_pipe,
                       self, cmdsVars, resetVars, intVars, threadVars>>
        /\ hpc' \in [Units -> {"boot", "loop", "start", "defer", "enqueue", "release", "check"}]
    BY <1>1 DEF HCheckNext, Types
  <2> QED BY <1>1, <2>1, <2>2 DEF Types, Answered, Globals
<1>4. Apart(u) /\ Untouched(u)
  BY <1>1 DEF Apart, Same, Untouched, Types
<1>5. Reaper(u)' /\ Booting(u)' /\ Handled(u)'
  BY <1>1, <1>2, <1>4, ReaperStays, BootedStays, HandledStays
<1>6. Threaded(u)'
  <2>1. \A q \in Packets : Kept(u, q) => Kept(u, q)'
    BY <1>2 DEF Kept
  <2> QED BY <1>1, <2>1, ThreadedStays
<1>7. Counted(u)' /\ Locks(u)' /\ Dummies(u)'
  BY <1>1, <1>2, CountedStays, LocksStay, DummiesStay
<1>8. Told(u)'
  <2>1. ASSUME NEW q \in Packets, status[q] = "complete", HoldsFrom(list[u], scan[u], q)
        PROVE  HoldsFrom(list[u], scan[u] + 1, q)
    <3>1. PICK i \in 1 .. Len(list[u]) : i >= scan[u] /\ list[u][i] = q
      BY <2>1 DEF HoldsFrom
    <3>2. i # scan[u]
      BY <2>1, <3>1
    <3>3. i >= scan[u] + 1
      BY <1>2, <3>1, <3>2
    <3> QED BY <3>1, <3>3 DEF HoldsFrom
  <2>2. Call(u) <=> Call(u)'
    BY DEF Call
  <2> HIDE DEF HCheckNext
  <2>3. status' = status /\ list' = list
    BY DEF HCheckNext
  <2> QED BY <1>1, <1>2, <2>1, <2>2, <2>3 DEF Told
<1> QED BY <1>3, <1>4, <1>5, <1>6, <1>7, <1>8, Elsewhere DEF UnitInv

LEMMA HCheckedKeeps ==
  ASSUME IInv, NEW u \in Units, HChecked(u)
  PROVE  IInv'
<1> USE DEF HChecked, HGoto, Update, intVars, threadVars, cmdsVars, resetVars
<1>1. /\ Types /\ Answered /\ UnitInv(u) /\ Reaper(u) /\ Booting(u) /\ Handled(u) /\ Threaded(u)
      /\ Counted(u) /\ Locks(u) /\ Dummies(u) /\ Told(u)
  BY DEF IInv, UnitInv
<1>2. /\ hpc[u] = "check" /\ hpc'[u] = "loop" /\ scan[u] > Len(list[u]) /\ scan[u] \in Nat
      /\ Len(list[u]) \in Nat
  BY <1>1, LenProperties DEF Types
<1>3. Types' /\ Answered' /\ Globals
  BY <1>1, <1>2 DEF Types, Answered, Globals
<1>4. Apart(u) /\ Untouched(u)
  BY <1>1 DEF Apart, Same, Untouched, Types
<1>5. Reaper(u)' /\ Booting(u)'
  BY <1>1, <1>2, ReaperStays, BootedStays
<1>6. Handled(u)'
  BY <1>1, <1>2 DEF Handled
<1>7. Threaded(u)'
  <2>1. \A q \in Packets : Kept(u, q) => Kept(u, q)'
    BY <1>2 DEF Kept
  <2> QED BY <1>1, <2>1, ThreadedStays
<1>8. Counted(u)' /\ Locks(u)' /\ Dummies(u)'
  BY <1>1, <1>2, CountedStays, LocksStay, DummiesStay
<1>9. Told(u)'
  <2>1. \A q : ~HoldsFrom(list[u], scan[u], q)
    BY <1>2 DEF HoldsFrom
  <2>2. Call(u) <=> Call(u)'
    BY DEF Call
  <2> HIDE DEF HChecked
  <2>3. status' = status /\ list' = list
    BY DEF HChecked
  <2> QED BY <1>1, <1>2, <2>1, <2>2, <2>3 DEF Told
<1> QED BY <1>3, <1>4, <1>5, <1>6, <1>7, <1>8, <1>9, Elsewhere DEF UnitInv

-----------------------------------------------------------------------------
(* The steps of the unit's thread                                            *)

LEMMA TReadKeeps ==
  ASSUME IInv, NEW u \in Units, TRead(u)
  PROVE  IInv'
<1>1. /\ Types /\ Answered /\ UnitInv(u) /\ Reaper(u) /\ Booting(u) /\ Handled(u) /\ Threaded(u)
      /\ Counted(u) /\ Locks(u) /\ Dummies(u) /\ Told(u)
  BY DEF IInv, UnitInv
<1>2. PICK cmd : cmd = Head(unit_pipe[u])
  OBVIOUS
<1>3. /\ cmd \in Messages /\ Tail(unit_pipe[u]) \in Seq(Messages)
      /\ Len(unit_pipe[u]) \in Nat \ {0} /\ Len(Tail(unit_pipe[u])) = Len(unit_pipe[u]) - 1
      /\ \A q : Holds(unit_pipe[u], q) <=> Holds(Tail(unit_pipe[u]), q) \/ q = cmd
      /\ Distinct(Tail(unit_pipe[u])) /\ ~Holds(Tail(unit_pipe[u]), cmd)
  BY <1>1, <1>2, HeadTaken DEF Types, Threaded, TRead
<1>4. /\ tpc[u] = "read" /\ tcmd'[u] = cmd /\ unit_pipe'[u] = Tail(unit_pipe[u])
      /\ tpc'[u] = IF reset_state[u] # "FS_GO_DOWN" THEN "handle"
                   ELSE IF cmd = Death THEN "die" ELSE "read"
  BY <1>1, <1>2 DEF Types, TRead, TGoto, Update
<1>5. /\ UNCHANGED <<port, hpc, hmsg, list, scan, d5, answers, status, ipc, unit_no, int_requested,
                     back_pipe, waitingrecords, self, cmds_sent, cmds_acked, cmds_complete,
                     reset_state, reset_sync_sem, rpc>>
      /\ \A v \in Units \ {u} :
           tpc'[v] = tpc[v] /\ tcmd'[v] = tcmd[v] /\ unit_pipe'[v] = unit_pipe[v]
  BY <1>1 DEF Types, TRead, TGoto, Update, amigaVars, intVars, cmdsVars, resetVars
<1>6. Types' /\ Answered' /\ Globals
  <2>1. /\ unit_pipe' \in [Units -> Seq(Messages)] /\ tcmd' \in [Units -> Messages]
        /\ tpc' \in [Units -> {"read", "handle", "sent", "int", "locks", "die", "dead"}]
    BY <1>1, <1>2, <1>3 DEF Types, TRead, TGoto, Update
  <2> QED BY <1>1, <1>5, <2>1 DEF Types, Answered, Globals
<1>7. Apart(u) /\ Untouched(u)
  BY <1>5 DEF Apart, Same, Untouched
<1>8. cmd = Death => rpc = 2 * u /\ tpc'[u] = "die"
  BY <1>1, <1>3, <1>4, Basics DEF Reaper, Types
<1>9. Reaper(u)'
  BY <1>1, <1>3, <1>4, <1>5, <1>8, Basics DEF Reaper, Types
<1>10. Booting(u)' /\ Handled(u)'
  BY <1>1, <1>4, <1>5, <1>7, HandledStays DEF Booting
<1>11. tpc'[u] = "handle" => cmd \in Packets
  BY <1>1, <1>3, <1>4, <1>8, Basics DEF Messages
<1>12. Threaded(u)'
  <2>1. \A q \in Packets : Has(u, q)' => Has(u, q)
    BY <1>3, <1>4, <1>5 DEF Has
  <2>2. \A q \in Packets : Kept(u, q) => Kept(u, q)'
    BY <1>5 DEF Kept
  <2>3. \A q \in waitingrecords[u] : ~Holds(unit_pipe'[u], q)
    BY <1>1, <1>3, <1>4 DEF Threaded
  <2>4. cmd \notin waitingrecords[u]
    BY <1>1, <1>3 DEF Threaded
  <2> QED BY <1>1, <1>3, <1>4, <1>5, <1>11, <2>1, <2>2, <2>3, <2>4 DEF Threaded
<1>13. Counted(u)' /\ Dummies(u)'
  BY <1>1, <1>5, CountedStays, DummiesStay
<1>14. Locks(u)'
  <2>1. Open(u)' = Open(u)
    BY <1>5 DEF Open
  <2>2. Due(u)' <= Due(u) /\ Due(u)' \in Int /\ Due(u) \in Int
    <3>1. CASE cmd = Death
      <4>1. /\ Holds(unit_pipe[u], Death) /\ ~Holds(unit_pipe'[u], Death)
            /\ tpc'[u] = "die"
        BY <1>3, <1>4, <1>8, <3>1
      <4>2. Due(u) = Len(unit_pipe[u]) - 1 + 0
        BY <1>4, <4>1 DEF Due, Commands
      <4>3. Due(u)' = Len(unit_pipe'[u]) - 0 + 0
        BY <4>1 DEF Due, Commands
      <4> QED BY <1>3, <1>4, <4>2, <4>3
    <3>2. CASE cmd # Death
      <4>1. Holds(unit_pipe[u], Death) <=> Holds(unit_pipe'[u], Death)
        BY <1>3, <1>4, <3>2
      <4>2. PICK n \in {0, 1} : n = IF Holds(unit_pipe[u], Death) THEN 1 ELSE 0
        OBVIOUS
      <4>3. Due(u) = Len(unit_pipe[u]) - n + 0
        BY <1>4, <4>2 DEF Due, Commands
      <4>4. Commands(u)' = Len(unit_pipe'[u]) - n
        BY <4>1, <4>2 DEF Commands
      <4>5. Commands(u)' \in Int /\ Commands(u)' = Len(unit_pipe[u]) - 1 - n
        BY <1>3, <1>4, <4>4
      <4>6. PICK c : c = Commands(u)'
        OBVIOUS
      <4>7. Due(u)' = c + 1 \/ Due(u)' = c + 0
        BY <4>6 DEF Due
      <4>8. c \in Int /\ c = Len(unit_pipe[u]) - 1 - n
        BY <4>5, <4>6
      <4>9. Due(u)' \in Int /\ Due(u)' <= c + 1
        BY <4>7, <4>8
      <4>10. Due(u) \in Int /\ Due(u) = Len(unit_pipe[u]) - n
        BY <1>3, <4>3
      <4> QED BY <1>3, <4>8, <4>9, <4>10
    <3> QED BY <3>1, <3>2
  <2>3. Open(u) \in Int /\ back_pipe[u] \in Nat /\ MaxStarted \in Nat
    BY <1>1, Basics DEF Types, Open
  <2> QED BY <1>1, <1>5, <2>1, <2>2, <2>3 DEF Locks
<1>15. Told(u)'
  <2>1. Call(u) => Call(u)'
    BY <1>4, <1>5 DEF Call
  <2> QED BY <1>1, <1>5, <2>1, ToldStays
<1> QED BY <1>6, <1>7, <1>9, <1>10, <1>12, <1>13, <1>14, <1>15, Elsewhere DEF UnitInv

LEMMA THandleKeeps ==
  ASSUME IInv, NEW u \in Units, THandle(u)
  PROVE  IInv'
<1>1. /\ Types /\ Answered /\ UnitInv(u) /\ Reaper(u) /\ Booting(u) /\ Handled(u) /\ Threaded(u)
      /\ Counted(u) /\ Locks(u) /\ Dummies(u) /\ Told(u)
  BY DEF IInv, UnitInv
<1>2. PICK p \in Packets : p = tcmd[u]
  BY <1>1 DEF Threaded, THandle, TGoto
<1>3. /\ tpc[u] = "handle" /\ tpc'[u] = "sent" /\ tcmd'[u] = Death
      /\ UNCHANGED <<port, hpc, hmsg, list, scan, d5, answers, ipc, unit_no, int_requested,
                     unit_pipe, back_pipe, self, cmds_sent, cmds_acked, cmds_complete,
                     reset_state, reset_sync_sem, rpc>>
      /\ \A v \in Units \ {u} : tpc'[v] = tpc[v] /\ tcmd'[v] = tcmd[v]
                                /\ waitingrecords'[v] = waitingrecords[v]
  BY <1>1, SMTT(30) DEF Types, THandle, TGoto, Update, amigaVars, intVars, cmdsVars, resetVars
<1>4. PICK freed \in SUBSET (waitingrecords[u] \cup {p}) :
        /\ waitingrecords'[u] = (waitingrecords[u] \cup {p}) \ freed
        /\ \A q \in Packets : status'[q] = IF q \in freed THEN "complete" ELSE status[q]
  <2>1. ASSUME NEW f \in SUBSET waitingrecords[u],
               waitingrecords' = Update(waitingrecords, u, waitingrecords[u] \ f),
               status' = [q \in Packets |-> IF q \in f \cup {tcmd[u]} THEN "complete" ELSE status[q]]
        PROVE  \E freed \in SUBSET (waitingrecords[u] \cup {p}) :
                 /\ waitingrecords'[u] = (waitingrecords[u] \cup {p}) \ freed
                 /\ \A q \in Packets : status'[q] = IF q \in freed THEN "complete" ELSE status[q]
    <3>1. waitingrecords'[u] = waitingrecords[u] \ f
      BY <1>1, <2>1 DEF Types, Update
    <3>2. p \notin waitingrecords[u]
      BY <1>1, <1>2, <1>3 DEF Threaded
    <3>3. f \cup {p} \in SUBSET (waitingrecords[u] \cup {p})
      OBVIOUS
    <3>4. waitingrecords'[u] = (waitingrecords[u] \cup {p}) \ (f \cup {p})
      BY <3>1, <3>2
    <3>5. \A q \in Packets : status'[q] = IF q \in f \cup {p} THEN "complete" ELSE status[q]
      BY <1>2, <2>1
    <3> QED BY <3>3, <3>4, <3>5
  <2>2. ASSUME waitingrecords' = Update(waitingrecords, u, waitingrecords[u] \cup {tcmd[u]}),
               status' = status
        PROVE  \E freed \in SUBSET (waitingrecords[u] \cup {p}) :
                 /\ waitingrecords'[u] = (waitingrecords[u] \cup {p}) \ freed
                 /\ \A q \in Packets : status'[q] = IF q \in freed THEN "complete" ELSE status[q]
    <3>1. {} \in SUBSET (waitingrecords[u] \cup {p})
      OBVIOUS
    <3>2. waitingrecords'[u] = (waitingrecords[u] \cup {p}) \ {}
      BY <1>1, <1>2, <2>2 DEF Types, Update
    <3>3. \A q \in Packets : status'[q] = IF q \in {} THEN "complete" ELSE status[q]
      BY <2>2
    <3> QED BY <3>1, <3>2, <3>3
  <2> QED BY <2>1, <2>2 DEF THandle
<1>5. \A q \in freed : q \in Packets /\ Home(q) = u /\ status[q] = "started" /\ ~Holds(unit_pipe[u], q)
  <2>1. \A q \in freed : q \in Packets /\ Has(u, q)
    BY <1>1, <1>2, <1>3 DEF Has, Types
  <2>2. \A q \in freed : ~Holds(unit_pipe[u], q)
    BY <1>1, <1>2, <1>3 DEF Threaded
  <2> QED BY <1>1, <2>1, <2>2 DEF Threaded
<1>6. Types' /\ Answered' /\ Globals
  <2>1. status' \in [Packets -> {"new", "sent", "unstarted", "started", "complete", "timedout"}]
    BY <1>1 DEF Types, THandle
  <2>2. waitingrecords' \in [Units -> SUBSET Packets]
    <3>1. tcmd[u] \in Packets
      BY <1>2
    <3>2. PICK X \in SUBSET Packets : waitingrecords' = [waitingrecords EXCEPT ![u] = X]
      <4>1. ASSUME NEW f \in SUBSET waitingrecords[u],
                   waitingrecords' = Update(waitingrecords, u, waitingrecords[u] \ f)
            PROVE  \E X \in SUBSET Packets : waitingrecords' = [waitingrecords EXCEPT ![u] = X]
        <5>1. waitingrecords[u] \ f \in SUBSET Packets
          BY <1>1 DEF Types
        <5> QED BY <4>1, <5>1 DEF Update
      <4>2. ASSUME waitingrecords' = Update(waitingrecords, u, waitingrecords[u] \cup {tcmd[u]})
            PROVE  \E X \in SUBSET Packets : waitingrecords' = [waitingrecords EXCEPT ![u] = X]
        <5>1. waitingrecords[u] \cup {tcmd[u]} \in SUBSET Packets
          BY <1>1, <3>1 DEF Types
        <5> QED BY <4>2, <5>1 DEF Update
      <4> QED BY <4>1, <4>2 DEF THandle
    <3> QED BY <1>1, <3>2 DEF Types
  <2>3. /\ tcmd' \in [Units -> Messages]
        /\ tpc' \in [Units -> {"read", "handle", "sent", "int", "locks", "die", "dead"}]
    BY <1>1, Basics DEF Types, THandle, TGoto, Update
  <2>4. Types'
    BY <1>1, <1>3, <2>1, <2>2, <2>3 DEF Types
  <2> QED BY <1>1, <1>3, <1>4, <2>4 DEF Answered, Globals
<1>7. Apart(u)
  BY <1>3, <1>4, <1>5 DEF Apart, Same, Untouched
<1>8. Reaper(u)'
  BY <1>1, <1>3 DEF Reaper
<1>9. Booting(u)'
  BY <1>1, <1>2, <1>3, BootedStays DEF Booting, Threaded, Has
<1>10. Handled(u)'
  <2>1. \A q \in Packets : status[q] # "started" => status'[q] = status[q]
    BY <1>4, <1>5
  <2>2. \A q \in Packets : status[q] = "started" => status'[q] \in {"started", "complete", "timedout"}
    BY <1>4
  <2> QED BY <1>1, <1>3, <2>1, <2>2 DEF Handled
<1>11. Threaded(u)'
  <2>1. \A q \in Packets : Has(u, q)' => Has(u, q) /\ q \notin freed
    BY <1>2, <1>3, <1>4, <1>5 DEF Has
  <2>2. \A q \in Packets : Kept(u, q) => Kept(u, q)'
    BY <1>3 DEF Kept
  <2>3. \A q \in waitingrecords'[u] : ~Holds(unit_pipe[u], q)
    BY <1>1, <1>2, <1>3, <1>4 DEF Threaded
  <2>4. \A q \in Packets \ freed : status'[q] = status[q]
    BY <1>4
  <2> QED BY <1>1, <1>3, <2>1, <2>2, <2>3, <2>4 DEF Threaded
<1>12. Counted(u)'
  <2>1. \A q \in Packets : status'[q] = "unstarted" <=> status[q] = "unstarted"
    BY <1>4, <1>5
  <2> QED BY <1>1, <1>3, <2>1, CountedStays
<1>13. Locks(u)' /\ Dummies(u)'
  BY <1>1, <1>3, LocksStay, DummiesStay
<1>14. Told(u)'
  BY <1>1, <1>3 DEF Told, Call
<1> QED BY <1>6, <1>7, <1>8, <1>9, <1>10, <1>11, <1>12, <1>13, <1>14, Elsewhere DEF UnitInv

LEMMA Counting ==
  ASSUME NEW f \in [Units -> Nat], NEW u \in Units, NEW g,
         g = f \/ g = [f EXCEPT ![u] = f[u] + 1]
  PROVE  g \in [Units -> Nat]
<1>1. f[u] + 1 \in Nat
  OBVIOUS
<1> QED BY <1>1

(* The steps that send no packet anywhere.                                   *)
LEMMA TMoves ==
  ASSUME IInv, NEW u \in Units, TSent(u) \/ TInt(u) \/ TLocks(u) \/ TDie(u)
  PROVE  IInv'
<1>1. /\ Types /\ Answered /\ UnitInv(u) /\ Reaper(u) /\ Booting(u) /\ Handled(u) /\ Threaded(u)
      /\ Counted(u) /\ Locks(u) /\ Dummies(u) /\ Told(u)
  BY DEF IInv, UnitInv
<1>2. /\ UNCHANGED <<port, hpc, hmsg, list, scan, d5, answers, status, ipc, unit_no, unit_pipe,
                     tcmd, waitingrecords, self, cmds_acked, cmds_complete, reset_state, rpc>>
      /\ \A v \in Units \ {u} :
           /\ tpc'[v] = tpc[v] /\ cmds_sent'[v] = cmds_sent[v] /\ back_pipe'[v] = back_pipe[v]
           /\ reset_sync_sem'[v] = reset_sync_sem[v]
      /\ int_requested => int_requested'
  <2>1. CASE TSent(u)
    BY <1>1, <2>1, SMTT(30) DEF Types, TSent, TGoto, Update, amigaVars, intVars, resetVars
  <2>2. CASE TInt(u)
    BY <1>1, <2>2, SMTT(30) DEF Types, TInt, TGoto, Update, amigaVars, intVars, cmdsVars, resetVars
  <2>3. CASE TLocks(u)
    BY <1>1, <2>3, SMTT(30) DEF Types, TLocks, TGoto, Update, amigaVars, intVars, cmdsVars, resetVars
  <2>4. CASE TDie(u)
    BY <1>1, <2>4, SMTT(30) DEF Types, TDie, TGoto, Update, amigaVars, intVars, cmdsVars
  <2> QED BY <2>1, <2>2, <2>3, <2>4, ZenonT(30)
<1>3. /\ cmds_sent[u] \in Nat /\ cmds_acked[u] \in Nat /\ back_pipe[u] \in Nat
      /\ reset_sync_sem[u] \in Nat /\ int_requested \in BOOLEAN
  BY <1>1 DEF Types
<1>4. \/ /\ tpc[u] = "sent" /\ tpc'[u] = "int" /\ cmds_sent'[u] = cmds_sent[u] + 1
         /\ back_pipe'[u] = back_pipe[u] /\ reset_sync_sem'[u] = reset_sync_sem[u]
         /\ int_requested' = int_requested
      \/ /\ tpc[u] = "int" /\ tpc'[u] = "locks" /\ int_requested' = TRUE
         /\ cmds_sent'[u] = cmds_sent[u] /\ back_pipe'[u] = back_pipe[u]
         /\ reset_sync_sem'[u] = reset_sync_sem[u]
      \/ /\ tpc[u] = "locks" /\ tpc'[u] = "read" /\ back_pipe'[u] \in {back_pipe[u], back_pipe[u] + 1}
         /\ cmds_sent'[u] = cmds_sent[u] /\ reset_sync_sem'[u] = reset_sync_sem[u]
         /\ int_requested' = int_requested
      \/ /\ tpc[u] = "die" /\ tpc'[u] = "dead" /\ back_pipe'[u] = back_pipe[u]
         /\ cmds_sent'[u] = cmds_sent[u] /\ reset_sync_sem'[u] = reset_sync_sem[u] + 1
         /\ int_requested' = int_requested
  <2>1. CASE TSent(u)
    BY <1>1, <2>1, SMTT(30) DEF Types, TSent, TGoto, Update, resetVars
  <2>2. CASE TInt(u)
    BY <1>1, <2>2, SMTT(30) DEF Types, TInt, TGoto, Update, resetVars, cmdsVars
  <2>3. CASE TLocks(u)
    BY <1>1, <2>3, SMTT(30) DEF Types, TLocks, TGoto, Update, resetVars, cmdsVars
  <2>4. CASE TDie(u)
    BY <1>1, <2>4, SMTT(30) DEF Types, TDie, TGoto, Update, cmdsVars
  <2> QED BY <2>1, <2>2, <2>3, <2>4
<1>5. Types' /\ Answered' /\ Globals
  <2>1. /\ tpc' \in [Units -> {"read", "handle", "sent", "int", "locks", "die", "dead"}]
        /\ int_requested' \in BOOLEAN
    <3>1. CASE TSent(u)
      BY <1>1, <3>1, SMTT(30) DEF Types, TSent, TGoto, Update, resetVars
    <3>2. CASE TInt(u)
      BY <1>1, <3>2, SMTT(30) DEF Types, TInt, TGoto, Update, cmdsVars, resetVars
    <3>3. CASE TLocks(u)
      BY <1>1, <3>3, SMTT(30) DEF Types, TLocks, TGoto, Update, cmdsVars, resetVars
    <3>4. CASE TDie(u)
      BY <1>1, <3>4, SMTT(30) DEF Types, TDie, TGoto, Update, cmdsVars
    <3> QED BY <3>1, <3>2, <3>3, <3>4, ZenonT(30)
  <2>2. cmds_sent' \in [Units -> Nat]
    <3>1. cmds_sent' = cmds_sent \/ cmds_sent' = [cmds_sent EXCEPT ![u] = cmds_sent[u] + 1]
      <4>1. CASE TSent(u)
        BY <4>1, SMTT(30) DEF TSent, TGoto, Update, resetVars
      <4>2. CASE TInt(u)
        BY <4>2, SMTT(30) DEF TInt, TGoto, Update, cmdsVars, resetVars
      <4>3. CASE TLocks(u)
        BY <4>3, SMTT(30) DEF TLocks, TGoto, Update, cmdsVars, resetVars
      <4>4. CASE TDie(u)
        BY <4>4, SMTT(30) DEF TDie, TGoto, Update, cmdsVars
      <4> QED BY <4>1, <4>2, <4>3, <4>4, ZenonT(30)
    <3> QED BY <1>1, <3>1, Counting DEF Types
  <2>3. back_pipe' \in [Units -> Nat]
    <3>1. back_pipe' = back_pipe \/ back_pipe' = [back_pipe EXCEPT ![u] = back_pipe[u] + 1]
      <4>1. CASE TSent(u)
        BY <4>1, SMTT(30) DEF TSent, TGoto, Update, resetVars
      <4>2. CASE TInt(u)
        BY <4>2, SMTT(30) DEF TInt, TGoto, Update, cmdsVars, resetVars
      <4>3. CASE TLocks(u)
        BY <4>3, SMTT(30) DEF TLocks, TGoto, Update, cmdsVars, resetVars
      <4>4. CASE TDie(u)
        BY <4>4, SMTT(30) DEF TDie, TGoto, Update, cmdsVars
      <4> QED BY <4>1, <4>2, <4>3, <4>4, ZenonT(30)
    <3> QED BY <1>1, <3>1, Counting DEF Types
  <2>4. reset_sync_sem' \in [Units -> Nat]
    <3>1. \/ reset_sync_sem' = reset_sync_sem
          \/ reset_sync_sem' = [reset_sync_sem EXCEPT ![u] = reset_sync_sem[u] + 1]
      <4>1. CASE TSent(u)
        BY <4>1, SMTT(30) DEF TSent, TGoto, Update, resetVars
      <4>2. CASE TInt(u)
        BY <4>2, SMTT(30) DEF TInt, TGoto, Update, cmdsVars, resetVars
      <4>3. CASE TLocks(u)
        BY <4>3, SMTT(30) DEF TLocks, TGoto, Update, cmdsVars, resetVars
      <4>4. CASE TDie(u)
        BY <4>4, SMTT(30) DEF TDie, TGoto, Update, cmdsVars
      <4> QED BY <4>1, <4>2, <4>3, <4>4, ZenonT(30)
    <3> QED BY <1>1, <3>1, Counting DEF Types
  <2> QED BY <1>1, <1>2, <2>1, <2>2, <2>3, <2>4 DEF Types, Answered, Globals
<1>6. Apart(u) /\ Untouched(u)
  BY <1>2 DEF Apart, Same, Untouched
<1>7. Reaper(u)'
  BY <1>1, <1>2, <1>4, Basics DEF Reaper, Types
<1>8. Booting(u)'
  <2>1. CASE hpc[u] # "boot"
    BY <1>1, <1>2, <2>1, BootedStays
  <2>2. CASE hpc[u] = "boot"
    <3>1. tpc[u] = "die" /\ tpc'[u] = "dead" /\ back_pipe'[u] = back_pipe[u]
      BY <1>1, <1>4, <2>2 DEF Booting
    <3> QED BY <1>1, <1>2, <2>2, <3>1 DEF Booting
  <2> QED BY <2>1, <2>2
<1>9. Handled(u)'
  BY <1>1, <1>2, <1>6, HandledStays
<1>10. Threaded(u)'
  <2>1. \A q \in Packets : Kept(u, q) => Kept(u, q)'
    BY <1>2 DEF Kept
  <2>2. tpc'[u] # "handle" /\ tpc[u] # "handle"
    BY <1>4
  <2> QED BY <1>1, <1>2, <2>1, <2>2, ThreadedStays
<1>11. Counted(u)' /\ Dummies(u)'
  <2>1. cmds_acked[u] <= cmds_sent[u] => cmds_acked[u] <= cmds_sent'[u]
    BY <1>3, <1>4
  <2> QED BY <1>1, <1>2, <2>1, CountedStays, DummiesStay
<1>12. Locks(u)'
  <2>1. CASE tpc[u] = "locks"
    <3>1. Commands(u)' = Commands(u) /\ Open(u)' = Open(u)
      BY <1>2 DEF Commands, Open
    <3>2. Commands(u) = Due(u) - 1 /\ Commands(u) \in Int
      <4>1. Due(u) = Commands(u) + 1
        BY <2>1 DEF Due
      <4>2. Due(u) \in Nat /\ Commands(u) \in Int
        <5>1. Len(unit_pipe[u]) \in Nat
          BY <1>1, LenProperties DEF Types
        <5> QED BY <1>1, <5>1, DueIsOpen DEF Commands
      <4> QED BY <4>1, <4>2
    <3>3. Due(u)' = Commands(u)' + 0 /\ back_pipe'[u] <= back_pipe[u] + 1 /\ back_pipe'[u] \in Nat
      BY <1>3, <1>4, <2>1 DEF Due
    <3>4. Due(u) \in Nat /\ Open(u) \in Nat /\ MaxStarted \in Nat
      BY <1>1, DueIsOpen, Basics
    <3> QED BY <1>1, <1>2, <1>3, <3>1, <3>2, <3>3, <3>4 DEF Locks
  <2>2. CASE tpc[u] # "locks"
    BY <1>1, <1>2, <1>4, <2>2, LocksStay
  <2> QED BY <2>1, <2>2
<1>13. Told(u)'
  <2>1. Call(u) => Call(u)'
    BY <1>1, <1>2, <1>3, <1>4 DEF Call, Dummies
  <2> QED BY <1>1, <1>2, <2>1, ToldStays
<1> QED BY <1>5, <1>6, <1>7, <1>8, <1>9, <1>10, <1>11, <1>12, <1>13, Elsewhere DEF UnitInv

-----------------------------------------------------------------------------
(* The interrupt server                                                      *)

LEMMA IEnterKeeps ==
  ASSUME IInv, IEnter
  PROVE  IInv'
<1> USE DEF IEnter, amigaVars, threadVars, cmdsVars, resetVars
<1>1. Types' /\ Answered'
  BY DEF IInv, Types, Answered
<1>2. ASSUME NEW v \in Units PROVE UnitInv(v)'
  <2>1. Same(v) /\ Untouched(v) /\ UnitInv(v)
    BY DEF IInv, Same, Untouched
  <2>2. Reaper(v)'
    BY <2>1, ReaperStays DEF UnitInv
  <2>3. Call(v) => Call(v)'
    BY Basics DEF Call
  <2> QED BY <2>1, <2>2, <2>3, SameStays
<1> QED BY <1>1, <1>2 DEF IInv

LEMMA IExitKeeps ==
  ASSUME IInv, IExit
  PROVE  IInv'
<1> USE DEF IExit, amigaVars, threadVars, cmdsVars, resetVars
<1>1. Types' /\ Answered'
  BY DEF IInv, Types, Answered
<1>2. ASSUME NEW v \in Units PROVE UnitInv(v)'
  <2>1. Same(v) /\ Untouched(v) /\ UnitInv(v)
    BY DEF IInv, Same, Untouched
  <2>2. Reaper(v)'
    BY <2>1, ReaperStays DEF UnitInv
  <2>3. CASE self[v]
    <3>1. unit_no <= v => ~NeedsMessage(v)
      BY Basics DEF IInv, Types, Units
    <3>2. Call(v) => Call(v)'
      BY <2>3, <3>1 DEF Call, NeedsMessage
    <3> QED BY <2>1, <2>2, <3>2, SameStays
  <2>4. CASE ~self[v]
    \* There is no unit, and nothing in its list.
    <3>1. Booting(v)' /\ Handled(v)'
      BY <2>1, BootingStays, HandledStays DEF UnitInv, Same
    <3>2. /\ Threaded(v)' /\ Counted(v)' /\ Locks(v)' /\ Dummies(v)'
      <4>1. \A q \in Packets : Kept(v, q) => Kept(v, q)'
        BY DEF Kept
      <4> QED BY <2>1, <4>1, ThreadedStays, CountedStays, LocksStay, DummiesStay DEF UnitInv
    <3>3. Told(v)'
      BY <2>1, <2>4, Nothing DEF UnitInv, Booting, Told
    <3> QED BY <2>2, <3>1, <3>2, <3>3 DEF UnitInv
  <2> QED BY <2>3, <2>4
<1> QED BY <1>1, <1>2 DEF IInv

LEMMA IPutMsgKeeps ==
  ASSUME IInv, NEW u \in Units, IPutMsg(u)
  PROVE  IInv'
<1>1. /\ Types /\ Answered /\ UnitInv(u) /\ Reaper(u) /\ Booting(u) /\ Handled(u) /\ Threaded(u)
      /\ Counted(u) /\ Locks(u) /\ Dummies(u) /\ Told(u)
  BY DEF IInv, UnitInv
<1>2. /\ UNCHANGED <<hpc, hmsg, list, scan, d5, answers, status, ipc, int_requested, unit_pipe,
                     back_pipe, tpc, tcmd, waitingrecords, self, cmds_sent, cmds_complete,
                     reset_state, reset_sync_sem, rpc>>
      /\ port'[u] = Append(port[u], Dummy) /\ cmds_acked'[u] = cmds_sent[u] /\ unit_no' = u + 1
      /\ \A v \in Units \ {u} : port'[v] = port[v] /\ cmds_acked'[v] = cmds_acked[v]
      /\ u >= unit_no /\ NeedsMessage(u) /\ ipc = "on"
      /\ \A v \in unit_no .. u - 1 : ~NeedsMessage(v)
  BY <1>1 DEF Types, IPutMsg, Update, threadVars, resetVars
<1>3. unit_no \in Nat /\ u \in Nat /\ cmds_sent[u] \in Nat /\ cmds_acked[u] \in Nat
  BY <1>1, Basics DEF Types
<1>4. /\ Append(port[u], Dummy) \in Seq(Messages)
      /\ \A q : Holds(port'[u], q) <=> Holds(port[u], q) \/ q = Dummy
      /\ Distinct(port[u]) /\ ~Holds(port[u], Dummy) => Distinct(port'[u])
  <2>1. port[u] \in Seq(Messages) /\ Dummy \in Messages
    BY <1>1, Basics DEF Types
  <2> QED BY <1>2, <2>1, Appended
<1>5. hpc[u] # "boot" /\ ~UnderWay(u) /\ cmds_sent[u] # cmds_complete[u]
  BY <1>1, <1>2 DEF NeedsMessage, Booting, Dummies
<1>6. Types' /\ Answered'
  <2>1. /\ port' \in [Units -> Seq(Messages)] /\ cmds_acked' \in [Units -> Nat] /\ unit_no' \in Nat
    BY <1>1, <1>2, <1>3, <1>4 DEF Types, IPutMsg, Update
  <2> QED BY <1>1, <1>2, <2>1 DEF Types, Answered
<1>7. ASSUME NEW v \in Units, v # u PROVE UnitInv(v)'
  <2>1. Same(v) /\ Untouched(v) /\ UnitInv(v)
    BY <1>2, <1>7 DEF IInv, Same, Untouched
  <2>2. Reaper(v)'
    BY <1>2, <2>1, ReaperStays DEF UnitInv
  <2>3. CASE self[v]
    <3>1. unit_no <= v /\ ~(u + 1 <= v) => ~NeedsMessage(v)
      <4>1. v \in Nat
        BY Basics
      <4> QED BY <1>2, <1>3, <1>7, <4>1
    <3>2. Call(v) => Call(v)'
      BY <1>2, <1>7, <2>3, <3>1 DEF Call, NeedsMessage
    <3> QED BY <2>1, <2>2, <3>2, SameStays
  <2>4. CASE ~self[v]
    <3>1. Booting(v)' /\ Handled(v)'
      BY <2>1, BootingStays, HandledStays DEF UnitInv, Same
    <3>2. /\ Threaded(v)' /\ Counted(v)' /\ Locks(v)' /\ Dummies(v)'
      <4>1. \A q \in Packets : Kept(v, q) => Kept(v, q)'
        BY <1>2 DEF Kept
      <4> QED BY <1>2, <2>1, <4>1, ThreadedStays, CountedStays, LocksStay, DummiesStay
              DEF UnitInv, Same
    <3>3. Told(v)'
      BY <1>2, <2>1, <2>4, Nothing DEF UnitInv, Booting, Told
    <3> QED BY <2>2, <3>1, <3>2, <3>3 DEF UnitInv
  <2> QED BY <2>3, <2>4
<1>8. Reaper(u)'
  BY <1>1, <1>2, ReaperStays
<1>9. Booting(u)'
  BY <1>1, <1>2, <1>5, BootedStays
<1>10. Handled(u)'
  <2>1. Distinct(port'[u])
    BY <1>1, <1>4, <1>5 DEF Handled, UnderWay
  <2>2. \A p \in Packets : Holds(port'[u], p) <=> Holds(port[u], p)
    BY <1>4, Basics
  <2> QED BY <1>1, <1>2, <2>1, <2>2 DEF Handled
<1>11. Threaded(u)' /\ Counted(u)' /\ Locks(u)'
  <2>1. \A q \in Packets : Kept(u, q) => Kept(u, q)'
    BY <1>2 DEF Kept
  <2> QED BY <1>1, <1>2, <2>1, ThreadedStays, CountedStays, LocksStay
<1>12. Dummies(u)'
  BY <1>1, <1>2, <1>3, <1>4, <1>5 DEF Dummies, UnderWay
<1>13. Told(u)'
  <2>1. Call(u)'
    BY <1>2, <1>5 DEF Call
  <2> QED BY <1>1, <1>2, <2>1, ToldStays
<1>14. UnitInv(u)'
  BY <1>8, <1>9, <1>10, <1>11, <1>12, <1>13 DEF UnitInv
<1> QED BY <1>6, <1>7, <1>14 DEF IInv

-----------------------------------------------------------------------------
(* The reset                                                                 *)

LEMMA RBeginKeeps ==
  ASSUME IInv, RBegin
  PROVE  IInv'
<1> USE DEF RBegin, amigaVars, intVars, threadVars, cmdsVars
<1>1. Types' /\ Answered'
  BY DEF IInv, Types, Answered
<1>2. ASSUME NEW v \in Units PROVE UnitInv(v)'
  <2>1. Same(v) /\ Untouched(v) /\ UnitInv(v)
    BY DEF IInv, Same, Untouched
  <2>2. Reaper(v)'
    BY <2>1, Basics DEF UnitInv, Reaper
  <2>3. Call(v) => Call(v)'
    BY DEF Call
  <2> QED BY <2>1, <2>2, <2>3, SameStays
<1> QED BY <1>1, <1>2 DEF IInv

LEMMA RDownKeeps ==
  ASSUME IInv, NEW u \in Units, RDown(u)
  PROVE  IInv'
<1>1. /\ Types /\ Answered /\ UnitInv(u) /\ Reaper(u) /\ Booting(u) /\ Handled(u) /\ Threaded(u)
      /\ Counted(u) /\ Locks(u) /\ Dummies(u) /\ Told(u)
  BY DEF IInv, UnitInv
<1>2. /\ UNCHANGED <<port, hpc, hmsg, list, scan, d5, answers, status, ipc, unit_no, int_requested,
                     back_pipe, tpc, tcmd, waitingrecords, self, cmds_sent, cmds_acked,
                     cmds_complete>>
      /\ rpc = 2 * u - 1 /\ rpc' = rpc + 1
      /\ reset_sync_sem'[u] = 0 /\ reset_state'[u] = "FS_GO_DOWN"
      /\ unit_pipe'[u] = Append(unit_pipe[u], Death)
      /\ \A v \in Units \ {u} :
           /\ reset_sync_sem'[v] = reset_sync_sem[v] /\ reset_state'[v] = reset_state[v]
           /\ unit_pipe'[v] = unit_pipe[v]
  BY <1>1 DEF Types, RDown, Update, amigaVars, intVars, threadVars, cmdsVars
<1>3. u \in Nat /\ u >= 1 /\ rpc \in Nat /\ rpc < 2 * u /\ rpc' = 2 * u
  BY <1>1, <1>2, Basics DEF Types
<1>4. ~Holds(unit_pipe[u], Death) /\ tpc[u] \notin {"die", "dead"}
  BY <1>1, <1>3 DEF Reaper
<1>5. /\ Append(unit_pipe[u], Death) \in Seq(Messages) /\ Distinct(unit_pipe'[u])
      /\ \A q : Holds(unit_pipe'[u], q) <=> Holds(unit_pipe[u], q) \/ q = Death
      /\ Len(unit_pipe'[u]) = Len(unit_pipe[u]) + 1 /\ Len(unit_pipe[u]) \in Nat
  <2>1. unit_pipe[u] \in Seq(Messages) /\ Death \in Messages
    BY <1>1, Basics DEF Types
  <2> QED BY <1>1, <1>2, <1>4, <2>1, Appended, LenProperties DEF Threaded
<1>6. Types' /\ Answered'
  <2>1. /\ unit_pipe' \in [Units -> Seq(Messages)] /\ reset_sync_sem' \in [Units -> Nat]
        /\ reset_state' \in [Units -> {"FS_STARTUP", "FS_GO_DOWN"}]
    BY <1>1, <1>5, <1>2 DEF Types, RDown, Update
  <2>2. rpc' \in Nat
    BY <1>3
  <2> QED BY <1>1, <1>2, <2>1, <2>2 DEF Types, Answered
<1>7. ASSUME NEW v \in Units, v # u PROVE UnitInv(v)'
  <2>1. Same(v) /\ Untouched(v) /\ UnitInv(v) /\ v \in Nat
    BY <1>2, <1>7, Basics DEF IInv, Same, Untouched
  <2>2. Reaper(v)'
    <3>1. CASE v < u
      <4>1. rpc > 2 * v /\ rpc' > 2 * v
        BY <1>2, <1>3, <2>1, <3>1
      <4> QED BY <1>2, <1>3, <1>7, <2>1, <4>1 DEF UnitInv, Reaper
    <3>2. CASE v > u
      <4>1. rpc < 2 * v /\ rpc' < 2 * v
        BY <1>2, <1>3, <2>1, <3>2
      <4> QED BY <1>2, <1>3, <1>7, <2>1, <4>1 DEF UnitInv, Reaper
    <3> QED BY <1>3, <1>7, <2>1, <3>1, <3>2
  <2>3. Call(v) => Call(v)'
    BY <1>2 DEF Call
  <2> QED BY <2>1, <2>2, <2>3, SameStays
<1>8. Reaper(u)'
  BY <1>2, <1>3, <1>4, <1>5 DEF Reaper
<1>9. Booting(u)' /\ Handled(u)'
  BY <1>1, <1>2, BootingStays, HandledStays DEF Untouched
<1>10. Threaded(u)'
  <2>1. \A q \in Packets : Holds(unit_pipe'[u], q) <=> Holds(unit_pipe[u], q)
    BY <1>5, Basics
  <2>2. \A q \in Packets : (Has(u, q)' <=> Has(u, q)) /\ (Kept(u, q) => Kept(u, q)')
    BY <1>2, <2>1 DEF Has, Kept
  <2>3. \A q \in waitingrecords[u] : q \in Packets
    BY <1>1 DEF Types
  <2> QED BY <1>1, <1>2, <1>5, <2>1, <2>2, <2>3 DEF Threaded
<1>11. Counted(u)' /\ Dummies(u)'
  BY <1>1, <1>2, CountedStays, DummiesStay
<1>12. Locks(u)'
  <2>1. Commands(u)' = Len(unit_pipe'[u]) - 1
    BY <1>5 DEF Commands
  <2>2. Commands(u) = Len(unit_pipe[u]) - 0
    BY <1>4 DEF Commands
  <2>3. Commands(u)' = Commands(u)
    BY <1>5, <2>1, <2>2
  <2>4. Due(u)' = Due(u) /\ Open(u)' = Open(u)
    BY <1>2, <2>3 DEF Due, Open
  <2> QED BY <1>1, <1>2, <2>4 DEF Locks
<1>13. Told(u)'
  <2>1. Call(u) => Call(u)'
    BY <1>2 DEF Call
  <2> QED BY <1>1, <1>2, <2>1, ToldStays
<1>14. UnitInv(u)'
  BY <1>8, <1>9, <1>10, <1>11, <1>12, <1>13 DEF UnitInv
<1> QED BY <1>6, <1>7, <1>14 DEF IInv

LEMMA RWaitKeeps ==
  ASSUME IInv, NEW u \in Units, RWait(u)
  PROVE  IInv'
<1>1. Types /\ Answered /\ UnitInv(u) /\ Reaper(u)
  BY DEF IInv, UnitInv
<1>2. /\ UNCHANGED <<port, hpc, hmsg, list, scan, d5, answers, status, ipc, unit_no, int_requested,
                     unit_pipe, back_pipe, tpc, tcmd, waitingrecords, self, cmds_sent, cmds_acked,
                     cmds_complete, reset_state>>
      /\ rpc = 2 * u /\ rpc' = rpc + 1 /\ reset_sync_sem[u] > 0
      /\ reset_sync_sem' = [reset_sync_sem EXCEPT ![u] = reset_sync_sem[u] - 1]
  BY <1>1 DEF RWait, Update, amigaVars, intVars, threadVars, cmdsVars
<1>3. u \in Nat /\ u >= 1 /\ rpc \in Nat /\ rpc' = 2 * u + 1 /\ reset_sync_sem[u] \in Nat
  BY <1>1, <1>2, Basics DEF Types
<1>4. Types' /\ Answered'
  <2>1. reset_sync_sem' \in [Units -> Nat] /\ rpc' \in Nat
    <3>1. reset_sync_sem[u] - 1 \in Nat
      BY <1>2, <1>3
    <3> QED BY <1>1, <1>2, <1>3, <3>1 DEF Types
  <2> QED BY <1>1, <1>2, <2>1 DEF Types, Answered
<1>5. ~Holds(unit_pipe[u], Death) /\ tpc[u] = "dead"
  BY <1>1, <1>2, <1>3 DEF Reaper
<1>6. ASSUME NEW v \in Units PROVE UnitInv(v)'
  <2>1. Untouched(v) /\ UnitInv(v) /\ v \in Nat
    BY <1>2, Basics DEF IInv, Untouched
  <2>2. Reaper(v)'
    <3>1. CASE v < u
      <4>1. rpc > 2 * v /\ rpc' > 2 * v
        BY <1>2, <1>3, <2>1, <3>1
      <4> QED BY <1>2, <1>3, <2>1, <4>1 DEF UnitInv, Reaper
    <3>2. CASE v > u
      <4>1. rpc < 2 * v /\ rpc' < 2 * v
        BY <1>2, <1>3, <2>1, <3>2
      <4> QED BY <1>2, <1>3, <2>1, <4>1 DEF UnitInv, Reaper
    <3>3. CASE v = u
      BY <1>1, <1>2, <1>3, <1>5, <3>3 DEF Reaper
    <3> QED BY <1>3, <2>1, <3>1, <3>2, <3>3
  <2>3. Booting(v)' /\ Handled(v)'
    BY <1>2, <2>1, BootingStays, HandledStays DEF UnitInv
  <2>4. Threaded(v)' /\ Counted(v)' /\ Locks(v)' /\ Dummies(v)'
    <3>1. \A q \in Packets : Kept(v, q) => Kept(v, q)'
      BY <1>2 DEF Kept
    <3> QED BY <1>2, <2>1, <3>1, ThreadedStays, CountedStays, LocksStay, DummiesStay DEF UnitInv
  <2>5. Told(v)'
    <3>1. Call(v) => Call(v)'
      BY <1>2 DEF Call
    <3> QED BY <1>2, <2>1, <3>1, ToldStays DEF UnitInv
  <2> QED BY <2>2, <2>3, <2>4, <2>5 DEF UnitInv
<1> QED BY <1>4, <1>6 DEF IInv

\* At boot there is nothing anywhere.
Empty(u) ==
  /\ port[u] = <<>> /\ hpc[u] = "boot" /\ hmsg[u] = Dummy /\ list[u] = <<>> /\ d5[u] = 0
  /\ unit_pipe[u] = <<>> /\ back_pipe[u] = 0 /\ tpc[u] = "read" /\ waitingrecords[u] = {}
  /\ self[u] = FALSE /\ reset_state[u] = "FS_STARTUP" /\ rpc = 0
  /\ cmds_acked[u] <= cmds_sent[u]
  /\ \A p \in Packets : status[p] = "new"

LEMMA EmptyIsRight == ASSUME NEW u \in Units, Empty(u) PROVE UnitInv(u)
<1>1. rpc < 2 * u /\ ~(rpc >= 2 * u) /\ ~(rpc = 2 * u) /\ ~(rpc > 2 * u)
  BY Basics DEF Empty
<1>2. Reaper(u)
  BY <1>1, Nothing DEF Empty, Reaper
<1>3. Booting(u)
  BY DEF Empty, Booting
<1>4. Handled(u)
  BY Nothing DEF Empty, Handled
<1>5. Threaded(u)
  BY Nothing DEF Empty, Threaded, Has
<1>6. Started(u) = {} /\ Cardinality(Started(u)) = 0
  BY Nothing, FS_EmptySet DEF Empty, Started
<1>7. Counted(u)
  BY <1>6, Basics DEF Empty, Counted
<1>8. Locks(u)
  <2>1. Due(u) = 0 /\ Open(u) = 0
    BY Nothing DEF Empty, Due, Commands, Open
  <2> QED BY <2>1, Basics DEF Empty, Locks
<1>9. Dummies(u)
  BY Nothing DEF Empty, Dummies, UnderWay
<1>10. Told(u)
  BY Nothing DEF Empty, Told
<1> QED BY <1>2, <1>3, <1>4, <1>5, <1>7, <1>8, <1>9, <1>10 DEF UnitInv

LEMMA RStartKeeps ==
  ASSUME IInv, RStart
  PROVE  IInv'
<1> USE DEF RStart, All, cmdsVars
<1>1. Types' /\ Answered'
  <2>1. <<>> \in Seq(Messages) /\ <<>> \in Seq(Packets) /\ {} \in SUBSET Packets
    BY EmptySeq
  <2>2. /\ port' \in [Units -> Seq(Messages)] /\ unit_pipe' \in [Units -> Seq(Messages)]
        /\ list' \in [Units -> Seq(Packets)] /\ waitingrecords' \in [Units -> SUBSET Packets]
        /\ hmsg' \in [Units -> Messages] /\ tcmd' \in [Units -> Messages]
    BY <2>1, Basics
  <2>3. /\ scan' \in [Units -> Nat] /\ d5' \in [Units -> Nat] /\ back_pipe' \in [Units -> Nat]
        /\ self' \in [Units -> BOOLEAN] /\ rpc' \in Nat /\ ipc' \in {"on", "off"}
        /\ reset_state' \in [Units -> {"FS_STARTUP", "FS_GO_DOWN"}]
        /\ hpc' \in [Units -> {"boot", "loop", "start", "defer", "enqueue", "release", "check"}]
        /\ tpc' \in [Units -> {"read", "handle", "sent", "int", "locks", "die", "dead"}]
        /\ status' \in [Packets -> {"new", "sent", "unstarted", "started", "complete", "timedout"}]
        /\ answers' \in [Packets -> {0, 1}] /\ \A p \in Packets : answers'[p] = 0
    OBVIOUS
  <2>4. UNCHANGED <<unit_no, int_requested, cmds_sent, cmds_acked, cmds_complete, reset_sync_sem>>
    OBVIOUS
  <2> HIDE DEF RStart
  <2>5. Types
    BY DEF IInv
  <2>6. Types'
    BY <2>2, <2>3, <2>4, <2>5 DEF Types
  <2>7. Answered'
    BY <2>3 DEF Answered
  <2> QED BY <2>6, <2>7
<1>2. ASSUME NEW u \in Units PROVE UnitInv(u)'
  <2>1. Empty(u)'
    BY DEF Empty, IInv, UnitInv, Dummies
  <2> QED BY <2>1, EmptyIsRight, PTL
<1> QED BY <1>1, <1>2 DEF IInv

(* A packet that has waited too long is no longer the thread's.              *)
LEMMA RecordTimeoutKeeps ==
  ASSUME IInv, NEW u \in Units, RecordTimeout(u)
  PROVE  IInv'
<1>1. /\ Types /\ Answered /\ UnitInv(u) /\ Reaper(u) /\ Booting(u) /\ Handled(u) /\ Threaded(u)
      /\ Counted(u) /\ Locks(u) /\ Dummies(u) /\ Told(u)
  BY DEF IInv, UnitInv
<1>2. PICK p \in waitingrecords[u] :
        /\ status' = [status EXCEPT ![p] = "timedout"]
        /\ waitingrecords' = Update(waitingrecords, u, waitingrecords[u] \ {p})
  BY DEF RecordTimeout
<1>3. /\ UNCHANGED <<port, hpc, hmsg, list, scan, d5, answers, ipc, unit_no, unit_pipe, back_pipe,
                     tpc, tcmd, self, cmds_sent, cmds_acked, cmds_complete,
                     reset_state, reset_sync_sem, rpc>>
      /\ int_requested' = TRUE
  BY DEF RecordTimeout, amigaVars, intVars, cmdsVars, resetVars
<1>4. /\ p \in Packets /\ Home(p) = u /\ status[p] = "started" /\ ~Holds(unit_pipe[u], p)
      /\ Has(u, p) /\ ~(tpc[u] = "handle" /\ tcmd[u] = p)
  <2>1. p \in Packets /\ Has(u, p)
    BY <1>1, <1>2 DEF Has, Types
  <2> QED BY <1>1, <1>2, <2>1 DEF Threaded
<1>5. /\ status'[p] = "timedout" /\ \A q \in Packets \ {p} : status'[q] = status[q]
      /\ waitingrecords'[u] = waitingrecords[u] \ {p}
      /\ \A v \in Units \ {u} : waitingrecords'[v] = waitingrecords[v]
  BY <1>1, <1>2, <1>4 DEF Types, Update
<1>6. Types' /\ Answered' /\ Globals
  <2>1. status' \in [Packets -> {"new", "sent", "unstarted", "started", "complete", "timedout"}]
    BY <1>1, <1>2 DEF Types
  <2>2. waitingrecords' \in [Units -> SUBSET Packets]
    <3>1. waitingrecords[u] \ {p} \in SUBSET Packets
      BY <1>1 DEF Types
    <3> QED BY <1>1, <1>2, <3>1 DEF Types, Update
  <2>3. Types'
    BY <1>1, <1>3, <2>1, <2>2 DEF Types
  <2> QED BY <1>1, <1>3, <1>5, <2>3 DEF Answered, Globals
<1>7. Apart(u)
  BY <1>3, <1>4, <1>5 DEF Apart, Same, Untouched
<1>8. Reaper(u)' /\ Booting(u)'
  BY <1>1, <1>3, <1>4, BootedStays DEF Reaper, Booting
<1>9. Handled(u)'
  BY <1>1, <1>3, <1>4, <1>5 DEF Handled
<1>10. Threaded(u)'
  <2>1. \A q \in Packets : Has(u, q)' => Has(u, q) /\ q # p
    BY <1>3, <1>4, <1>5 DEF Has
  <2>2. \A q \in Packets : Kept(u, q) => Kept(u, q)'
    BY <1>3 DEF Kept
  <2> QED BY <1>1, <1>3, <1>5, <2>1, <2>2 DEF Threaded
<1>11. Counted(u)'
  <2>1. \A q \in Packets : status'[q] = "unstarted" <=> status[q] = "unstarted"
    BY <1>4, <1>5
  <2> QED BY <1>1, <1>3, <2>1, CountedStays
<1>12. Locks(u)' /\ Dummies(u)'
  BY <1>1, <1>3, LocksStay, DummiesStay
<1>13. Told(u)'
  <2>1. \A q : q \in Packets /\ status'[q] = "complete" => status[q] = "complete"
    BY <1>5
  <2>2. hpc[u] = "enqueue" => hmsg[u] \in Packets
    BY <1>1 DEF Handled
  <2> QED BY <1>1, <1>3, <2>1, <2>2 DEF Told, Call
<1> QED BY <1>6, <1>7, <1>8, <1>9, <1>10, <1>11, <1>12, <1>13, Elsewhere DEF UnitInv

LEMMA InitIInv == Init => IInv
<1> SUFFICES ASSUME Init PROVE IInv
  OBVIOUS
<1> USE DEF Init, All
<1>1. Types /\ Answered
  <2>1. <<>> \in Seq(Messages) /\ <<>> \in Seq(Packets) /\ {} \in SUBSET Packets
    BY EmptySeq
  <2>2. /\ port \in [Units -> Seq(Messages)] /\ unit_pipe \in [Units -> Seq(Messages)]
        /\ list \in [Units -> Seq(Packets)] /\ waitingrecords \in [Units -> SUBSET Packets]
        /\ hmsg \in [Units -> Messages] /\ tcmd \in [Units -> Messages]
    BY <2>1, Basics
  <2>3. /\ scan \in [Units -> Nat] /\ d5 \in [Units -> Nat] /\ back_pipe \in [Units -> Nat]
        /\ self \in [Units -> BOOLEAN] /\ rpc \in Nat /\ ipc \in {"on", "off"} /\ unit_no \in Nat
        /\ int_requested \in BOOLEAN /\ reset_sync_sem \in [Units -> Nat]
        /\ cmds_sent \in [Units -> Nat] /\ cmds_acked \in [Units -> Nat]
        /\ cmds_complete \in [Units -> Nat]
        /\ reset_state \in [Units -> {"FS_STARTUP", "FS_GO_DOWN"}]
        /\ hpc \in [Units -> {"boot", "loop", "start", "defer", "enqueue", "release", "check"}]
        /\ tpc \in [Units -> {"read", "handle", "sent", "int", "locks", "die", "dead"}]
        /\ status \in [Packets -> {"new", "sent", "unstarted", "started", "complete", "timedout"}]
        /\ answers \in [Packets -> {0, 1}] /\ \A p \in Packets : answers[p] = 0
    OBVIOUS
  <2> HIDE DEF Init
  <2> QED BY <2>2, <2>3, SMTT(30) DEF Types, Answered
<1>2. ASSUME NEW u \in Units PROVE UnitInv(u)
  <2>1. Empty(u)
    BY DEF Empty
  <2> QED BY <2>1, EmptyIsRight
<1> QED BY <1>1, <1>2 DEF IInv

LEMMA NextKeeps == IInv /\ [Next]_vars => IInv'
<1> SUFFICES ASSUME IInv, [Next]_vars PROVE IInv'
  OBVIOUS
<1>1. CASE UNCHANGED vars
  <2> USE <1>1 DEF vars, amigaVars, intVars, threadVars, cmdsVars, resetVars
  <2>1. Types' /\ Answered'
    BY DEF IInv, Types, Answered
  <2>2. ASSUME NEW v \in Units PROVE UnitInv(v)'
    <3>1. Same(v) /\ Untouched(v) /\ UnitInv(v)
      BY DEF IInv, Same, Untouched
    <3>2. Reaper(v)'
      BY <3>1, ReaperStays DEF UnitInv
    <3>3. Call(v) => Call(v)'
      BY DEF Call
    <3> QED BY <3>1, <3>2, <3>3, SameStays
  <2> QED BY <2>1, <2>2 DEF IInv
<1>2. ASSUME NEW u \in Units, Handler(u) PROVE IInv'
  BY <1>2, HBootKeeps, HGetMsgKeeps, HDeferKeeps, HStartKeeps, HRefuseKeeps, HEnqueueKeeps,
     HReleaseKeeps, HReplyKeeps, HCheckNextKeeps, HCheckedKeeps DEF Handler
<1>3. ASSUME NEW u \in Units, Thread(u) PROVE IInv'
  BY <1>3, TReadKeeps, THandleKeeps, TMoves DEF Thread
<1>4. CASE Interrupt
  BY <1>4, IEnterKeeps, IExitKeeps, IPutMsgKeeps DEF Interrupt
<1>5. CASE RBegin \/ Reset
  BY <1>5, RBeginKeeps, RDownKeeps, RWaitKeeps, RStartKeeps DEF Reset
<1> QED BY <1>1, <1>2, <1>3, <1>4, <1>5, SendKeeps, RecordTimeoutKeeps DEF Next, Quiet

-----------------------------------------------------------------------------
(* Every packet is in one place, and the counters of its unit agree with it. *)
THEOREM UnitInvariant == Spec => []IInv
BY InitIInv, NextKeeps, PTL DEF Spec

(* cmds_acked and cmds_complete keep the dummy message from being queued     *)
(* while it is in the port or in the hands of the handler process, for any   *)
(* number of units and packets, resets included.                             *)
THEOREM DummyIsQueuedOnce == Spec => []OneDummy
<1>1. IInv => OneDummy
  <2> SUFFICES ASSUME IInv, NEW u \in Units
               PROVE  Cardinality({i \in 1 .. Len(port[u]) : port[u][i] = Dummy})
                        + (IF hpc[u] = "release" THEN 1 ELSE 0) <= 1
    BY DEF OneDummy
  <2> DEFINE D == {i \in 1 .. Len(port[u]) : port[u][i] = Dummy}
  <2>1. Distinct(port[u]) /\ ~(Holds(port[u], Dummy) /\ hpc[u] = "release")
    BY DEF IInv, UnitInv, Handled, Dummies
  <2>2. CASE D = {}
    <3>1. Cardinality(D) = 0
      BY <2>2, FS_EmptySet
    <3> QED BY <3>1
  <2>3. CASE D # {}
    <3>1. PICK i \in D : TRUE
      BY <2>3
    <3>2. D = {i}
      BY <2>1, <3>1 DEF Distinct
    <3>3. Cardinality(D) = 1
      BY <3>2, FS_Singleton
    <3>4. Holds(port[u], Dummy)
      BY <3>1 DEF Holds
    <3> QED BY <2>1, <3>3, <3>4
  <2> QED BY <2>2, <2>3
<1> QED BY <1>1, UnitInvariant, PTL

(* ReplyOne answers a packet once, and only one that the unit's thread has   *)
(* neither before it, nor in hand, nor waiting for a record lock.            *)
THEOREM EveryAnswerIsTheOnlyOne == Spec => []AnsweredOnce
<1>1. IInv => AnsweredOnce
  <2> SUFFICES ASSUME IInv, NEW p \in Packets
               PROVE  /\ answers[p] <= 1
                      /\ answers[p] = 1 => ~Has(Home(p), p)
    BY DEF AnsweredOnce, Has, Holds
  <2>1. answers[p] \in {0, 1} /\ (answers[p] = 1 => status[p] \in {"complete", "timedout"})
    BY DEF IInv, Types, Answered
  <2>2. Has(Home(p), p) => status[p] = "started"
    BY Basics DEF IInv, UnitInv, Threaded
  <2> QED BY <2>1, <2>2
<1> QED BY <1>1, UnitInvariant, PTL

(* A command that the unit's thread has completed is found by                *)
(* FSML_check_old: the chain of counter, interrupt and dummy message never   *)
(* breaks, whenever the thread completes a command during a scan.            *)
THEOREM EveryCompletionIsSeen == Spec => []NothingForgotten
<1>1. IInv => NothingForgotten
  <2> SUFFICES ASSUME IInv, NEW u \in Units, NEW i \in 1 .. Len(list[u]),
                      rpc = 0, ipc = "off", ~int_requested, hpc[u] = "loop", port[u] = <<>>,
                      tpc[u] = "read"
               PROVE  status[list[u][i]] # "complete"
    BY DEF NothingForgotten
  <2>1. list[u][i] \in Packets /\ Holds(list[u], list[u][i])
    <3>1. list[u] \in Seq(Packets)
      BY DEF IInv, Types
    <3> QED BY <3>1, ElementOfSeq DEF Holds
  <2>2. ~UnderWay(u)
    BY Nothing DEF UnderWay
  <2>3. ~Call(u)
    BY <2>2 DEF IInv, UnitInv, Dummies, Call
  <2> QED BY <2>1, <2>3 DEF IInv, UnitInv, Told
<1> QED BY <1>1, UnitInvariant, PTL

(* With MaxStarted commands outstanding at most, neither pipe of a unit is   *)
(* ever asked to hold more than the limit allows, for any limit; the death   *)
(* message of a reset comes on top.                                          *)
THEOREM LimitKeepsPipesFree == Spec => []PipesNeverFill
<1>1. IInv => PipesNeverFill
  <2> SUFFICES ASSUME IInv, NEW u \in Units
               PROVE  /\ Len(unit_pipe[u])
                           <= MaxStarted + (IF reset_state[u] = "FS_GO_DOWN" THEN 1 ELSE 0)
                      /\ back_pipe[u] <= 2 * MaxStarted + 1
    BY DEF PipesNeverFill
  <2>1. /\ Types /\ Reaper(u) /\ Handled(u) /\ Threaded(u) /\ Counted(u) /\ Locks(u)
    BY DEF IInv, UnitInv
  <2>2. /\ Due(u) \in Nat /\ Open(u) \in Nat /\ Due(u) <= Open(u) + 1
        /\ tpc[u] \notin {"sent", "int", "locks"} => Due(u) <= Open(u)
    BY <2>1, DueIsOpen
  <2>3. /\ Open(u) <= MaxStarted /\ MaxStarted \in Nat /\ d5[u] \in Nat
        /\ Len(unit_pipe[u]) \in Nat /\ back_pipe[u] \in Nat
    BY <2>1, Basics, LenProperties DEF Counted, Open, Types
  <2>4. Commands(u) <= Open(u) /\ Commands(u) \in Int
    <3>1. Commands(u) \in Int
      BY <2>3 DEF Commands
    <3>2. CASE tpc[u] \in {"sent", "int", "locks"}
      <4>1. Due(u) = Commands(u) + 1
        BY <3>2 DEF Due
      <4> QED BY <2>2, <3>1, <4>1
    <3>3. CASE tpc[u] \notin {"sent", "int", "locks"}
      <4>1. Due(u) = Commands(u) + 1 \/ Due(u) = Commands(u) + 0
        BY DEF Due
      <4> QED BY <2>2, <3>1, <3>3, <4>1
    <3> QED BY <3>2, <3>3
  <2>5. Len(unit_pipe[u]) = Commands(u) + 1 \/ Len(unit_pipe[u]) = Commands(u) + 0
    <3>1. Commands(u) = Len(unit_pipe[u]) - 1 \/ Commands(u) = Len(unit_pipe[u]) - 0
      BY DEF Commands
    <3> QED BY <2>3, <3>1
  <2>6. back_pipe[u] + Due(u) <= Open(u) + MaxStarted + 1
    BY <2>1 DEF Locks
  <2>7. back_pipe[u] <= MaxStarted + MaxStarted + 1 /\ 2 * MaxStarted = MaxStarted + MaxStarted
    BY <2>2, <2>3, <2>6
  <2>8. reset_state[u] # "FS_GO_DOWN" => Len(unit_pipe[u]) = Commands(u)
    <3>1. reset_state[u] # "FS_GO_DOWN" => rpc < 2 * u
      BY <2>1, Basics DEF Reaper, Types
    <3>2. reset_state[u] # "FS_GO_DOWN" => ~Holds(unit_pipe[u], Death)
      BY <2>1, <3>1 DEF Reaper
    <3>3. ~Holds(unit_pipe[u], Death) => Commands(u) = Len(unit_pipe[u]) - 0
      BY DEF Commands
    <3> QED BY <2>3, <3>2, <3>3
  <2>9. Len(unit_pipe[u]) <= MaxStarted + (IF reset_state[u] = "FS_GO_DOWN" THEN 1 ELSE 0)
    <3>1. Len(unit_pipe[u]) <= Commands(u) + 1 /\ Commands(u) <= MaxStarted
      BY <2>2, <2>3, <2>4, <2>5
    <3>2. CASE reset_state[u] = "FS_GO_DOWN"
      BY <2>3, <2>4, <3>1, <3>2
    <3>3. CASE reset_state[u] # "FS_GO_DOWN"
      BY <2>3, <2>4, <2>8, <3>1, <3>3
    <3> QED BY <3>2, <3>3
  <2> QED BY <2>7, <2>9
<1> QED BY <1>1, UnitInvariant, PTL

(* A reset frees a unit only after its thread has died, wherever the thread  *)
(* was when its death message was sent, and for any number of resets.        *)
THEOREM ThreadDiesFirst == Spec => []UnitOutlivesThread
<1>1. IInv => UnitOutlivesThread
  <2> SUFFICES ASSUME IInv, NEW u \in Units
               PROVE  /\ tpc[u] \in {"handle", "sent", "int", "locks"} => self[u]
                      /\ rpc > 2 * u => tpc[u] = "dead"
    BY DEF UnitOutlivesThread
  <2>1. Types /\ Reaper(u) /\ Booting(u) /\ Threaded(u)
    BY DEF IInv, UnitInv
  <2>2. tpc[u] = "handle" => tcmd[u] \in Packets /\ Has(u, tcmd[u])
    BY <2>1 DEF Threaded, Has
  <2>3. tpc[u] = "handle" => hpc[u] # "boot"
    BY <2>1, <2>2 DEF Threaded, Booting
  <2> QED BY <2>1, <2>3 DEF Reaper, Booting
<1> QED BY <1>1, UnitInvariant, PTL
=============================================================================
