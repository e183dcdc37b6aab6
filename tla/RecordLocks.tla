---------------------------- MODULE RecordLocks ----------------------------
(***************************************************************************)
(* The record locks of one file (filesys.c).  The unit's thread grants     *)
(* them, puts packets that want to wait into unit->waitingrecords and      *)
(* looks there again when a record is freed.  Once a frame the emulation   *)
(* thread counts down the waiting packets' times, in the same list and     *)
(* without a lock, and answers those whose time is up.                     *)
(*                                                                         *)
(* Where both threads work in the list and one of them changes it, or      *)
(* where a key that is gone is looked at, what follows is undefined: the   *)
(* model stops there.                                                      *)
(***************************************************************************)
EXTENDS Naturals, Sequences, SequencesExt

CONSTANTS
  Keys,       \* the open handles of the file
  Packets,    \* the packets that ask for records, one record after the other
  MaxRecords, \* bound: the records of a handle
  Ranges,     \* the ranges they ask for: <<position, length>>
  Timeouts,   \* for how many ticks of 1/50 s they want to wait
  VblankHz,   \* vblank_hz, in frames a second
  W           \* positions and times are uae_u32: modulo W

RecordAssumption ==
  W \in Nat \ {0} /\ Ranges \subseteq (0 .. W - 1) \X (0 .. W - 1) /\ Timeouts \subseteq Nat
  /\ VblankHz \in Nat

VARIABLES
  keys,            \* the keys that are open
  record,          \* per key: the list of its records
  waitingrecords,  \* the list of the packets that wait, newest first, with the time left
  packet,          \* per packet: what was asked for, and what became of it
  check,           \* record_check_waiting: where the unit's thread is in the list, or 0
  frame,           \* record_timeout: where the emulation thread is in the list, or 0
  undefined        \* ghost

vars == <<keys, record, waitingrecords, packet, check, frame, undefined>>

Answered == [state |-> "answered"]            \* or not sent yet

Init ==
  /\ keys = Keys /\ record = [k \in Keys |-> <<>>] /\ waitingrecords = <<>>
  /\ packet = [p \in Packets |-> Answered] /\ check = 0 /\ frame = 0 /\ undefined = FALSE

\* The test of record_hit, in its arithmetic.
Hit(a, b) ==
  LET a1 == a[1] a2 == (a[1] + a[2]) % W b1 == b[1] b2 == (b[1] + b[2]) % W IN
    /\ a[2] # 0 /\ b[2] # 0
    /\ \/ a1 >= b1 /\ a1 < b2
       \/ a2 > b1 /\ a2 < b2
       \/ b1 >= a1 /\ b1 < a2
       \/ b2 > a1 /\ b2 < a2

Records(k) == {record[k][i] : i \in DOMAIN record[k]}
\* Mutant: only two exclusive records are in each other's way.
Mut_RecordHit(k, range, exclusive) ==
  \E k2 \in keys \ {k} : \E lr \in Records(k2) : exclusive /\ lr.exclusive /\ Hit(range, lr.range)

\* record_hit
RecordHit(k, range, exclusive) ==
  \E k2 \in keys \ {k} : \E lr \in Records(k2) : (exclusive \/ lr.exclusive) /\ Hit(range, lr.range)

-----------------------------------------------------------------------------
(* The unit's thread                                                         *)

Ready == check = 0 /\ ~undefined

\* new_record: the time left in frames.
Frames(timeout) == ((timeout * VblankHz) \div 50) % W

\* action_lock_record; the _IMMED modes are those with no time to wait.
LockRecord(p, k, range, exclusive, timeout) ==
  LET lr == [range |-> range, exclusive |-> exclusive]
      Becomes(x) == packet' = [packet EXCEPT ![p] = x]
  IN
    /\ Ready /\ packet[p] = Answered /\ k \in keys /\ Len(record[k]) < MaxRecords
    /\ IF ~RecordHit(k, range, exclusive)
       THEN /\ record' = [record EXCEPT ![k] = <<lr>> \o @] /\ Becomes(Answered)
            /\ UNCHANGED <<waitingrecords, undefined>>
       ELSE IF timeout = 0
       THEN Becomes(Answered) /\ UNCHANGED <<record, waitingrecords, undefined>>
       ELSE /\ Becomes([state |-> "waiting", key |-> k, lr |-> lr])
            /\ waitingrecords' = <<[packet |-> p, timeout |-> Frames(timeout)]>> \o waitingrecords
            /\ undefined' = (frame # 0) /\ UNCHANGED record
    /\ UNCHANGED <<keys, check, frame>>

\* action_free_record: the first record that fits; those before it go with it.
FreeRecord(k, range) ==
  /\ Ready /\ k \in keys
  /\ \E i \in DOMAIN record[k] :
       /\ record[k][i].range = range /\ \A j \in 1 .. i - 1 : record[k][j].range # range
       /\ record' = [record EXCEPT ![k] = SubSeq(@, i + 1, Len(@))]
  /\ check' = 1
  /\ UNCHANGED <<keys, waitingrecords, packet, frame, undefined>>

Free(p) == ~RecordHit(packet[p].key, packet[p].lr.range, packet[p].lr.exclusive)

\* record_check_waiting: the packet is complete, but nothing is recorded for it.
Check ==
  /\ check # 0 /\ ~undefined
  /\ IF check > Len(waitingrecords) THEN check' = 0 /\ UNCHANGED <<waitingrecords, packet, undefined>>
     ELSE LET p == waitingrecords[check].packet IN
            IF packet[p].key \in keys /\ ~Free(p)
            THEN check' = check + 1 /\ UNCHANGED <<waitingrecords, packet, undefined>>
            ELSE /\ waitingrecords' = RemoveAt(waitingrecords, check) /\ check' = 1
                 /\ packet' = [packet EXCEPT ![p] = Answered]
                 /\ undefined' = (frame # 0 \/ packet[p].key \notin keys)
  /\ UNCHANGED <<keys, record, frame>>

\* action_end and free_key; nobody looks at who waits for these records.
Close(k) ==
  /\ Ready /\ k \in keys /\ keys' = keys \ {k}
  /\ record' = [record EXCEPT ![k] = <<>>]
  /\ UNCHANGED <<waitingrecords, packet, check, frame, undefined>>

-----------------------------------------------------------------------------
(* The emulation thread: record_timeout, from filesys_vsync                  *)

Vsync ==
  /\ frame = 0 /\ ~undefined /\ frame' = 1
  /\ UNCHANGED <<keys, record, waitingrecords, packet, check, undefined>>

\* Mutant: the oldest one is forgotten.
Mut_Through == frame >= Len(waitingrecords)
Through == frame > Len(waitingrecords)

\* When a time is up the walk begins again, and counts down those before it once more.
Timeout ==
  /\ frame # 0 /\ ~undefined
  /\ IF Through THEN frame' = 0 /\ UNCHANGED <<waitingrecords, packet, undefined>>
     ELSE LET lr == waitingrecords[frame]
              left == (lr.timeout + W - 1) % W
          IN
            IF left # 0
            THEN /\ waitingrecords' = [waitingrecords EXCEPT ![frame].timeout = left]
                 /\ frame' = frame + 1 /\ UNCHANGED <<packet, undefined>>
            ELSE /\ waitingrecords' = RemoveAt(waitingrecords, frame) /\ frame' = 1
                 /\ packet' = [packet EXCEPT ![lr.packet] = Answered]
                 /\ undefined' = (check # 0)
  /\ UNCHANGED <<keys, record, check>>

-----------------------------------------------------------------------------
Next ==
  \/ \E p \in Packets, k \in Keys, range \in Ranges, exclusive \in BOOLEAN, t \in Timeouts :
       LockRecord(p, k, range, exclusive, t)
  \/ \E k \in Keys : Close(k) \/ \E range \in Ranges : FreeRecord(k, range)
  \/ Check \/ Vsync \/ Timeout

Spec == Init /\ [][Next]_vars
FairSpec == Spec /\ WF_vars(Vsync) /\ WF_vars(Timeout)

-----------------------------------------------------------------------------
Bytes(range) == range[1] .. range[1] + range[2] - 1
Inside(range) == range[1] + range[2] < W

(* The test of record_hit tells, for ranges that end before the last position, *)
(* whether they have a byte in common.                                       *)
HitIsOverlap ==
  \A a, b \in (0 .. W - 1) \X (0 .. W - 1) :
    Inside(a) /\ Inside(b) => (Hit(a, b) <=> Bytes(a) \cap Bytes(b) # {})

(* Two handles never hold records of the same byte, unless both are shared,   *)
(* as long as no record ends beyond the last position.                       *)
NoConflict ==
  \A k1, k2 \in Keys : k1 # k2 =>
    \A lr1 \in Records(k1), lr2 \in Records(k2) :
      Inside(lr1.range) /\ Inside(lr2.range) /\ (lr1.exclusive \/ lr2.exclusive)
        => Bytes(lr1.range) \cap Bytes(lr2.range) = {}

(* Whoever waits is answered, when the record becomes free or when the time  *)
(* is up, also when the handle that had the record was closed.               *)
WaitEnds ==
  \A p \in Packets : packet[p].state = "waiting" ~> packet[p].state # "waiting" \/ undefined
=============================================================================
