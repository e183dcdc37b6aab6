-------------------------- MODULE RecordLocksProof --------------------------
(***************************************************************************)
(* That the arithmetic of record_hit decides what it is meant to decide.   *)
(***************************************************************************)
EXTENDS RecordLocks, TLAPS

LEMMA Mod ==
  ASSUME NEW w \in Nat \ {0}, NEW n \in Nat, n < w
  PROVE  n % w = n
  BY SMT

(* The four comparisons of record_hit find every byte that two records share  *)
(* and nothing else, as long as both end before the last position.           *)
THEOREM RecordHitIsOverlap == RecordAssumption => HitIsOverlap
<1> SUFFICES ASSUME RecordAssumption,
                    NEW a \in (0 .. W - 1) \X (0 .. W - 1), NEW b \in (0 .. W - 1) \X (0 .. W - 1),
                    Inside(a), Inside(b)
             PROVE  Hit(a, b) <=> Bytes(a) \cap Bytes(b) # {}
  BY DEF HitIsOverlap
<1>1. W \in Nat \ {0}
  BY DEF RecordAssumption
<1>2. a[1] \in Nat /\ a[2] \in Nat /\ b[1] \in Nat /\ b[2] \in Nat
  BY <1>1
<1>3. (a[1] + a[2]) % W = a[1] + a[2] /\ (b[1] + b[2]) % W = b[1] + b[2]
  BY <1>1, <1>2, Mod DEF Inside
<1>4. ASSUME Hit(a, b) PROVE Bytes(a) \cap Bytes(b) # {}
  <2>1. \/ a[1] \in Bytes(a) \cap Bytes(b)
        \/ a[1] + a[2] - 1 \in Bytes(a) \cap Bytes(b)
        \/ b[1] \in Bytes(a) \cap Bytes(b)
        \/ b[1] + b[2] - 1 \in Bytes(a) \cap Bytes(b)
    BY <1>2, <1>3, <1>4 DEF Hit, Bytes
  <2> QED BY <2>1
<1>5. ASSUME Bytes(a) \cap Bytes(b) # {} PROVE Hit(a, b)
  <2>1. PICK n \in Bytes(a) : n \in Bytes(b)
    BY <1>5
  <2> QED BY <1>2, <1>3, <2>1 DEF Hit, Bytes
<1> QED BY <1>4, <1>5

-----------------------------------------------------------------------------
(* NoConflict is inductive once it is known what a record is and that a       *)
(* handle that is closed has none.                                           *)
Record == [range : Ranges, exclusive : BOOLEAN]
TypeOK == keys \subseteq Keys /\ record \in [Keys -> Seq(Record)]
ClosedHasNone == \A k \in Keys \ keys : record[k] = <<>>
IInv == TypeOK /\ ClosedHasNone /\ NoConflict

\* What `record` holds after a step, as far as NoConflict is concerned.
Holds(rec, k) == {rec[k][i] : i \in DOMAIN rec[k]}
Conflict(lr1, lr2) ==
  /\ Inside(lr1.range) /\ Inside(lr2.range) /\ (lr1.exclusive \/ lr2.exclusive)
  /\ Bytes(lr1.range) \cap Bytes(lr2.range) # {}

LEMMA InFront ==
  ASSUME NEW S, NEW x \in S, NEW s \in Seq(S)
  PROVE  /\ <<x>> \o s \in Seq(S)
         /\ \A i \in DOMAIN (<<x>> \o s) :
              (<<x>> \o s)[i] = x \/ \E j \in DOMAIN s : (<<x>> \o s)[i] = s[j]
<1>1. <<x>> \o s \in Seq(S) /\ Len(<<x>> \o s) = 1 + Len(s)
  OBVIOUS
<1>2. ASSUME NEW i \in DOMAIN (<<x>> \o s), i # 1
      PROVE  i - 1 \in DOMAIN s /\ (<<x>> \o s)[i] = s[i - 1]
  BY <1>1, <1>2
<1>3. (<<x>> \o s)[1] = x
  OBVIOUS
<1> QED BY <1>1, <1>2, <1>3

LEMMA Remaining ==
  ASSUME NEW S, NEW s \in Seq(S), NEW i \in DOMAIN s
  PROVE  /\ SubSeq(s, i + 1, Len(s)) \in Seq(S)
         /\ \A j \in DOMAIN SubSeq(s, i + 1, Len(s)) :
              \E n \in DOMAIN s : SubSeq(s, i + 1, Len(s))[j] = s[n]
<1>1. SubSeq(s, i + 1, Len(s)) \in Seq(S) /\ Len(SubSeq(s, i + 1, Len(s))) = Len(s) - i
  OBVIOUS
<1>2. ASSUME NEW j \in DOMAIN SubSeq(s, i + 1, Len(s))
      PROVE  j + i \in DOMAIN s /\ SubSeq(s, i + 1, Len(s))[j] = s[j + i]
  BY SMTT(30), <1>1, <1>2
<1> QED BY <1>1, <1>2

(* A step that leaves a handle no record it did not have keeps the invariant. *)
LEMMA FewerRecords ==
  ASSUME IInv, keys' \subseteq keys, record' \in [Keys -> Seq(Record)],
         \A k \in Keys : Holds(record', k) \subseteq Holds(record, k),
         \A k \in Keys \ keys' : record'[k] = <<>>
  PROVE  IInv'
<1>1. TypeOK' /\ ClosedHasNone'
  BY DEF IInv, TypeOK, ClosedHasNone
<1>2. NoConflict'
  BY ZenonT(30) DEF IInv, NoConflict, Records, Holds
<1> QED BY <1>1, <1>2 DEF IInv

(* Two records that conflict hit each other, whichever of them asks.         *)
LEMMA ConflictHits ==
  ASSUME RecordAssumption, NEW lr1 \in Record, NEW lr2 \in Record, Conflict(lr1, lr2)
  PROVE  Hit(lr1.range, lr2.range)
<1>1. lr1.range \in (0 .. W - 1) \X (0 .. W - 1) /\ lr2.range \in (0 .. W - 1) \X (0 .. W - 1)
  BY DEF RecordAssumption, Record
<1> QED BY <1>1, RecordHitIsOverlap DEF HitIsOverlap, Conflict

LEMMA Granted ==
  ASSUME RecordAssumption, IInv, NEW k \in keys, NEW lr \in Record,
         ~RecordHit(k, lr.range, lr.exclusive),
         record' = [record EXCEPT ![k] = <<lr>> \o @], keys' = keys
  PROVE  IInv'
<1>1. k \in Keys /\ record[k] \in Seq(Record)
  BY DEF IInv, TypeOK
<1>2. /\ <<lr>> \o record[k] \in Seq(Record)
      /\ \A i \in DOMAIN (<<lr>> \o record[k]) :
           \/ (<<lr>> \o record[k])[i] = lr
           \/ \E j \in DOMAIN record[k] : (<<lr>> \o record[k])[i] = record[k][j]
  BY <1>1, InFront
<1>3. /\ record \in [Keys -> Seq(Record)] /\ record'[k] = <<lr>> \o record[k]
      /\ \A x \in Keys \ {k} : record'[x] = record[x]
  BY <1>1 DEF IInv, TypeOK
<1>4. TypeOK' /\ ClosedHasNone'
  <2>1. record' \in [Keys -> Seq(Record)]
    BY <1>1, <1>2, <1>3
  <2> QED BY <2>1, <1>3 DEF IInv, TypeOK, ClosedHasNone
<1>5. \A x \in Keys : \A r \in Records(x)' : r \in Records(x) \/ (x = k /\ r = lr)
  <2>1. \A x \in Keys \ {k} : Records(x)' = Records(x)
    BY <1>3 DEF Records
  <2>2. \A r \in Records(k)' : r \in Records(k) \/ r = lr
    BY <1>2, <1>3 DEF Records
  <2> QED BY <2>1, <2>2
<1>6. \A x \in Keys : Records(x) \subseteq Record
  BY DEF IInv, TypeOK, Records
<1>7. \A x \in Keys \ keys : Records(x) = {}
  BY DEF IInv, ClosedHasNone, Records
<1>8. \A x \in Keys \ {k} : \A r \in Records(x) : ~Conflict(lr, r)
  <2> SUFFICES ASSUME NEW x \in Keys \ {k}, NEW r \in Records(x), Conflict(lr, r) PROVE FALSE
    OBVIOUS
  <2>1. x \in keys /\ r \in Record
    BY <1>6, <1>7
  <2>2. Hit(lr.range, r.range)
    BY <2>1, ConflictHits
  <2>3. lr.exclusive \/ r.exclusive
    BY DEF Conflict
  <2> QED BY <2>1, <2>2, <2>3 DEF RecordHit
<1>9. NoConflict'
  <2> SUFFICES ASSUME NEW k1 \in Keys, NEW k2 \in Keys, k1 # k2,
                      NEW lr1 \in Records(k1)', NEW lr2 \in Records(k2)', Conflict(lr1, lr2)
               PROVE  FALSE
    BY DEF NoConflict, Conflict
  <2>1. CASE lr1 \in Records(k1) /\ lr2 \in Records(k2)
    BY <2>1 DEF IInv, NoConflict, Conflict
  <2>2. CASE k1 = k /\ lr1 = lr
    BY <2>2, <1>5, <1>8
  <2>3. CASE k2 = k /\ lr2 = lr
    <3>1. Conflict(lr2, lr1)
      BY DEF Conflict
    <3> QED BY <2>3, <3>1, <1>5, <1>8
  <2> QED BY <1>5, <2>1, <2>2, <2>3
<1> QED BY <1>4, <1>9 DEF IInv

LEMMA InvStep == RecordAssumption /\ IInv /\ [Next]_vars => IInv'
<1> SUFFICES ASSUME RecordAssumption, IInv, [Next]_vars PROVE IInv'
  OBVIOUS
<1>1. ASSUME keys' = keys, record' = record PROVE IInv'
  <2>1. \A k \in Keys : Records(k)' = Records(k)
    BY <1>1 DEF Records
  <2>2. NoConflict'
    BY <2>1 DEF IInv, NoConflict
  <2> QED BY <1>1, <2>2 DEF IInv, TypeOK, ClosedHasNone
<1>2. ASSUME NEW p \in Packets, NEW k \in Keys, NEW range \in Ranges, NEW exclusive \in BOOLEAN,
             NEW t \in Timeouts, LockRecord(p, k, range, exclusive, t)
      PROVE  IInv'
  <2> DEFINE lr == [range |-> range, exclusive |-> exclusive]
  <2>1. keys' = keys /\ k \in keys
    BY <1>2 DEF LockRecord
  <2>2. \/ record' = record
        \/ ~RecordHit(k, range, exclusive) /\ record' = [record EXCEPT ![k] = <<lr>> \o @]
    BY <1>2 DEF LockRecord
  <2>3. lr \in Record /\ lr.range = range /\ lr.exclusive = exclusive
    BY DEF Record
  <2> QED BY <1>1, <2>1, <2>2, <2>3, Granted
<1>3. ASSUME NEW k \in Keys, NEW range \in Ranges, FreeRecord(k, range) PROVE IInv'
  <2>1. PICK i \in DOMAIN record[k] : record' = [record EXCEPT ![k] = SubSeq(@, i + 1, Len(@))]
    BY <1>3 DEF FreeRecord
  <2>2. keys' = keys /\ k \in keys /\ record[k] \in Seq(Record)
    BY <1>3 DEF FreeRecord, IInv, TypeOK
  <2>3. record' \in [Keys -> Seq(Record)]
    BY <2>1, <2>2, Remaining DEF IInv, TypeOK
  <2>4. \A x \in Keys : Holds(record', x) \subseteq Holds(record, x)
    BY <2>1, <2>2, Remaining DEF IInv, TypeOK, Holds
  <2>5. \A x \in Keys \ keys' : record'[x] = <<>>
    BY <2>1, <2>2 DEF IInv, TypeOK, ClosedHasNone
  <2> QED BY <2>2, <2>3, <2>4, <2>5, FewerRecords
<1>4. ASSUME NEW k \in Keys, Close(k) PROVE IInv'
  <2>1. keys' = keys \ {k} /\ record' = [record EXCEPT ![k] = <<>>]
    BY <1>4 DEF Close
  <2>2. record' \in [Keys -> Seq(Record)]
    BY <2>1 DEF IInv, TypeOK
  <2>3. \A x \in Keys : Holds(record', x) \subseteq Holds(record, x)
    BY <2>1 DEF IInv, TypeOK, Holds
  <2>4. \A x \in Keys \ keys' : record'[x] = <<>>
    BY <2>1 DEF IInv, TypeOK, ClosedHasNone
  <2> QED BY <2>1, <2>2, <2>3, <2>4, FewerRecords
<1>5. CASE Check \/ Vsync \/ Timeout \/ UNCHANGED vars
  BY <1>5, <1>1 DEF Check, Vsync, Timeout, vars
<1> QED BY <1>2, <1>3, <1>4, <1>5 DEF Next

(* Two handles never hold records of the same byte, unless both are shared,   *)
(* for every set of handles, packets and ranges, however packets wait, are    *)
(* released and time out, and whatever records freeing one takes along.      *)
THEOREM NoConflictHolds == RecordAssumption /\ Spec => []NoConflict
<1> SUFFICES ASSUME RecordAssumption PROVE Spec => []NoConflict
  OBVIOUS
<1>1. Init => IInv
  BY DEF Init, IInv, TypeOK, ClosedHasNone, NoConflict, Records
<1>2. IInv /\ [Next]_vars => IInv'
  BY InvStep
<1>3. IInv => NoConflict
  BY DEF IInv
<1> QED BY <1>1, <1>2, <1>3, PTL DEF Spec
=============================================================================
