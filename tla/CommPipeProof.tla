--------------------------- MODULE CommPipeProof ---------------------------
(***************************************************************************)
(* The comm pipe is a bounded FIFO for every size, chunk size and payload, *)
(* provided its callers never overlap two writes.                          *)
(***************************************************************************)
EXTENDS CommPipe, SequenceTheorems, TLAPS

\* Arithmetic on slots, without the %.
Succ(i) == IF i + 1 = Size THEN 0 ELSE i + 1
Dist(r, w) == IF w >= r THEN w - r ELSE w + Size - r

WHolds == {"full", "setwait", "release"}
WFree == {"idle", "peek", "lock", "wait", "relock"}
RHolds == {"empty", "setwait", "release", "take", "advance", "wake", "clear", "post", "leave"}
RAsleep == {"release", "wait"}

(* One call of write_comm_pipe_pt at a time.                                 *)
OneCall == \A v, w \in Writers : wpc[v] # "idle" /\ wpc[w] # "idle" => v = w

(* The count of the semaphore lock and who is between its wait and its post. *)
LockInv ==
  /\ \A w \in Writers :
       /\ wpc[w] \in WHolds => locked[w]
       /\ wpc[w] \in WFree => ~locked[w]
       /\ locked[w] => lock = 0 /\ rpc \notin RHolds
  /\ rpc \in RHolds => lock = 0

(* reader_waiting, the token in reader_wait and the writer about to post it  *)
(* exclude each other, and each of them finds the reader asleep.             *)
ReaderSleep ==
  /\ reader_waiting => rpc \in RAsleep /\ reader_wait = 0
  /\ reader_wait = 1 => rpc \in RAsleep /\ ~reader_waiting
  /\ \A w \in Writers :
       /\ wpc[w] = "clear" => reader_waiting
       /\ wpc[w] = "post" => rpc \in RAsleep /\ ~reader_waiting /\ reader_wait = 0
       /\ wpc[w] \in {"store", "advance", "wake"} /\ ~locked[w] => reader_waiting

(* The same for the writer that waits for room.                              *)
WriterSleep ==
  /\ writer_waiting => writer_wait = 0 /\ \E w \in Writers : wpc[w] \in {"release", "wait"}
  /\ writer_wait = 1 => ~writer_waiting /\ \E w \in Writers : wpc[w] \in {"release", "wait"}
  /\ rpc = "clear" => writer_waiting
  /\ rpc = "post" => /\ ~writer_waiting /\ writer_wait = 0
                     /\ \E w \in Writers : wpc[w] \in {"release", "wait"}

(* The reader takes only from a pipe that holds something.                   *)
HasData ==
  /\ rpc \in {"take", "advance", "relock"} => rdp # wrp
  /\ rpc = "setwait" => rdp = wrp
  /\ rpc \in RAsleep /\ ~reader_waiting => rdp # wrp
  /\ \A w \in Writers : wpc[w] \in {"wake", "clear", "post"} => rdp # wrp

(* The writer stores only into a pipe that has room.                         *)
HasRoom ==
  /\ reader_waiting => \/ Dist(rdp, wrp) < Chunks
                       \/ \E w \in Writers : wpc[w] \in {"wake", "clear"}
  /\ rpc \in {"wake", "clear", "post"} => Succ(wrp) # rdp
  /\ \A w \in Writers :
       /\ wpc[w] \notin {"idle", "wake", "clear", "post", "leave"} => nxwrp[w] = Succ(wrp)
       /\ wpc[w] \in {"store", "advance", "relock"} => Succ(wrp) # rdp
       /\ wpc[w] \in {"release", "wait"} /\ ~writer_waiting => Succ(wrp) # rdp

(* What is on its way into the ring and out of it.                           *)
Carried ==
  /\ \A w \in Writers : wpc[w] # "idle" => wdata[w] # None
  /\ \A w \in Writers : wpc[w] = "advance" => data[wrp] = wdata[w]
  /\ rpc = "advance" => rval = data[rdp]
  /\ \A i \in 1 .. Dist(rdp, wrp) : data[(rdp + i - 1) % Size] # None

IInv == /\ TypeOK /\ OneCall /\ LockInv /\ ReaderSleep /\ WriterSleep
        /\ HasData /\ HasRoom /\ Carried

(* Callers never overlap two writes: they hold a lock of their own around    *)
(* the calls, or there is only one of them.                                  *)
OneWriter == Exclusive \/ \A v, w \in Writers : v = w

-----------------------------------------------------------------------------
(* k % Size for an index that went around the ring at most once.             *)
LEMMA ModWrap ==
  ASSUME NEW k \in Nat, k < 2 * Size
  PROVE  k % Size = IF k < Size THEN k ELSE k - Size
<1>1. CASE k < Size
  BY <1>1, PipeAssumption
<1>2. CASE k >= Size
  BY <1>2, PipeAssumption
<1>. QED
  BY <1>1, <1>2, PipeAssumption

(* (i + 1) % Size is the next slot.                                          *)
LEMMA SuccSlot ==
  ASSUME NEW i \in Slots
  PROVE  (i + 1) % Size = Succ(i) /\ Succ(i) \in Slots
  BY PipeAssumption DEF Slots, Succ

(* The expression of maybe_wake_reader counts the unread items.              *)
LEMMA UsedDist ==
  ASSUME NEW r \in Slots, NEW w \in Slots
  PROVE  (w + Size - r) % Size = Dist(r, w) /\ Dist(r, w) \in Slots
<1>. DEFINE k == w + Size - r
<1>1. k \in Nat /\ k < 2 * Size
  BY PipeAssumption DEF Slots
<1>. HIDE DEF k
<1>2. k % Size = IF k < Size THEN k ELSE k - Size
  BY <1>1, ModWrap
<1>. QED
  BY <1>1, <1>2, PipeAssumption DEF Slots, Dist

LEMMA SlotTypes ==
  ASSUME NEW r \in Slots, NEW w \in Slots
  PROVE  Succ(r) \in Slots /\ Dist(r, w) \in Slots
  BY PipeAssumption DEF Slots, Succ, Dist

(* One item more, one item less.                                             *)
LEMMA DistSucc ==
  ASSUME NEW r \in Slots, NEW w \in Slots
  PROVE  /\ Dist(r, w) \in Slots
         /\ w # r => Dist(r, w) > 0 /\ Dist(Succ(r), w) = Dist(r, w) - 1
         /\ Succ(w) # r => Dist(r, Succ(w)) = Dist(r, w) + 1
         /\ Succ(w) = r <=> Dist(r, w) = Size - 1
  BY PipeAssumption DEF Slots, Succ, Dist

(* Slots counted from one end of the ring.                                   *)
LEMMA SlotOf ==
  ASSUME NEW r \in Slots, NEW i \in Nat, i <= Size
  PROVE  (r + i) % Size = IF r + i < Size THEN r + i ELSE r + i - Size
<1>. DEFINE k == r + i
<1>1. k \in Nat /\ k < 2 * Size
  BY PipeAssumption DEF Slots
<1>. HIDE DEF k
<1>2. k % Size = IF k < Size THEN k ELSE k - Size
  BY <1>1, ModWrap
<1>. QED
  BY <1>1, <1>2, PipeAssumption DEF Slots

LEMMA SlotShift ==
  ASSUME NEW r \in Slots, NEW i \in Nat, i < Size
  PROVE  (Succ(r) + i) % Size = (r + (i + 1)) % Size
<1>1. Succ(r) \in Slots
  BY SuccSlot
<1>2. (Succ(r) + i) % Size = IF Succ(r) + i < Size THEN Succ(r) + i ELSE Succ(r) + i - Size
  BY <1>1, SlotOf, PipeAssumption
<1>3. (r + (i + 1)) % Size = IF r + (i + 1) < Size THEN r + (i + 1) ELSE r + (i + 1) - Size
  BY SlotOf, PipeAssumption
<1>. QED
  BY <1>2, <1>3 DEF Slots, Succ

LEMMA SlotEnd ==
  ASSUME NEW r \in Slots, NEW w \in Slots
  PROVE  (r + Dist(r, w)) % Size = w
<1>1. Dist(r, w) \in Nat /\ Dist(r, w) <= Size
  BY DistSucc, PipeAssumption DEF Slots
<1>2. (r + Dist(r, w)) % Size
        = IF r + Dist(r, w) < Size THEN r + Dist(r, w) ELSE r + Dist(r, w) - Size
  BY <1>1, SlotOf
<1>. QED
  BY <1>2, PipeAssumption DEF Slots, Dist

(* The slot that is written next holds nothing that is unread.               *)
LEMMA SlotBefore ==
  ASSUME NEW r \in Slots, NEW w \in Slots, NEW i \in 1 .. Dist(r, w)
  PROVE  (r + i - 1) % Size # w /\ (r + i - 1) % Size \in Slots
<1>. Dist(r, w) \in Slots
  BY SlotTypes
<1>1. i - 1 \in Nat /\ i - 1 <= Size /\ i - 1 < Dist(r, w)
  BY PipeAssumption DEF Slots
<1>2. (r + (i - 1)) % Size = IF r + (i - 1) < Size THEN r + (i - 1) ELSE r + (i - 1) - Size
  BY <1>1, SlotOf
<1>3. r + (i - 1) = r + i - 1
  BY <1>1
<1>. QED
  BY <1>1, <1>2, <1>3, PipeAssumption DEF Slots, Dist

LEMMA InitIInv == Init => IInv
  BY PipeAssumption DEF Init, IInv, TypeOK, LockInv, ReaderSleep, WriterSleep, HasData,
     Carried, Slots, Cells, None, Places, RPlaces, Dist, RAsleep

LEMMA WCallKeeps ==
  ASSUME IInv, OneWriter, NEW w \in Writers, WCall(w)
  PROVE  IInv'
<1>. USE DEF IInv, WCall, WGoto, ringVars, flagVars, semVars, writerVars, readerVars
<1>1. TypeOK'
  <2>1. (wrp + 1) % Size \in Slots
    BY SuccSlot DEF TypeOK
  <2>. QED
    BY <2>1 DEF TypeOK, Cells, Places
<1>2. OneCall'
  BY DEF OneCall, OneWriter
<1>3. LockInv'
  BY DEF LockInv, WHolds, WFree
<1>4. ReaderSleep'
  BY DEF ReaderSleep
<1>5. WriterSleep'
  BY DEF WriterSleep
<1>6. HasData'
  BY DEF HasData
<1>7. HasRoom'
  BY SuccSlot DEF TypeOK, HasRoom
<1>8. Carried'
  BY DEF TypeOK, Carried, None
<1>. QED
  BY <1>1, <1>2, <1>3, <1>4, <1>5, <1>6, <1>7, <1>8

LEMMA WPeekKeeps ==
  ASSUME IInv, OneWriter, NEW w \in Writers, WPeek(w)
  PROVE  IInv'
<1>. USE DEF IInv, WPeek, WGoto, ringVars, flagVars, semVars, writerVars, readerVars
<1>1. TypeOK'
  BY DEF TypeOK, Places
<1>2. OneCall'
  BY DEF OneCall
<1>3. LockInv'
  BY DEF LockInv, WHolds, WFree
<1>4. ReaderSleep'
  BY DEF ReaderSleep
<1>5. WriterSleep'
  BY DEF WriterSleep
<1>6. HasData'
  BY DEF HasData
<1>7. HasRoom'
  BY PipeAssumption DEF TypeOK, OneCall, HasRoom, Succ, Dist, Slots
<1>8. Carried'
  BY DEF Carried
<1>. QED
  BY <1>1, <1>2, <1>3, <1>4, <1>5, <1>6, <1>7, <1>8

LEMMA WLockKeeps ==
  ASSUME IInv, OneWriter, NEW w \in Writers, WLock(w)
  PROVE  IInv'
<1>. USE DEF IInv, WLock, WGoto, ringVars, flagVars, semVars, writerVars, readerVars
<1>1. TypeOK'
  <2>1. lock' \in {0, 1}
    BY DEF TypeOK
  <2>. QED
    BY <2>1 DEF TypeOK, Places
<1>2. OneCall'
  BY DEF OneCall
<1>3. LockInv'
  BY DEF TypeOK, LockInv, WFree
<1>4. ReaderSleep'
  BY DEF ReaderSleep
<1>5. WriterSleep'
  BY DEF WriterSleep
<1>6. HasData'
  BY DEF HasData
<1>7. HasRoom'
  BY DEF HasRoom
<1>8. Carried'
  BY DEF Carried
<1>. QED
  BY <1>1, <1>2, <1>3, <1>4, <1>5, <1>6, <1>7, <1>8

LEMMA WFullKeeps ==
  ASSUME IInv, OneWriter, NEW w \in Writers, WFull(w)
  PROVE  IInv'
<1>. USE DEF IInv, WFull, WGoto, ringVars, flagVars, semVars, writerVars, readerVars
<1>1. TypeOK'
  BY DEF TypeOK, Places
<1>2. OneCall'
  BY DEF OneCall
<1>3. LockInv'
  BY DEF LockInv, WHolds, WFree
<1>4. ReaderSleep'
  BY DEF LockInv, ReaderSleep, WHolds
<1>5. WriterSleep'
  BY DEF WriterSleep
<1>6. HasData'
  BY DEF HasData
<1>7. HasRoom'
  BY DEF HasRoom
<1>8. Carried'
  BY DEF Carried
<1>. QED
  BY <1>1, <1>2, <1>3, <1>4, <1>5, <1>6, <1>7, <1>8

LEMMA WSetWaitingKeeps ==
  ASSUME IInv, OneWriter, NEW w \in Writers, WSetWaiting(w)
  PROVE  IInv'
<1>. USE DEF IInv, WSetWaiting, WGoto, ringVars, flagVars, semVars, writerVars, readerVars
<1>1. TypeOK'
  BY DEF TypeOK, Places
<1>2. OneCall'
  BY DEF OneCall
<1>3. LockInv'
  BY DEF LockInv, WHolds, WFree
<1>4. ReaderSleep'
  BY DEF ReaderSleep
<1>5. WriterSleep'
  BY DEF TypeOK, OneCall, WriterSleep
<1>6. HasData'
  BY DEF HasData
<1>7. HasRoom'
  BY DEF HasRoom
<1>8. Carried'
  BY DEF Carried
<1>. QED
  BY <1>1, <1>2, <1>3, <1>4, <1>5, <1>6, <1>7, <1>8

LEMMA WReleaseKeeps ==
  ASSUME IInv, OneWriter, NEW w \in Writers, WRelease(w)
  PROVE  IInv'
<1>. USE DEF IInv, WRelease, WGoto, ringVars, flagVars, semVars, writerVars, readerVars
<1>1. TypeOK'
  <2>1. lock' \in {0, 1}
    BY DEF LockInv, WHolds
  <2>. QED
    BY <2>1 DEF TypeOK, Places
<1>2. OneCall'
  BY DEF OneCall
<1>3. LockInv'
  BY DEF TypeOK, OneCall, LockInv, WHolds, WFree
<1>4. ReaderSleep'
  BY DEF ReaderSleep
<1>5. WriterSleep'
  BY DEF WriterSleep
<1>6. HasData'
  BY DEF HasData
<1>7. HasRoom'
  BY DEF HasRoom
<1>8. Carried'
  BY DEF Carried
<1>. QED
  BY <1>1, <1>2, <1>3, <1>4, <1>5, <1>6, <1>7, <1>8

LEMMA WWaitKeeps ==
  ASSUME IInv, OneWriter, NEW w \in Writers, WWait(w)
  PROVE  IInv'
<1>. USE DEF IInv, WWait, WGoto, ringVars, flagVars, semVars, writerVars, readerVars
<1>1. TypeOK'
  <2>1. writer_wait' \in {0, 1}
    BY DEF TypeOK
  <2>. QED
    BY <2>1 DEF TypeOK, Places
<1>2. OneCall'
  BY DEF OneCall
<1>3. LockInv'
  BY DEF LockInv, WHolds, WFree
<1>4. ReaderSleep'
  BY DEF ReaderSleep
<1>5. WriterSleep'
  BY DEF TypeOK, WriterSleep
<1>6. HasData'
  BY DEF HasData
<1>7. HasRoom'
  BY PipeAssumption DEF WriterSleep, HasRoom
<1>8. Carried'
  BY DEF Carried
<1>. QED
  BY <1>1, <1>2, <1>3, <1>4, <1>5, <1>6, <1>7, <1>8

LEMMA WRelockKeeps ==
  ASSUME IInv, OneWriter, NEW w \in Writers, WRelock(w)
  PROVE  IInv'
<1>. USE DEF IInv, WRelock, WGoto, ringVars, flagVars, semVars, writerVars, readerVars
<1>1. TypeOK'
  <2>1. lock' \in {0, 1}
    BY DEF TypeOK
  <2>. QED
    BY <2>1 DEF TypeOK, Places
<1>2. OneCall'
  BY DEF OneCall
<1>3. LockInv'
  BY DEF TypeOK, LockInv, WFree
<1>4. ReaderSleep'
  BY DEF TypeOK, ReaderSleep
<1>5. WriterSleep'
  BY DEF WriterSleep
<1>6. HasData'
  BY DEF HasData
<1>7. HasRoom'
  BY DEF HasRoom
<1>8. Carried'
  BY DEF Carried
<1>. QED
  BY <1>1, <1>2, <1>3, <1>4, <1>5, <1>6, <1>7, <1>8

LEMMA WStoreKeeps ==
  ASSUME IInv, OneWriter, NEW w \in Writers, WStore(w)
  PROVE  IInv'
<1>. USE DEF IInv, WStore, WGoto, ringVars, flagVars, semVars, writerVars, readerVars
<1>1. TypeOK'
  BY DEF TypeOK, Places
<1>2. OneCall'
  BY DEF OneCall
<1>3. LockInv'
  BY DEF LockInv, WHolds, WFree
<1>4. ReaderSleep'
  BY DEF ReaderSleep
<1>5. WriterSleep'
  BY DEF WriterSleep
<1>6. HasData'
  BY DEF HasData
<1>7. HasRoom'
  BY DEF HasRoom
<1>8. Carried'
  BY DEF TypeOK, OneCall, Carried, LockInv, ReaderSleep, RHolds, RAsleep
<1>. QED
  BY <1>1, <1>2, <1>3, <1>4, <1>5, <1>6, <1>7, <1>8

LEMMA WAdvanceKeeps ==
  ASSUME IInv, OneWriter, NEW w \in Writers, WAdvance(w)
  PROVE  IInv'
<1>. USE DEF IInv, WAdvance, WGoto, ringVars, flagVars, semVars, writerVars, readerVars
<1>1. TypeOK'
  BY DEF TypeOK, Places
<1>2. OneCall'
  BY DEF OneCall
<1>3. LockInv'
  BY DEF LockInv, WHolds, WFree
<1>4. ReaderSleep'
  BY DEF ReaderSleep
<1>5. WriterSleep'
  BY DEF WriterSleep
<1>6. HasData'
  BY DEF LockInv, ReaderSleep, HasData, HasRoom, RHolds, RAsleep
<1>7. HasRoom'
  BY DEF TypeOK, OneCall, LockInv, ReaderSleep, HasRoom, RHolds, RAsleep
<1>8. Carried'
  <2>1. wrp' = Succ(wrp) /\ Succ(wrp) # rdp /\ rdp \in Slots /\ wrp \in Slots
    BY DEF TypeOK, HasRoom
  <2>2. Dist(rdp', wrp') = Dist(rdp, wrp) + 1 /\ Dist(rdp, wrp) \in Slots
    BY <2>1, DistSucc
  <2>3. data[wrp] # None
    BY DEF Carried
  <2>4. ASSUME NEW i \in 1 .. Dist(rdp', wrp')
        PROVE  data[(rdp + i - 1) % Size] # None
    <3>1. CASE i \in 1 .. Dist(rdp, wrp)
      BY <3>1 DEF Carried
    <3>2. CASE i = Dist(rdp, wrp) + 1
      <4>1. rdp + i - 1 = rdp + Dist(rdp, wrp)
        BY <2>1, <2>2, <3>2 DEF Slots
      <4>. QED
        BY <2>1, <2>3, <4>1, SlotEnd
    <3>. QED
      BY <2>2, <3>1, <3>2 DEF Slots
  <2>5. wpc' = [wpc EXCEPT ![w] = "wake"] /\ UNCHANGED <<data, rdp, wdata, rpc, rval>>
    OBVIOUS
  <2>6. wpc \in [Writers -> Places] /\ wpc[w] = "advance"
    BY DEF TypeOK
  <2>. QED
    BY <2>4, <2>5, <2>6 DEF Carried, OneCall
<1>. QED
  BY <1>1, <1>2, <1>3, <1>4, <1>5, <1>6, <1>7, <1>8

LEMMA WWakeKeeps ==
  ASSUME IInv, OneWriter, NEW w \in Writers, WWake(w)
  PROVE  IInv'
<1>. USE DEF IInv, WWake, WGoto, ringVars, flagVars, semVars, writerVars, readerVars
<1>1. TypeOK'
  BY DEF TypeOK, Places
<1>2. OneCall'
  BY DEF OneCall
<1>3. LockInv'
  BY DEF LockInv, WHolds, WFree
<1>4. ReaderSleep'
  BY DEF ReaderSleep
<1>5. WriterSleep'
  BY DEF WriterSleep
<1>6. HasData'
  BY DEF HasData
<1>7. HasRoom'
  <2>1. Used = Dist(rdp, wrp)
    BY UsedDist DEF TypeOK, Used
  <2>2. wpc'[w] = "leave" => ~reader_waiting \/ Dist(rdp, wrp) < Chunks
    <3>1. Dist(rdp, wrp) \in Slots
      BY SlotTypes DEF TypeOK
    <3>. QED
      BY <2>1, <3>1, PipeAssumption DEF Slots
  <2>. QED
    BY <2>2 DEF HasRoom
<1>8. Carried'
  BY DEF Carried
<1>. QED
  BY <1>1, <1>2, <1>3, <1>4, <1>5, <1>6, <1>7, <1>8

LEMMA WClearKeeps ==
  ASSUME IInv, OneWriter, NEW w \in Writers, WClear(w)
  PROVE  IInv'
<1>. USE DEF IInv, WClear, WGoto, ringVars, flagVars, semVars, writerVars, readerVars
<1>1. TypeOK'
  BY DEF TypeOK, Places
<1>2. OneCall'
  BY DEF OneCall
<1>3. LockInv'
  BY DEF LockInv, WHolds, WFree
<1>4. ReaderSleep'
  BY DEF TypeOK, OneCall, ReaderSleep
<1>5. WriterSleep'
  BY DEF WriterSleep
<1>6. HasData'
  BY DEF HasData
<1>7. HasRoom'
  BY DEF HasRoom
<1>8. Carried'
  BY DEF Carried
<1>. QED
  BY <1>1, <1>2, <1>3, <1>4, <1>5, <1>6, <1>7, <1>8

LEMMA WPostKeeps ==
  ASSUME IInv, OneWriter, NEW w \in Writers, WPost(w)
  PROVE  IInv'
<1>. USE DEF IInv, WPost, WGoto, ringVars, flagVars, semVars, writerVars, readerVars
<1>1. TypeOK'
  <2>1. reader_wait' \in {0, 1}
    BY DEF ReaderSleep
  <2>. QED
    BY <2>1 DEF TypeOK, Places
<1>2. OneCall'
  BY DEF OneCall
<1>3. LockInv'
  BY DEF LockInv, WHolds, WFree
<1>4. ReaderSleep'
  BY DEF TypeOK, OneCall, ReaderSleep
<1>5. WriterSleep'
  BY DEF WriterSleep
<1>6. HasData'
  BY DEF HasData
<1>7. HasRoom'
  BY DEF HasRoom
<1>8. Carried'
  BY DEF Carried
<1>. QED
  BY <1>1, <1>2, <1>3, <1>4, <1>5, <1>6, <1>7, <1>8

LEMMA WLeaveKeeps ==
  ASSUME IInv, OneWriter, NEW w \in Writers, WLeave(w)
  PROVE  IInv'
<1>. USE DEF IInv, WLeave, WGoto, ringVars, flagVars, semVars, writerVars, readerVars
<1>1. TypeOK'
  <2>1. lock' \in {0, 1}
    BY DEF TypeOK, LockInv
  <2>. QED
    BY <2>1 DEF TypeOK, Cells, Places
<1>2. OneCall'
  BY DEF OneCall
<1>3. LockInv'
  BY DEF TypeOK, OneCall, LockInv, WHolds, WFree
<1>4. ReaderSleep'
  BY DEF ReaderSleep
<1>5. WriterSleep'
  BY DEF WriterSleep
<1>6. HasData'
  BY DEF HasData
<1>7. HasRoom'
  BY DEF HasRoom
<1>8. Carried'
  BY DEF TypeOK, Carried
<1>. QED
  BY <1>1, <1>2, <1>3, <1>4, <1>5, <1>6, <1>7, <1>8

LEMMA RLockKeeps ==
  ASSUME IInv, OneWriter, RLock
  PROVE  IInv'
<1>. USE DEF IInv, RLock, RGoto, ringVars, flagVars, semVars, writerVars, readerVars
<1>1. TypeOK'
  <2>1. lock' \in {0, 1}
    BY DEF TypeOK
  <2>. QED
    BY <2>1 DEF TypeOK, RPlaces
<1>2. OneCall'
  BY DEF OneCall
<1>3. LockInv'
  BY DEF TypeOK, LockInv
<1>4. ReaderSleep'
  BY DEF ReaderSleep, RAsleep
<1>5. WriterSleep'
  BY DEF WriterSleep
<1>6. HasData'
  BY DEF HasData, RAsleep
<1>7. HasRoom'
  BY DEF HasRoom
<1>8. Carried'
  BY DEF Carried
<1>. QED
  BY <1>1, <1>2, <1>3, <1>4, <1>5, <1>6, <1>7, <1>8

LEMMA REmptyKeeps ==
  ASSUME IInv, OneWriter, REmpty
  PROVE  IInv'
<1>. USE DEF IInv, REmpty, RGoto, ringVars, flagVars, semVars, writerVars, readerVars
<1>1. TypeOK'
  BY DEF TypeOK, RPlaces
<1>2. OneCall'
  BY DEF OneCall
<1>3. LockInv'
  BY DEF LockInv, RHolds
<1>4. ReaderSleep'
  BY DEF ReaderSleep, RAsleep
<1>5. WriterSleep'
  BY DEF WriterSleep
<1>6. HasData'
  BY DEF HasData, RAsleep
<1>7. HasRoom'
  BY DEF HasRoom
<1>8. Carried'
  BY DEF Carried
<1>. QED
  BY <1>1, <1>2, <1>3, <1>4, <1>5, <1>6, <1>7, <1>8

LEMMA RSetWaitingKeeps ==
  ASSUME IInv, OneWriter, RSetWaiting
  PROVE  IInv'
<1>. USE DEF IInv, RSetWaiting, RGoto, ringVars, flagVars, semVars, writerVars, readerVars
<1>1. TypeOK'
  BY DEF TypeOK, RPlaces
<1>2. OneCall'
  BY DEF OneCall
<1>3. LockInv'
  BY DEF LockInv, RHolds
<1>4. ReaderSleep'
  BY DEF TypeOK, ReaderSleep, RAsleep
<1>5. WriterSleep'
  BY DEF WriterSleep
<1>6. HasData'
  BY DEF HasData
<1>7. HasRoom'
  BY PipeAssumption DEF TypeOK, HasData, HasRoom, Dist, Slots
<1>8. Carried'
  BY DEF Carried
<1>. QED
  BY <1>1, <1>2, <1>3, <1>4, <1>5, <1>6, <1>7, <1>8

LEMMA RReleaseKeeps ==
  ASSUME IInv, OneWriter, RRelease
  PROVE  IInv'
<1>. USE DEF IInv, RRelease, RGoto, ringVars, flagVars, semVars, writerVars, readerVars
<1>1. TypeOK'
  <2>1. lock' \in {0, 1}
    BY DEF LockInv, RHolds
  <2>. QED
    BY <2>1 DEF TypeOK, RPlaces
<1>2. OneCall'
  BY DEF OneCall
<1>3. LockInv'
  BY DEF LockInv, RHolds
<1>4. ReaderSleep'
  BY DEF ReaderSleep, RAsleep
<1>5. WriterSleep'
  BY DEF WriterSleep
<1>6. HasData'
  BY DEF HasData, RAsleep
<1>7. HasRoom'
  BY DEF HasRoom
<1>8. Carried'
  BY DEF Carried
<1>. QED
  BY <1>1, <1>2, <1>3, <1>4, <1>5, <1>6, <1>7, <1>8

LEMMA RWaitKeeps ==
  ASSUME IInv, OneWriter, RWait
  PROVE  IInv'
<1>. USE DEF IInv, RWait, RGoto, ringVars, flagVars, semVars, writerVars, readerVars
<1>1. TypeOK'
  <2>1. reader_wait' \in {0, 1}
    BY DEF TypeOK
  <2>. QED
    BY <2>1 DEF TypeOK, RPlaces
<1>2. OneCall'
  BY DEF OneCall
<1>3. LockInv'
  BY DEF LockInv, RHolds
<1>4. ReaderSleep'
  BY DEF TypeOK, ReaderSleep
<1>5. WriterSleep'
  BY DEF WriterSleep
<1>6. HasData'
  BY DEF ReaderSleep, HasData, RAsleep
<1>7. HasRoom'
  BY DEF HasRoom
<1>8. Carried'
  BY DEF Carried
<1>. QED
  BY <1>1, <1>2, <1>3, <1>4, <1>5, <1>6, <1>7, <1>8

LEMMA RRelockKeeps ==
  ASSUME IInv, OneWriter, RRelock
  PROVE  IInv'
<1>. USE DEF IInv, RRelock, RGoto, ringVars, flagVars, semVars, writerVars, readerVars
<1>1. TypeOK'
  <2>1. lock' \in {0, 1}
    BY DEF TypeOK
  <2>. QED
    BY <2>1 DEF TypeOK, RPlaces
<1>2. OneCall'
  BY DEF OneCall
<1>3. LockInv'
  BY DEF TypeOK, LockInv
<1>4. ReaderSleep'
  BY DEF ReaderSleep, RAsleep
<1>5. WriterSleep'
  BY DEF WriterSleep
<1>6. HasData'
  BY DEF HasData
<1>7. HasRoom'
  BY DEF HasRoom
<1>8. Carried'
  BY DEF Carried
<1>. QED
  BY <1>1, <1>2, <1>3, <1>4, <1>5, <1>6, <1>7, <1>8

LEMMA RTakeKeeps ==
  ASSUME IInv, OneWriter, RTake
  PROVE  IInv'
<1>. USE DEF IInv, RTake, RGoto, ringVars, flagVars, semVars, writerVars, readerVars
<1>1. TypeOK'
  BY DEF TypeOK, RPlaces
<1>2. OneCall'
  BY DEF OneCall
<1>3. LockInv'
  BY DEF LockInv, RHolds
<1>4. ReaderSleep'
  BY DEF ReaderSleep, RAsleep
<1>5. WriterSleep'
  BY DEF WriterSleep
<1>6. HasData'
  BY DEF HasData
<1>7. HasRoom'
  BY DEF HasRoom
<1>8. Carried'
  BY DEF Carried
<1>. QED
  BY <1>1, <1>2, <1>3, <1>4, <1>5, <1>6, <1>7, <1>8

LEMMA RAdvanceKeeps ==
  ASSUME IInv, OneWriter, RAdvance
  PROVE  IInv'
<1>. USE DEF IInv, RAdvance, RGoto, ringVars, flagVars, semVars, writerVars, readerVars
<1>1. TypeOK'
  BY SuccSlot DEF TypeOK, RPlaces
<1>2. OneCall'
  BY DEF OneCall
<1>3. LockInv'
  BY DEF LockInv, RHolds
<1>4. ReaderSleep'
  BY DEF ReaderSleep, RAsleep
<1>5. WriterSleep'
  BY DEF WriterSleep
<1>6. HasData'
  BY DEF LockInv, ReaderSleep, HasData, RHolds, RAsleep
<1>7. HasRoom'
  BY PipeAssumption DEF TypeOK, OneCall, ReaderSleep, HasData, HasRoom, RAsleep, Succ,
     Dist, Slots
<1>8. Carried'
  <2>1. rdp' = Succ(rdp) /\ rdp # wrp /\ rdp \in Slots /\ wrp \in Slots
    BY SuccSlot DEF TypeOK, HasData
  <2>2. Dist(rdp', wrp') = Dist(rdp, wrp) - 1 /\ Dist(rdp, wrp) \in Slots
    BY <2>1, DistSucc
  <2>3. ASSUME NEW i \in 1 .. Dist(rdp', wrp')
        PROVE  data[(rdp' + i - 1) % Size] # None
    <3>1. i + 1 \in 1 .. Dist(rdp, wrp) /\ i - 1 \in Nat /\ i - 1 < Size
      BY <2>2, PipeAssumption DEF Slots
    <3>2. (Succ(rdp) + (i - 1)) % Size = (rdp + ((i - 1) + 1)) % Size
      BY <2>1, <3>1, SlotShift
    <3>3. /\ Succ(rdp) + (i - 1) = rdp' + i - 1
          /\ rdp + ((i - 1) + 1) = rdp + (i + 1) - 1
      BY <2>1
    <3>. QED
      BY <3>1, <3>2, <3>3 DEF Carried
  <2>. QED
    BY <2>3 DEF Carried
<1>. QED
  BY <1>1, <1>2, <1>3, <1>4, <1>5, <1>6, <1>7, <1>8

LEMMA RWakeKeeps ==
  ASSUME IInv, OneWriter, RWake
  PROVE  IInv'
<1>. USE DEF IInv, RWake, RGoto, ringVars, flagVars, semVars, writerVars, readerVars
<1>1. TypeOK'
  BY DEF TypeOK, RPlaces
<1>2. OneCall'
  BY DEF OneCall
<1>3. LockInv'
  BY DEF LockInv, RHolds
<1>4. ReaderSleep'
  BY DEF ReaderSleep, RAsleep
<1>5. WriterSleep'
  BY DEF WriterSleep
<1>6. HasData'
  BY DEF HasData, RAsleep
<1>7. HasRoom'
  BY DEF HasRoom
<1>8. Carried'
  BY DEF Carried
<1>. QED
  BY <1>1, <1>2, <1>3, <1>4, <1>5, <1>6, <1>7, <1>8

LEMMA RClearKeeps ==
  ASSUME IInv, OneWriter, RClear
  PROVE  IInv'
<1>. USE DEF IInv, RClear, RGoto, ringVars, flagVars, semVars, writerVars, readerVars
<1>1. TypeOK'
  BY DEF TypeOK, RPlaces
<1>2. OneCall'
  BY DEF OneCall
<1>3. LockInv'
  BY DEF LockInv, RHolds
<1>4. ReaderSleep'
  BY DEF ReaderSleep, RAsleep
<1>5. WriterSleep'
  BY DEF WriterSleep
<1>6. HasData'
  BY DEF HasData, RAsleep
<1>7. HasRoom'
  BY DEF HasRoom
<1>8. Carried'
  BY DEF Carried
<1>. QED
  BY <1>1, <1>2, <1>3, <1>4, <1>5, <1>6, <1>7, <1>8

LEMMA RPostKeeps ==
  ASSUME IInv, OneWriter, RPost
  PROVE  IInv'
<1>. USE DEF IInv, RPost, RGoto, ringVars, flagVars, semVars, writerVars, readerVars
<1>1. TypeOK'
  <2>1. writer_wait' \in {0, 1}
    BY DEF WriterSleep
  <2>. QED
    BY <2>1 DEF TypeOK, RPlaces
<1>2. OneCall'
  BY DEF OneCall
<1>3. LockInv'
  BY DEF LockInv, RHolds
<1>4. ReaderSleep'
  BY DEF ReaderSleep, RAsleep
<1>5. WriterSleep'
  BY DEF WriterSleep
<1>6. HasData'
  BY DEF HasData, RAsleep
<1>7. HasRoom'
  BY DEF HasRoom
<1>8. Carried'
  BY DEF Carried
<1>. QED
  BY <1>1, <1>2, <1>3, <1>4, <1>5, <1>6, <1>7, <1>8

LEMMA RLeaveKeeps ==
  ASSUME IInv, OneWriter, RLeave
  PROVE  IInv'
<1>. USE DEF IInv, RLeave, RGoto, ringVars, flagVars, semVars, writerVars, readerVars
<1>1. TypeOK'
  <2>1. lock' \in {0, 1}
    BY DEF LockInv, RHolds
  <2>. QED
    BY <2>1 DEF TypeOK, Cells, RPlaces
<1>2. OneCall'
  BY DEF OneCall
<1>3. LockInv'
  BY DEF LockInv, RHolds
<1>4. ReaderSleep'
  BY DEF ReaderSleep, RAsleep
<1>5. WriterSleep'
  BY DEF WriterSleep
<1>6. HasData'
  BY DEF HasData, RAsleep
<1>7. HasRoom'
  BY DEF HasRoom
<1>8. Carried'
  BY DEF Carried
<1>. QED
  BY <1>1, <1>2, <1>3, <1>4, <1>5, <1>6, <1>7, <1>8

LEMMA NextKeepsIInv ==
  ASSUME IInv, OneWriter, [Next]_vars
  PROVE  IInv'
<1>1. CASE UNCHANGED vars
  BY <1>1 DEF IInv, TypeOK, OneCall, LockInv, ReaderSleep, WriterSleep, HasData,
     HasRoom, Carried, vars, ringVars, flagVars, semVars, writerVars, readerVars
<1>2. CASE Read
  BY <1>2, RLockKeeps, REmptyKeeps, RSetWaitingKeeps, RReleaseKeeps, RWaitKeeps,
     RRelockKeeps, RTakeKeeps, RAdvanceKeeps, RWakeKeeps, RClearKeeps, RPostKeeps,
     RLeaveKeeps DEF Read
<1>3. ASSUME NEW w \in Writers, WCall(w) \/ WStep(w)
      PROVE  IInv'
  BY <1>3, WCallKeeps, WPeekKeeps, WLockKeeps, WFullKeeps, WSetWaitingKeeps,
     WReleaseKeeps, WWaitKeeps, WRelockKeeps, WStoreKeeps, WAdvanceKeeps, WWakeKeeps,
     WClearKeeps, WPostKeeps, WLeaveKeeps DEF WStep
<1>. QED
  BY <1>1, <1>2, <1>3 DEF Next

(* The invariant holds of every run of one writer at a time and the reader.  *)
THEOREM PipeInvariant ==
  ASSUME OneWriter
  PROVE  Spec => []IInv
<1>1. IInv /\ [Next]_vars => IInv'
  BY NextKeepsIInv
<1>. QED
  BY <1>1, InitIInv, PTL DEF Spec

(* Every variable of the pipe keeps its type; in particular each semaphore   *)
(* of commpipe.h stays binary.                                               *)
THEOREM PipeTypes ==
  ASSUME OneWriter
  PROVE  Spec => []TypeOK
<1>1. IInv => TypeOK
  BY DEF IInv
<1>. QED
  BY <1>1, PipeInvariant, PTL

(* The lock-free fast path of write_comm_pipe_pt never meets a reader inside *)
(* read_comm_pipe_pt_blocking's critical section.                            *)
THEOREM PipeExclusion ==
  ASSUME OneWriter
  PROVE  Spec => []RingExclusion
<1>1. IInv => RingExclusion
  BY DEF IInv, LockInv, ReaderSleep, RingExclusion, WCritical, RCritical, WHolds,
     RHolds, RAsleep
<1>. QED
  BY <1>1, PipeInvariant, PTL

-----------------------------------------------------------------------------
(* Why the reader cannot be forgotten.  While it is asleep the wake-up is in  *)
(* the flag, in the hands of a writer or in the semaphore, and as long as it *)
(* is in the flag every item it has not been woken for may wait, except the  *)
(* one whose writer is just about to decide.                                 *)
CellAt(i) == data[(rdp + i - 1) % Size]
Decides(w, i) == wpc[w] = "clear" \/ (wpc[w] = "wake" /\ CellAt(i) = wdata[w])
MayWait(i) == ~CellAt(i)[1].no_buffer \/ \E w \in Writers : Decides(w, i)
WakeInv ==
  /\ rpc \in RAsleep => reader_waiting \/ reader_wait = 1 \/ \E w \in Writers : wpc[w] = "post"
  /\ reader_waiting => \A i \in 1 .. Dist(rdp, wrp) : MayWait(i)

\* A step that leaves the ring, the flag and the writers that decide alone.
LEMMA MayWaitSame ==
  ASSUME WakeInv, UNCHANGED <<data, rdp, wrp, reader_waiting, wdata>>,
         \A w \in Writers : wpc[w] \in {"wake", "clear"} => wpc'[w] = wpc[w]
  PROVE  reader_waiting' => \A i \in 1 .. Dist(rdp', wrp') : MayWait(i)'
  BY DEF WakeInv, MayWait, Decides, CellAt

LEMMA WakeKeeps ==
  ASSUME IInv, WakeInv, OneWriter, [Next]_vars
  PROVE  WakeInv'
<1> DEFINE Asleep == rpc \in RAsleep => \/ reader_waiting \/ reader_wait = 1
                                         \/ \E w \in Writers : wpc[w] = "post"
           Waiting == reader_waiting => \A i \in 1 .. Dist(rdp, wrp) : MayWait(i)
<1> USE DEF WGoto, RGoto, ringVars, flagVars, semVars, writerVars, readerVars
<1>0. TypeOK /\ wpc \in [Writers -> Places] /\ wdata \in [Writers -> Cells]
  BY DEF IInv, TypeOK
<1>1. ASSUME NEW w \in Writers, WAdvance(w) PROVE WakeInv'
  <2>1. Asleep'
    BY <1>0, <1>1 DEF WakeInv, WAdvance
  <2>2. ASSUME reader_waiting, NEW i \in 1 .. Dist(rdp', wrp') PROVE MayWait(i)'
    <3>1. wrp' = Succ(wrp) /\ Succ(wrp) # rdp /\ rdp \in Slots /\ wrp \in Slots
      BY <1>0, <1>1 DEF IInv, TypeOK, HasRoom, WAdvance
    <3>2. Dist(rdp', wrp') = Dist(rdp, wrp) + 1 /\ Dist(rdp, wrp) \in Slots
      BY <1>1, <3>1, DistSucc DEF WAdvance
    <3>3. wpc'[w] = "wake" /\ CellAt(i)' = CellAt(i) /\ wdata' = wdata
      BY <1>0, <1>1 DEF WAdvance, CellAt
    <3>4. CASE i \in 1 .. Dist(rdp, wrp)
      <4>1. \A v \in Writers : ~Decides(v, i)
        BY <1>1 DEF IInv, OneCall, WAdvance, Decides
      <4> QED BY <2>2, <3>3, <3>4, <4>1 DEF WakeInv, MayWait
    <3>5. CASE i = Dist(rdp, wrp) + 1
      <4>1. rdp + i - 1 = rdp + Dist(rdp, wrp)
        BY <3>1, <3>2, <3>5 DEF Slots
      <4>2. CellAt(i) = wdata[w]
        BY <1>1, <3>1, <4>1, SlotEnd DEF IInv, Carried, WAdvance, CellAt
      <4> QED BY <3>3, <4>2 DEF MayWait, Decides
    <3> QED BY <3>2, <3>4, <3>5 DEF Slots
  <2>3. reader_waiting' = reader_waiting
    BY <1>1 DEF WAdvance
  <2> QED BY <2>1, <2>2, <2>3 DEF WakeInv
<1>2. ASSUME NEW w \in Writers, WWake(w) PROVE WakeInv'
  <2>1. Asleep'
    BY <1>0, <1>2 DEF WakeInv, WWake
  <2>2. ASSUME reader_waiting, NEW i \in 1 .. Dist(rdp, wrp) PROVE MayWait(i)'
    <3>1. CASE wpc'[w] = "clear"
      BY <3>1 DEF MayWait, Decides
    <3>2. CASE wpc'[w] # "clear"
      <4>1. ~wdata[w][1].no_buffer
        BY <1>0, <1>2, <2>2, <3>2 DEF WWake
      <4>2. \A v \in Writers : Decides(v, i) => CellAt(i) = wdata[w]
        BY <1>2 DEF IInv, OneCall, WWake, Decides
      <4>3. ~CellAt(i)[1].no_buffer
        BY <2>2, <4>1, <4>2 DEF WakeInv, MayWait
      <4> QED BY <1>2, <4>3 DEF MayWait, CellAt, WWake
    <3> QED BY <3>1, <3>2
  <2>3. reader_waiting' = reader_waiting /\ rdp' = rdp /\ wrp' = wrp
    BY <1>2 DEF WWake
  <2> QED BY <2>1, <2>2, <2>3 DEF WakeInv
<1>3. ASSUME NEW w \in Writers, WClear(w) PROVE WakeInv'
  BY <1>0, <1>3 DEF WakeInv, WClear
<1>4. ASSUME NEW w \in Writers, WPost(w) PROVE WakeInv'
  <2>1. reader_wait' = 1 /\ ~reader_waiting'
    BY <1>4 DEF IInv, ReaderSleep, WPost
  <2> QED BY <2>1 DEF WakeInv
<1>5. ASSUME NEW w \in Writers, WStore(w) PROVE WakeInv'
  <2>1. Asleep'
    BY <1>0, <1>5 DEF WakeInv, WStore
  <2>2. ASSUME reader_waiting, NEW i \in 1 .. Dist(rdp, wrp) PROVE MayWait(i)'
    <3>1. \A v \in Writers : ~Decides(v, i)
      BY <1>5 DEF IInv, OneCall, WStore, Decides
    <3>2. data \in [Slots -> Cells] /\ rdp \in Slots /\ wrp \in Slots
      BY <1>0 DEF TypeOK
    <3>3. (rdp + i - 1) % Size # wrp
      BY <3>2, SlotBefore
    <3>4. CellAt(i)' = CellAt(i)
      BY <1>5, <3>2, <3>3 DEF WStore, CellAt
    <3> QED BY <2>2, <3>1, <3>4 DEF WakeInv, MayWait
  <2>3. reader_waiting' = reader_waiting /\ rdp' = rdp /\ wrp' = wrp
    BY <1>5 DEF WStore
  <2> QED BY <2>1, <2>2, <2>3 DEF WakeInv
<1>6. CASE RSetWaiting
  <2>1. rdp = wrp /\ wrp \in Int /\ rdp' = rdp /\ wrp' = wrp
    BY <1>0, <1>6, PipeAssumption DEF IInv, HasData, TypeOK, RSetWaiting, Slots
  <2>2. Dist(rdp, wrp) = 0
    BY <2>1 DEF Dist
  <2> QED BY <1>6, <2>1, <2>2 DEF WakeInv, RSetWaiting
<1>7. CASE RWait
  BY <1>7 DEF IInv, ReaderSleep, WakeInv, RWait, RAsleep
<1>8. CASE RAdvance
  BY <1>8 DEF IInv, ReaderSleep, WakeInv, RAdvance, RAsleep
<1>9. ASSUME NEW w \in Writers,
             \/ WCall(w) \/ WPeek(w) \/ WLock(w) \/ WFull(w) \/ WSetWaiting(w) \/ WRelease(w)
             \/ WWait(w) \/ WRelock(w) \/ WLeave(w)
      PROVE  WakeInv'
  <2>1. Asleep'
    BY <1>0, <1>9 DEF WakeInv, WCall, WPeek, WLock, WFull, WSetWaiting, WRelease, WWait, WRelock,
       WLeave
  <2>2. \A v \in Writers : wpc[v] \in {"wake", "clear"}
          => v # w /\ wpc'[v] = wpc[v] /\ wdata'[v] = wdata[v]
    BY <1>0, <1>9 DEF WCall, WPeek, WLock, WFull, WSetWaiting, WRelease, WWait, WRelock, WLeave
  <2>3. UNCHANGED <<data, rdp, wrp, reader_waiting>>
    BY <1>9 DEF WCall, WPeek, WLock, WFull, WSetWaiting, WRelease, WWait, WRelock, WLeave
  <2>4. \A i \in 1 .. Dist(rdp, wrp) : MayWait(i) => MayWait(i)'
    BY <2>2, <2>3 DEF MayWait, Decides, CellAt
  <2> QED BY <2>1, <2>3, <2>4 DEF WakeInv
<1>10. CASE RLock \/ REmpty \/ RRelease \/ RRelock \/ RTake \/ RWake \/ RClear \/ RPost \/ RLeave
  <2>1. Asleep'
    BY <1>10 DEF WakeInv, RLock, REmpty, RRelease, RRelock, RTake, RWake, RClear, RPost, RLeave,
       RAsleep
  <2>2. UNCHANGED <<data, rdp, wrp, reader_waiting, wdata, wpc>>
    BY <1>10 DEF RLock, REmpty, RRelease, RRelock, RTake, RWake, RClear, RPost, RLeave
  <2>3. Waiting'
    BY <2>2, MayWaitSame
  <2> QED BY <2>1, <2>3 DEF WakeInv
<1>11. CASE UNCHANGED vars
  BY <1>11 DEF vars, WakeInv, MayWait, Decides, CellAt
<1> QED
  BY <1>1, <1>2, <1>3, <1>4, <1>5, <1>6, <1>7, <1>8, <1>9, <1>10, <1>11 DEF Next, WStep, Read

(* A reader that sleeps with every writer back in its own code has been      *)
(* forgotten by nobody: nothing in the pipe was written with no_buffer and   *)
(* there is less than a chunk, for every size and chunk size.                *)
THEOREM NobodyStrandsReader ==
  ASSUME OneWriter
  PROVE  Spec => []NoStrandedReader
<1>1. Init => WakeInv
  BY PipeAssumption DEF Init, WakeInv, RAsleep
<1>2. IInv /\ WakeInv => NoStrandedReader
  <2> SUFFICES ASSUME IInv, WakeInv, rpc = "wait", reader_wait = 0,
                      \A w \in Writers : wpc[w] = "idle"
               PROVE  Used < Chunks /\ \A i \in 1 .. Used : ~Pending[i].no_buffer
    BY DEF NoStrandedReader
  <2>1. reader_waiting /\ \A i \in 1 .. Dist(rdp, wrp) : ~CellAt(i)[1].no_buffer
    BY DEF WakeInv, RAsleep, MayWait, Decides
  <2>2. Used = Dist(rdp, wrp)
    BY UsedDist DEF IInv, TypeOK, Used
  <2>3. Dist(rdp, wrp) < Chunks
    BY <2>1 DEF IInv, HasRoom
  <2> QED BY <2>1, <2>2, <2>3 DEF Pending, CellAt
<1>3. IInv /\ WakeInv /\ [Next]_vars => WakeInv'
  BY WakeKeeps
<1> QED BY <1>1, <1>2, <1>3, PipeInvariant, PTL DEF Spec

-----------------------------------------------------------------------------
(* Refinement: what a run of the pipe looks like from outside.               *)

(* The d[(r + i - 1) % Size] from the read index r to the write index w.     *)
Unread(d, r, w) == [i \in 1 .. Dist(r, w) |-> d[(r + i - 1) % Size][1]]
Filled(d, r, w) == \A i \in 1 .. Dist(r, w) : d[(r + i - 1) % Size] # None

(* A slot that is not empty holds an item.                                   *)
LEMMA CellItem ==
  ASSUME NEW c \in Cells, c # None
  PROVE  c[1] \in Items /\ c = <<c[1]>>
  BY DEF Cells

LEMMA UnreadSeq ==
  ASSUME NEW d \in [Slots -> Cells], NEW r \in Slots, NEW w \in Slots, Filled(d, r, w)
  PROVE  /\ Unread(d, r, w) \in Seq(Items)
         /\ Len(Unread(d, r, w)) = Dist(r, w)
         /\ \A i \in 1 .. Dist(r, w) : Unread(d, r, w)[i] = d[(r + i - 1) % Size][1]
<1>1. Dist(r, w) \in Nat
  BY UsedDist DEF Slots
<1>2. ASSUME NEW i \in 1 .. Dist(r, w)
      PROVE  d[(r + i - 1) % Size][1] \in Items
  <2>1. (r + i - 1) % Size \in Slots
    BY <1>1, PipeAssumption DEF Slots
  <2>. QED
    BY <2>1, CellItem DEF Filled
<1>. QED
  BY <1>1, <1>2 DEF Unread

(* A store outside the unread items is not seen.                             *)
LEMMA UnreadStore ==
  ASSUME NEW d \in [Slots -> Cells], NEW r \in Slots, NEW w \in Slots, NEW c
  PROVE  Unread([d EXCEPT ![w] = c], r, w) = Unread(d, r, w)
<1>. Dist(r, w) \in Slots
  BY SlotTypes
<1>1. \A i \in 1 .. Dist(r, w) :
        (r + i - 1) % Size # w /\ (r + i - 1) % Size \in Slots
  BY SlotBefore
<1>. QED
  BY <1>1 DEF Unread

(* Moving the write index on appends the item stored at it.                  *)
LEMMA UnreadAppend ==
  ASSUME NEW d \in [Slots -> Cells], NEW r \in Slots, NEW w \in Slots, Filled(d, r, w),
         Succ(w) # r, d[w] # None
  PROVE  Unread(d, r, Succ(w)) = Append(Unread(d, r, w), d[w][1])
<1>. DEFINE s == Unread(d, r, w)
            t == Unread(d, r, Succ(w))
<1>1. /\ s \in Seq(Items) /\ Len(s) = Dist(r, w) /\ Dist(r, w) \in Nat
      /\ \A i \in 1 .. Dist(r, w) : s[i] = d[(r + i - 1) % Size][1]
  <2>1. Dist(r, w) \in Slots
    BY SlotTypes
  <2>2. Dist(r, w) \in Nat
    BY <2>1 DEF Slots
  <2>. QED
    BY <2>2, UnreadSeq
<1>2. Dist(r, Succ(w)) = Dist(r, w) + 1 /\ Succ(w) \in Slots
  BY DistSucc, SuccSlot
<1>3. r + (Dist(r, w) + 1) - 1 = r + Dist(r, w)
  BY <1>1
<1>4. d[(r + (Dist(r, w) + 1) - 1) % Size] = d[w]
  BY <1>3, SlotEnd
<1>5. Filled(d, r, Succ(w))
  BY <1>1, <1>2, <1>4 DEF Filled
<1>6. /\ t \in Seq(Items) /\ Len(t) = Dist(r, w) + 1
      /\ \A i \in 1 .. Dist(r, w) + 1 : t[i] = d[(r + i - 1) % Size][1]
  BY <1>2, <1>5, UnreadSeq
<1>7. d[w][1] \in Items
  BY CellItem
<1>8. /\ Append(s, d[w][1]) \in Seq(Items)
      /\ Len(Append(s, d[w][1])) = Dist(r, w) + 1
      /\ \A i \in 1 .. Dist(r, w) : Append(s, d[w][1])[i] = s[i]
      /\ Append(s, d[w][1])[Dist(r, w) + 1] = d[w][1]
  BY <1>1, <1>7
<1>. HIDE DEF s, t
<1>9. ASSUME NEW i \in 1 .. Dist(r, w) + 1
      PROVE  t[i] = Append(s, d[w][1])[i]
  <2>1. CASE i \in 1 .. Dist(r, w)
    BY <1>1, <1>6, <1>8, <2>1
  <2>2. CASE i = Dist(r, w) + 1
    BY <1>4, <1>6, <1>8, <2>2
  <2>. QED
    BY <1>1, <2>1, <2>2
<1>10. t = Append(s, d[w][1])
  BY <1>6, <1>8, <1>9
<1>. QED
  BY <1>10 DEF s, t

(* Moving the read index on removes the item stored at it.                   *)
LEMMA UnreadTail ==
  ASSUME NEW d \in [Slots -> Cells], NEW r \in Slots, NEW w \in Slots, Filled(d, r, w),
         w # r
  PROVE  /\ Unread(d, r, w) # <<>>
         /\ d[r] = <<Head(Unread(d, r, w))>>
         /\ Unread(d, Succ(r), w) = Tail(Unread(d, r, w))
<1>. DEFINE s == Unread(d, r, w)
            t == Unread(d, Succ(r), w)
<1>1. /\ s \in Seq(Items) /\ Len(s) = Dist(r, w) /\ Dist(r, w) \in Nat
      /\ \A i \in 1 .. Dist(r, w) : s[i] = d[(r + i - 1) % Size][1]
  <2>1. Dist(r, w) \in Slots
    BY SlotTypes
  <2>2. Dist(r, w) \in Nat
    BY <2>1 DEF Slots
  <2>. QED
    BY <2>2, UnreadSeq
<1>2. Dist(Succ(r), w) = Dist(r, w) - 1 /\ Dist(r, w) > 0 /\ Dist(r, w) < Size
      /\ Succ(r) \in Slots
  <2>1. Dist(Succ(r), w) = Dist(r, w) - 1 /\ Dist(r, w) > 0
    BY DistSucc
  <2>2. Succ(r) \in Slots /\ Dist(r, w) \in Slots
    BY SlotTypes
  <2>. QED
    BY <2>1, <2>2, PipeAssumption DEF Slots
<1>3. s # <<>> /\ s[1] = d[r][1] /\ d[r] # None
  <2>1. (r + 1 - 1) % Size = r
    BY PipeAssumption DEF Slots
  <2>2. 1 \in 1 .. Dist(r, w)
    BY <1>1, <1>2
  <2>. QED
    BY <1>1, <1>2, <2>1, <2>2 DEF Filled
<1>4. ASSUME NEW i \in 1 .. Dist(r, w) - 1
      PROVE  i + 1 \in 1 .. Dist(r, w) /\ (Succ(r) + i - 1) % Size = (r + (i + 1) - 1) % Size
  <2>1. i - 1 \in Nat /\ i - 1 < Size
    BY <1>1, <1>2, PipeAssumption
  <2>2. (Succ(r) + (i - 1)) % Size = (r + ((i - 1) + 1)) % Size
    BY <2>1, SlotShift
  <2>3. Succ(r) + (i - 1) = Succ(r) + i - 1 /\ r + ((i - 1) + 1) = r + (i + 1) - 1
    BY <1>2
  <2>. QED
    BY <1>1, <2>2, <2>3
<1>5. Filled(d, Succ(r), w)
  BY <1>2, <1>4 DEF Filled
<1>6. /\ t \in Seq(Items) /\ Len(t) = Dist(r, w) - 1
      /\ \A i \in 1 .. Dist(r, w) - 1 : t[i] = d[(Succ(r) + i - 1) % Size][1]
  BY <1>2, <1>5, UnreadSeq
<1>. HIDE DEF s, t
<1>7. /\ Tail(s) \in Seq(Items) /\ Len(Tail(s)) = Dist(r, w) - 1
      /\ \A i \in 1 .. Dist(r, w) - 1 : Tail(s)[i] = s[i + 1]
  BY <1>1, <1>3
<1>8. ASSUME NEW i \in 1 .. Dist(r, w) - 1
      PROVE  t[i] = Tail(s)[i]
  BY <1>1, <1>4, <1>6, <1>7
<1>9. t = Tail(s)
  BY <1>6, <1>7, <1>8
<1>10. d[r] = <<Head(s)>>
  BY <1>3, CellItem
<1>. QED
  BY <1>3, <1>9, <1>10 DEF s, t

(* Every step of the pipe is a Put (wrp moves on), a Get (rdp moves on) or   *)
(* invisible.                                                                *)
LEMMA StepRefines ==
  ASSUME IInv, IInv', [Next]_vars
  PROVE  [Abstract!PipeNext]_<<Pending, got>>
<1>. USE DEF ringVars, flagVars, semVars, writerVars, readerVars
<1>1. /\ data \in [Slots -> Cells] /\ rdp \in Slots /\ wrp \in Slots
      /\ Filled(data, rdp, wrp)
      /\ Pending = Unread(data, rdp, wrp)
  BY UsedDist DEF IInv, TypeOK, Carried, Filled, Pending, Used, Unread
<1>2. /\ rdp' \in Slots /\ wrp' \in Slots
      /\ Pending' = Unread(data', rdp', wrp')
  BY UsedDist DEF IInv, TypeOK, Pending, Used, Unread
<1>3. CASE UNCHANGED <<data, rdp, wrp, got>>
  BY <1>1, <1>2, <1>3
<1>4. ASSUME NEW w \in Writers, WStore(w)
      PROVE  UNCHANGED <<Pending, got>>
  <2>1. data' = [data EXCEPT ![wrp] = wdata[w]] /\ UNCHANGED <<rdp, wrp, got>>
    BY <1>4 DEF WStore
  <2>2. Unread([data EXCEPT ![wrp] = wdata[w]], rdp, wrp) = Unread(data, rdp, wrp)
    BY <1>1, UnreadStore
  <2>. QED
    BY <1>1, <1>2, <2>1, <2>2
<1>5. ASSUME NEW w \in Writers, WAdvance(w)
      PROVE  Abstract!Put(wdata[w][1]) /\ wdata[w][1] \in Items
  <2>1. /\ Succ(wrp) # rdp /\ wrp' = Succ(wrp) /\ data[wrp] = wdata[w] /\ data[wrp] # None
        /\ UNCHANGED <<data, rdp, got>>
    BY <1>5 DEF IInv, HasRoom, Carried, WAdvance, WGoto
  <2>2. Pending' = Append(Pending, wdata[w][1])
    BY <1>1, <1>2, <2>1, UnreadAppend
  <2>3. Len(Pending) < Size - 1
    <3>1. Len(Pending) = Dist(rdp, wrp) /\ Dist(rdp, wrp) \in Slots
      BY <1>1, UnreadSeq, SlotTypes
    <3>2. Dist(rdp, wrp) # Size - 1
      BY <1>1, <2>1, DistSucc
    <3>. QED
      BY <3>1, <3>2, PipeAssumption DEF Slots
  <2>. QED
    BY <1>1, <2>1, <2>2, <2>3, CellItem DEF Abstract!Put
<1>6. CASE RAdvance
  <2>1. rdp # wrp /\ rdp' = Succ(rdp) /\ got' = data[rdp] /\ UNCHANGED <<data, wrp>>
    BY <1>1, <1>6, SuccSlot DEF IInv, HasData, Carried, RAdvance, RGoto
  <2>. QED
    BY <1>1, <1>2, <2>1, UnreadTail DEF Abstract!PipeNext, Abstract!Get
<1>. QED
  BY <1>3, <1>4, <1>5, <1>6 DEF Next, vars, Read, WStep, WCall, WPeek, WLock, WFull,
     WSetWaiting, WRelease, WWait, WRelock, WWake, WClear, WPost, WLeave, RLock, REmpty,
     RSetWaiting, RRelease, RWait, RRelock, RTake, RWake, RClear, RPost, RLeave,
     Abstract!PipeNext

LEMMA InitRefines == Init => Abstract!PipeInit
  BY PipeAssumption DEF Init, Abstract!PipeInit, Pending, Used, None

(* commpipe.h implements the bounded FIFO for every ring size, every chunk   *)
(* size and any number of callers that take turns.                           *)
THEOREM PipeIsFifo ==
  ASSUME OneWriter
  PROVE  Spec => Fifo
<1>1. IInv /\ IInv' /\ [Next]_vars => [Abstract!PipeNext]_<<Pending, got>>
  BY StepRefines
<1>2. [Abstract!PipeNext]_<<Pending, got>> <=> [Abstract!PipeNext]_Abstract!pipeVars
  BY DEF Abstract!pipeVars
<1>. QED
  BY <1>1, <1>2, InitRefines, PipeInvariant, PTL DEF Spec, Fifo, Abstract!PipeSpec

=============================================================================
