------------------------- MODULE Native2AmigaProof -------------------------
(***************************************************************************)
(* Calls from host threads for every set of callers and of machines: one   *)
(* of them writes into the pipe at a time, its messages arrive whole, and  *)
(* without the A2091 the server is always called for what is in the pipe.  *)
(***************************************************************************)
EXTENDS Native2Amiga, SequenceTheorems, TLAPS

Word == {w \in [from : Callers, call : Nat, part : 1 .. 3, of : {2, 3}] : w.part <= w.of}

TypeOK ==
  /\ machine \in Machines
  /\ pending \in Seq(Word) /\ writer_waiting \in BOOLEAN
  /\ n2asem \in {0, 1} /\ uae_int_requested \subseteq Bits
  /\ pc \in [Callers -> {"idle", "enter", "write", "asleep", "read", "set", "post"}]
  /\ word \in [Callers -> Word] /\ got \in [Callers -> SUBSET Bits]
  /\ server \in {"68k", "raise", "drop", "clear", "server", "args"}
  /\ seen \subseteq Bits /\ received \in [Callers -> Nat]
  /\ resets \in 0 .. machine.resets

(* The semaphore is taken exactly while one caller is inside.                *)
Semaphore == OneWriter /\ (n2asem = 0 <=> \E c \in Callers : Inside(c))

(* What is in the pipe has the interrupt requested, unless its caller is     *)
(* still to do so; a caller that has done so and is about to leave owes      *)
(* nothing any more.                                                         *)
Owes(c) == pc[c] \in {"write", "asleep", "read", "set"}
Requested ==
  ~machine.a2091 =>
    /\ server \notin {"raise", "drop"}
    /\ pending # <<>> /\ server = "68k"
         => "call" \in uae_int_requested \/ \E c \in Callers : Owes(c)

Writing(c) == pc[c] \in {"write", "asleep"}
NextWord(v) == [v EXCEPT !.part = @ + 1]
Follows(v, w) == IF v.part < v.of THEN w = NextWord(v) ELSE w.part = 1

(* In the pipe a word is followed by the next one of its message or by the   *)
(* first of another, the same across its end to the word that is written     *)
(* next, and across its head from the word that was read last.               *)
Consecutive == \A i \in 1 .. Len(pending) - 1 : Follows(pending[i], pending[i + 1])
AtTail ==
  pending # <<>> =>
    LET v == pending[Len(pending)] IN
      /\ \A c \in Callers : Writing(c) => Follows(v, word[c])
      /\ v.part < v.of => \E c \in Callers : Writing(c)
AtHead == pending # <<>> => (server = "args" <=> pending[1].part > 1)
AtEmpty ==
  pending = <<>> =>
    /\ \A c \in Callers : Writing(c) => (server = "args" <=> word[c].part > 1)
    /\ server = "args" => \E c \in Callers : Writing(c)
FirstWord == \A c \in Callers : pc[c] = "enter" => word[c].part = 1

Whole == machine.resets = 0 => Consecutive /\ AtTail /\ AtHead /\ AtEmpty

IInv == TypeOK /\ Semaphore /\ Requested /\ FirstWord /\ Whole

-----------------------------------------------------------------------------
LEMMA InitIInv == Init => IInv
<1> SUFFICES ASSUME Init PROVE IInv
  OBVIOUS
<1>1. First(Emulation, 0, 2) \in Word /\ \A c \in Callers : First(c, 0, 2) \in Word
  BY DEF First, Word, Callers
<1>2. TypeOK
  <2>1. machine \in Machines /\ 0 \in 0 .. machine.resets
    BY CallAssumption DEF Init
  <2>2. word \in [Callers -> Word]
    BY <1>1 DEF Init
  <2> QED BY <2>1, <2>2, EmptySeq DEF Init, TypeOK
<1>3. Semaphore /\ Requested /\ FirstWord /\ Whole
  BY CallAssumption DEF Init, Semaphore, OneWriter, Requested, FirstWord, Whole, Consecutive,
     AtTail, AtHead, AtEmpty, Inside, Owes, Writing
<1> QED BY <1>2, <1>3 DEF IInv

LEMMA WordFollows ==
  ASSUME NEW w \in Word
  PROVE  /\ w.part \in 1 .. 3 /\ w.of \in {2, 3} /\ w.part <= w.of /\ w.part \in Nat
         /\ w.from \in Callers /\ w.call \in Nat
         /\ w.part # w.of =>
              /\ NextWord(w) \in Word /\ NextWord(w).part = w.part + 1
              /\ NextWord(w).of = w.of
<1>1. /\ w \in [from : Callers, call : Nat, part : 1 .. 3, of : {2, 3}] /\ w.part <= w.of
  BY DEF Word
<1>2. ASSUME w.part # w.of PROVE w.part + 1 \in 1 .. 3 /\ w.part + 1 <= w.of
  BY <1>1, <1>2
<1>3. w.part # w.of => NextWord(w) \in [from : Callers, call : Nat, part : 1 .. 3, of : {2, 3}]
  BY <1>1, <1>2 DEF NextWord
<1>4. NextWord(w).part = w.part + 1 /\ NextWord(w).of = w.of
  BY <1>1 DEF NextWord
<1> QED BY <1>1, <1>2, <1>3, <1>4 DEF Word

(* Taking the next word from the pipe.                                       *)
LEMMA TakeTypes ==
  ASSUME TypeOK, Take
  PROVE  /\ pending' \in Seq(Word) /\ Head(pending) \in Word /\ writer_waiting' \in BOOLEAN
         /\ Len(pending') = Len(pending) - 1 /\ Len(pending) \in Nat \ {0}
         /\ Head(pending) = pending[1]
         /\ \A i \in 1 .. Len(pending') : pending'[i] = pending[i + 1]
         /\ pc' \in [Callers -> {"idle", "enter", "write", "asleep", "read", "set", "post"}]
         /\ \A c \in Callers :
              pc'[c] = pc[c] \/ (pc[c] = "asleep" /\ pc'[c] = "write")
<1>1. pending \in Seq(Word) /\ pending # <<>> /\ pending' = Tail(pending)
  BY DEF TypeOK, Take
<1>2. /\ Head(pending) \in Word /\ pending' \in Seq(Word)
      /\ Len(pending') = Len(pending) - 1
      /\ \A i \in 1 .. Len(pending') : pending'[i] = pending[i + 1]
  BY <1>1, HeadTailProperties
<1>3. Len(pending) \in Nat \ {0} /\ Head(pending) = pending[1]
  BY <1>1, EmptySeq
<1>4. /\ pc' \in [Callers -> {"idle", "enter", "write", "asleep", "read", "set", "post"}]
      /\ \A c \in Callers :
           pc'[c] = pc[c] \/ (pc[c] = "asleep" /\ pc'[c] = "write")
  BY DEF TypeOK, Take, Woken
<1> QED BY <1>2, <1>3, <1>4 DEF Take

LEMMA TypeKeeps ==
  ASSUME TypeOK, Semaphore, [Next]_vars
  PROVE  TypeOK'
<1> USE DEF TypeOK, Goto, SGoto, fixed, callerVars, serverVars
<1>1. ASSUME NEW c \in Callers, Call(c) PROVE TypeOK'
  <2>1. \A len \in {2, 3} : First(c, word[c].call + 1, len) \in Word
    BY DEF First, Word
  <2> QED BY <1>1, <2>1 DEF Call
<1>2. ASSUME NEW c \in Callers, Enter(c) PROVE TypeOK'
  BY <1>2 DEF Enter
<1>3. ASSUME NEW c \in Callers, Write(c) PROVE TypeOK'
  <2>1. pending' \in Seq(Word)
    BY <1>3, AppendProperties DEF Write
  <2>2. word[c].part # word[c].of => [word[c] EXCEPT !.part = @ + 1] \in Word
    BY WordFollows DEF NextWord
  <2> QED BY <1>3, <2>1, <2>2 DEF Write
<1>4. ASSUME NEW c \in Callers, Sleep(c) PROVE TypeOK'
  BY <1>4 DEF Sleep
<1>5. ASSUME NEW c \in Callers, ReadInt(c) PROVE TypeOK'
  BY <1>5 DEF ReadInt
<1>6. ASSUME NEW c \in Callers, SetInt(c) PROVE TypeOK'
  BY <1>6 DEF SetInt, Bits
<1>7. ASSUME NEW c \in Callers, Leave(c) PROVE TypeOK'
  BY SMTT(30), <1>7 DEF Leave, Semaphore, Inside
<1>8. CASE ReadA2091
  BY <1>8 DEF ReadA2091
<1>9. CASE WriteA2091
  BY <1>9 DEF WriteA2091, Bits
<1>10. CASE ReadClear
  BY <1>10 DEF ReadClear
<1>11. CASE WriteClear
  BY <1>11 DEF WriteClear
<1>12. CASE ReadCommand
  <2>1. Take
    BY <1>12 DEF ReadCommand
  <2> QED BY <1>12, <2>1, TakeTypes DEF ReadCommand
<1>13. CASE ReadArgument
  <2>1. Take
    BY <1>13 DEF ReadArgument
  <2>2. Head(pending).from \in Callers /\ Head(pending).call \in Nat
    BY <2>1, TakeTypes DEF Word
  <2> QED BY <1>13, <2>1, <2>2, TakeTypes DEF ReadArgument
<1>14. CASE Exit
  BY <1>14 DEF Exit
<1>15. CASE Reset
  <2>1. machine.resets \in Nat /\ resets < machine.resets /\ resets' = resets + 1
    BY <1>15, CallAssumption DEF Reset
  <2>2. resets' \in 0 .. machine'.resets
    BY <1>15, <2>1 DEF Reset
  <2>3. pending' \in Seq(Word)
    BY <1>15, EmptySeq DEF Reset
  <2> QED BY <1>15, <2>2, <2>3 DEF Reset
<1>16. CASE UNCHANGED vars
  BY <1>16 DEF vars
<1> QED
  BY <1>1, <1>2, <1>3, <1>4, <1>5, <1>6, <1>7, <1>8, <1>9, <1>10, <1>11, <1>12, <1>13, <1>14,
     <1>15, <1>16 DEF Next, InCall, Server, Idle

(* Only Enter, with the semaphore, and Leave change who is inside.           *)
LEMMA SemaphoreKeeps ==
  ASSUME TypeOK, Semaphore, [Next]_vars
  PROVE  Semaphore'
<1> USE DEF TypeOK, Semaphore, OneWriter, Inside, Goto
<1>1. ASSUME NEW c \in Callers, Call(c) PROVE Semaphore'
  BY <1>1 DEF Call
<1>2. ASSUME NEW c \in Callers, Enter(c) PROVE Semaphore'
  <2>1. n2asem = 1 /\ n2asem' = 0
    BY <1>2 DEF Enter
  <2>2. \A d \in Callers : ~Inside(d)
    BY <2>1
  <2>3. \A d \in Callers : Inside(d)' <=> d = c
    BY <1>2, <2>2 DEF Enter
  <2> HIDE DEF Inside
  <2> QED BY <2>1, <2>3
<1>3. ASSUME NEW c \in Callers, Write(c) PROVE Semaphore'
  <2>1. PICK p \in {"read", "write"} : pc' = [pc EXCEPT ![c] = p]
    BY <1>3 DEF Write
  <2>2. pc[c] = "write" /\ n2asem' = n2asem
    BY <1>3 DEF Write
  <2>3. \A d \in Callers : Inside(d)' <=> Inside(d)
    BY <2>1, <2>2
  <2> HIDE DEF Inside
  <2> QED BY <2>2, <2>3
<1>4. ASSUME NEW c \in Callers, Sleep(c) \/ ReadInt(c) \/ SetInt(c) PROVE Semaphore'
  BY <1>4 DEF Sleep, ReadInt, SetInt
<1>5. ASSUME NEW c \in Callers, Leave(c) PROVE Semaphore'
  <2>1. Inside(c) /\ n2asem = 0 /\ n2asem' = 1
    BY <1>5 DEF Leave
  <2>2. \A d \in Callers : Inside(d) => d = c
    BY <2>1
  <2>3. \A d \in Callers : ~Inside(d)'
    BY <1>5, <2>2 DEF Leave
  <2> HIDE DEF Inside
  <2> QED BY <2>1, <2>3
<1>6. CASE ReadCommand \/ ReadArgument
  <2>1. Take /\ n2asem' = n2asem
    BY <1>6 DEF ReadCommand, ReadArgument
  <2>2. \A c \in Callers : Inside(c)' <=> Inside(c)
    BY <2>1, TakeTypes
  <2> HIDE DEF Inside
  <2> QED BY <2>1, <2>2
<1>7. CASE UNCHANGED <<pc, n2asem>>
  BY <1>7
<1> QED
  BY <1>1, <1>2, <1>3, <1>4, <1>5, <1>6, <1>7 DEF Next, InCall, Server, ReadA2091, WriteA2091,
     ReadClear, WriteClear, Exit, Reset, Idle, callerVars, vars

(* The A2091's requests are not there to be mixed up with: a caller that has *)
(* set its bit finds it still set, or the server on its way to the pipe.     *)
LEMMA RequestedKeeps ==
  ASSUME TypeOK, Semaphore, Requested, [Next]_vars
  PROVE  Requested'
<1> SUFFICES ASSUME ~machine'.a2091 PROVE Requested'
  BY DEF Requested
<1>0. machine' = machine /\ ~machine.a2091
  BY DEF Next, InCall, Server, Call, Enter, Write, Sleep, ReadInt, SetInt, Leave, ReadA2091,
     WriteA2091, ReadClear, WriteClear, ReadCommand, ReadArgument, Exit, Reset, Idle, fixed, vars
<1> USE <1>0 DEF TypeOK, Requested, Owes, Goto, SGoto, serverVars, callerVars
<1>1. ASSUME NEW c \in Callers, Call(c) PROVE Requested'
  BY <1>1 DEF Call
<1>2. ASSUME NEW c \in Callers, Enter(c) PROVE Requested'
  BY <1>2 DEF Enter
<1>3. ASSUME NEW c \in Callers, Write(c) PROVE Requested'
  BY <1>3 DEF Write
<1>4. ASSUME NEW c \in Callers, Sleep(c) PROVE Requested'
  BY <1>4 DEF Sleep
<1>5. ASSUME NEW c \in Callers, ReadInt(c) PROVE Requested'
  BY <1>5 DEF ReadInt
<1>6. ASSUME NEW c \in Callers, SetInt(c) PROVE Requested'
  BY <1>6 DEF SetInt
<1>7. ASSUME NEW c \in Callers, Leave(c) PROVE Requested'
  BY <1>7 DEF Leave
<1>8. CASE ReadClear \/ WriteClear
  BY <1>8 DEF ReadClear, WriteClear
<1>9. CASE ReadCommand \/ ReadArgument
  BY <1>9 DEF ReadCommand, ReadArgument
<1>10. CASE Exit \/ Reset
  BY <1>10 DEF Exit, Reset
<1>11. CASE UNCHANGED vars
  BY <1>11 DEF vars
<1> QED
  BY <1>1, <1>2, <1>3, <1>4, <1>5, <1>6, <1>7, <1>8, <1>9, <1>10, <1>11
     DEF Next, InCall, Server, ReadA2091, WriteA2091, Idle

LEMMA FirstWordKeeps ==
  ASSUME TypeOK, FirstWord, [Next]_vars
  PROVE  FirstWord'
<1> USE DEF TypeOK, FirstWord, Goto
<1>1. ASSUME NEW c \in Callers, Call(c) \/ InCall(c) PROVE FirstWord'
  BY <1>1 DEF Call, InCall, Enter, Write, Sleep, ReadInt, SetInt, Leave, First
<1>2. CASE ReadCommand \/ ReadArgument
  <2>1. Take /\ word' = word
    BY <1>2 DEF ReadCommand, ReadArgument
  <2> QED BY <2>1, TakeTypes
<1>3. CASE UNCHANGED <<pc, word>>
  BY <1>3
<1> QED
  BY <1>1, <1>2, <1>3 DEF Next, Server, ReadA2091, WriteA2091, ReadClear, WriteClear, Exit,
     Reset, Idle, callerVars, vars

(* A word goes into the pipe only behind the one before it in its message.   *)
LEMMA WriteKeepsWhole ==
  ASSUME TypeOK, Semaphore, Consecutive, AtTail, AtHead, AtEmpty, NEW c \in Callers, Write(c)
  PROVE  (Consecutive /\ AtTail /\ AtHead /\ AtEmpty)'
<1>1. /\ pending \in Seq(Word) /\ word[c] \in Word /\ Writing(c) /\ Inside(c)
      /\ pending' = Append(pending, word[c]) /\ server' = server
  BY DEF TypeOK, Write, Goto, serverVars, Writing, Inside
<1>2. /\ Len(pending) \in Nat /\ Len(pending') = Len(pending) + 1
      /\ \A i \in 1 .. Len(pending) : pending'[i] = pending[i]
      /\ pending'[Len(pending) + 1] = word[c]
  BY <1>1, AppendProperties, LenProperties
<1>3. pending = <<>> <=> Len(pending) = 0
  BY <1>1, EmptySeq
<1>4. Consecutive'
  <2> SUFFICES ASSUME NEW i \in 1 .. Len(pending') - 1
               PROVE  Follows(pending'[i], pending'[i + 1])
    BY DEF Consecutive
  <2>1. CASE i < Len(pending)
    BY <1>2, <2>1 DEF Consecutive
  <2>2. CASE i = Len(pending)
    BY <1>1, <1>2, <1>3, <2>2 DEF AtTail
  <2> QED BY <1>2, <2>1, <2>2
<1>5. \A d \in Callers : Writing(d)' => d = c
  BY <1>1 DEF TypeOK, Semaphore, OneWriter, Inside, Writing, Write, Goto
<1>6. AtTail'
  <2>1. CASE word[c].part = word[c].of
    <3>1. \A d \in Callers : ~Writing(d)'
      BY <1>5, <2>1 DEF Write, Goto, TypeOK, Writing
    <3> QED BY <1>2, <2>1, <3>1, WordFollows, <1>1 DEF AtTail
  <2>2. CASE word[c].part # word[c].of
    <3>1. Writing(c)' /\ word'[c] = NextWord(word[c])
      BY <2>2 DEF Write, Goto, TypeOK, Writing, NextWord
    <3>2. word[c].part < word[c].of
      BY <1>1, <2>2, WordFollows
    <3> QED BY <1>2, <1>5, <3>1, <3>2 DEF AtTail, Follows
  <2> QED BY <2>1, <2>2
<1>7. AtHead'
  BY <1>1, <1>2, <1>3 DEF AtHead, AtEmpty
<1>8. AtEmpty'
  BY <1>1, <1>2, EmptySeq DEF AtEmpty
<1> QED BY <1>4, <1>6, <1>7, <1>8

(* The server takes words from the head; between two messages it takes a     *)
(* first word, inside a message the next one.                                *)
LEMMA ServerKeepsWhole ==
  ASSUME TypeOK, Semaphore, Consecutive, AtTail, AtHead, AtEmpty, ReadCommand \/ ReadArgument
  PROVE  (Consecutive /\ AtTail /\ AtHead /\ AtEmpty)'
<1>1. Take /\ word' = word
  BY DEF ReadCommand, ReadArgument
<1>2. /\ pending' \in Seq(Word) /\ Head(pending) = pending[1] /\ pending[1] \in Word
      /\ Len(pending') = Len(pending) - 1 /\ Len(pending) \in Nat \ {0}
      /\ \A i \in 1 .. Len(pending') : pending'[i] = pending[i + 1]
  BY <1>1, TakeTypes
<1>3. \A c \in Callers : Writing(c)' <=> Writing(c)
  BY <1>1, TakeTypes DEF Writing
<1>4. pending # <<>> /\ (pending' = <<>> <=> Len(pending) = 1)
  BY <1>2, EmptySeq
<1>5. server' = "args" <=> pending[1].part < pending[1].of
  <2>1. CASE ReadCommand
    <3>1. server = "server" /\ server' = "args"
      BY <2>1 DEF ReadCommand, SGoto
    <3>2. pending[1].part = 1
      BY <1>2, <1>4, <3>1, WordFollows DEF AtHead
    <3> QED BY <1>2, <3>1, <3>2, WordFollows
  <2>2. CASE ReadArgument
    BY <1>2, <2>2, WordFollows DEF ReadArgument, SGoto
  <2> QED BY <2>1, <2>2
<1>6. Consecutive'
  BY <1>2 DEF Consecutive
<1>7. AtTail'
  <2> SUFFICES ASSUME pending' # <<>> PROVE AtTail'
    BY DEF AtTail
  <2>1. pending'[Len(pending')] = pending[Len(pending)]
    BY <1>2, <1>4
  <2> QED BY <1>1, <1>3, <1>4, <2>1 DEF AtTail
<1>8. AtHead'
  <2> SUFFICES ASSUME pending' # <<>> PROVE server' = "args" <=> pending'[1].part > 1
    BY DEF AtHead
  <2>1. Follows(pending[1], pending'[1])
    BY <1>2, <1>4 DEF Consecutive
  <2> QED BY <1>2, <1>5, <2>1, WordFollows DEF Follows
<1>9. AtEmpty'
  <2> SUFFICES ASSUME pending' = <<>> PROVE AtEmpty'
    BY DEF AtEmpty
  <2>1. pending[Len(pending)] = pending[1]
    BY <1>2, <1>4
  <2>2. ASSUME NEW c \in Callers, Writing(c)' PROVE server' = "args" <=> word'[c].part > 1
    <3>1. Follows(pending[1], word[c])
      BY <1>3, <1>4, <2>1, <2>2 DEF AtTail
    <3> QED BY <1>1, <1>2, <1>5, <3>1, WordFollows DEF Follows
  <2>3. server' = "args" => \E c \in Callers : Writing(c)'
    BY <1>3, <1>4, <1>5, <2>1 DEF AtTail
  <2> QED BY <2>2, <2>3 DEF AtEmpty
<1> QED BY <1>6, <1>7, <1>8, <1>9

LEMMA WholeKeeps ==
  ASSUME TypeOK, Semaphore, FirstWord, Whole, [Next]_vars
  PROVE  Whole'
<1> SUFFICES ASSUME machine'.resets = 0 PROVE (Consecutive /\ AtTail /\ AtHead /\ AtEmpty)'
  BY DEF Whole
<1>0. machine' = machine /\ machine.resets = 0
  BY DEF Next, InCall, Server, Call, Enter, Write, Sleep, ReadInt, SetInt, Leave, ReadA2091,
     WriteA2091, ReadClear, WriteClear, ReadCommand, ReadArgument, Exit, Reset, Idle, fixed, vars
<1>1. Consecutive /\ AtTail /\ AtHead /\ AtEmpty
  BY <1>0 DEF Whole
<1>2. ASSUME NEW c \in Callers, Write(c)
      PROVE  (Consecutive /\ AtTail /\ AtHead /\ AtEmpty)'
  BY <1>1, <1>2, WriteKeepsWhole
<1>3. CASE ReadCommand \/ ReadArgument
  BY <1>1, <1>3, ServerKeepsWhole
<1>4. ~Reset
  BY <1>0 DEF Reset, TypeOK
<1>5. ASSUME NEW c \in Callers, Call(c) PROVE (Consecutive /\ AtTail /\ AtHead /\ AtEmpty)'
  <2>1. /\ pending' = pending /\ server' = server
        /\ \A d \in Callers : Writing(d)' <=> Writing(d) 
        /\ \A d \in Callers : Writing(d) => word'[d] = word[d]
    BY <1>5 DEF Call, Goto, TypeOK, Writing, serverVars
  <2> QED BY <1>1, <2>1 DEF Consecutive, AtTail, AtHead, AtEmpty
<1>6. ASSUME NEW c \in Callers, Enter(c) PROVE (Consecutive /\ AtTail /\ AtHead /\ AtEmpty)'
  <2>1. \A d \in Callers : ~Writing(d)
    BY <1>6 DEF Enter, Semaphore, TypeOK, Writing, Inside
  <2>2. /\ pending' = pending /\ server' = server /\ word' = word
        /\ \A d \in Callers : Writing(d)' <=> d = c
    BY <1>6, <2>1 DEF Enter, Goto, TypeOK, Writing, serverVars
  <2>3. word[c].part = 1
    BY <1>6 DEF FirstWord, Enter, Goto
  <2>4. pending # <<>> => ~(pending[Len(pending)].part < pending[Len(pending)].of)
    BY <1>1, <2>1 DEF AtTail
  <2> QED BY <1>1, <2>1, <2>2, <2>3, <2>4 DEF Consecutive, AtTail, AtHead, AtEmpty, Follows
<1>7. ASSUME NEW c \in Callers, Sleep(c) \/ ReadInt(c) \/ SetInt(c) \/ Leave(c)
      PROVE  (Consecutive /\ AtTail /\ AtHead /\ AtEmpty)'
  <2>1. /\ pending' = pending /\ server' = server /\ word' = word
        /\ \A d \in Callers : Writing(d)' <=> Writing(d)
    BY <1>7 DEF Sleep, ReadInt, SetInt, Leave, Goto, TypeOK, Writing, serverVars
  <2> QED BY <1>1, <2>1 DEF Consecutive, AtTail, AtHead, AtEmpty
<1>8. CASE UNCHANGED <<pending, pc, word>> /\ (server' = "args" <=> server = "args")
  BY <1>1, <1>8 DEF Consecutive, AtTail, AtHead, AtEmpty, Writing
<1> QED
  BY <1>2, <1>3, <1>4, <1>5, <1>6, <1>7, <1>8 DEF Next, InCall, Server, ReadA2091, WriteA2091,
     ReadClear, WriteClear, Exit, SGoto, Idle, callerVars, vars

-----------------------------------------------------------------------------
(* All of it together is kept by every step.                                 *)
THEOREM CallInvariant == Spec => []IInv
<1>1. IInv /\ [Next]_vars => IInv'
  BY TypeKeeps, SemaphoreKeeps, RequestedKeeps, FirstWordKeeps, WholeKeeps DEF IInv
<1> QED BY <1>1, InitIInv, PTL DEF Spec

(* n2asem lets one caller write into native2amiga_pending at a time, for any *)
(* number of threads and whatever the server, the A2091 and resets do: what  *)
(* the comm pipe demands of its callers.                                     *)
THEOREM CallersTakeTurns == Spec => []OneWriter
<1>1. IInv => OneWriter
  BY DEF IInv, Semaphore
<1> QED BY <1>1, CallInvariant, PTL

(* Without a reset exter_int_helper finds a command where it looks for one,  *)
(* followed by the arguments of that command, however small the pipe is and  *)
(* wherever the callers are interrupted.                                     *)
THEOREM MessagesArriveWhole == Spec => []MessagesWhole
<1>1. IInv => MessagesWhole
  <2> SUFFICES ASSUME IInv, machine.resets = 0 PROVE MessagesWhole
    BY DEF MessagesWhole
  <2>1. Consecutive /\ AtHead /\ pending \in Seq(Word)
    BY DEF IInv, Whole, TypeOK
  <2>2. ASSUME pending # <<>>
        PROVE  Head(pending) = pending[1] /\ pending[1] \in Word
    BY <2>1, <2>2, EmptySeq, ElementOfSeq
  <2>3. /\ server \in {"68k", "clear", "server"} /\ pending # <<>> => Head(pending).part = 1
        /\ server = "args" /\ pending # <<>> => Head(pending).part > 1
    BY <2>1, <2>2, WordFollows DEF AtHead
  <2> QED BY <2>1, <2>3 DEF MessagesWhole, Consecutive, Follows, NextWord
<1> QED BY <1>1, CallInvariant, PTL

(* "We can get too many interrupts, but never not enough": proved for a      *)
(* machine without the A2091, whose interrupt shares the word.               *)
THEOREM InterruptsAreEnough == Spec => []EnoughInterrupts
<1>1. IInv => EnoughInterrupts
  BY DEF IInv, TypeOK, Requested, EnoughInterrupts, NeverNotEnough, Owes
<1> QED BY <1>1, CallInvariant, PTL

=============================================================================
