---------------------------- MODULE StorageProof ----------------------------
(***************************************************************************)
(* The parts of MCStorage for every number of requests, slots and closes,  *)
(* every disc and every size of the buffers: the pipe of a hard file has   *)
(* one reader, and the 68k gets the right sectors of a CD.                 *)
(***************************************************************************)
EXTENDS MCStorage, RecordLocksProof, FiniteSets, FiniteSetTheorems, TLAPS

-----------------------------------------------------------------------------
(* The threads of a hard file                                                *)

HfCalls ==                                           \* of a call, until it returns
  {"start", "sync", "call", "take", "mark", "send", "full", "release"}
HfPlaces ==
  {"none", "born", "post", "read", "lock", "do", "take", "mark", "full", "type", "reply", "die",
   "dead"}
HfTypes ==
  /\ emu \in [at : HfCalls \cup {"68k", "change", "cause"},
              call : HF!Sent \cup {"none", "open", "abort"}, req : Requests \cup {None},
              slot : Slots \cup {None}, todo : SUBSET Slots]
  /\ emu.at \in HfCalls /\ emu.call \in HF!Sent => emu.req \in Requests
  /\ emu.at \in {"take", "mark", "send", "full"} => emu.call \in HF!Sent
  /\ unit \in [running : BOOLEAN, sync : Nat, opens : {0, 1}, change : Nat]
  /\ requests \in Seq(Requests \cup {HF!Die})
  /\ thread \in [HF!Threads ->
                  [at : HfPlaces,
                   req : Requests \cup {None, HF!Die}, slot : Slots \cup {None}]]

Lives(t) == thread[t].at \notin {"none", "dead"}

(* While a call is made no thread is on its way out; who lives is alone, and  *)
(* start_thread waits for it, or thread_running says so.                     *)
HfInv ==
  /\ HfTypes
  /\ ~hurried =>
       /\ emu.at \in HfCalls => ~HF!Dying
       /\ \A t \in HF!Threads :
            /\ thread[t].at \in {"die", "dead"} => thread[t].req = HF!Die
            /\ thread[t].at = "born" => emu.at = "sync" /\ unit.sync = 0
            /\ Lives(t) /\ thread[t].at # "born" => unit.running
            /\ \A u \in HF!Threads : Lives(t) /\ Lives(u) => t = u

-----------------------------------------------------------------------------
(* The buffers of the CD reader                                              *)

Infos == 0 .. Tries + 1
Sectors == Nat \cup {None}

(* Sector o of a buffer that is to be given is the one it should be.          *)
Sound(sector, info, data) ==
  \A o \in CD!Offsets : info[o] \in 1 .. Tries => sector \in Nat /\ data[o] = sector + o

CdTypes ==
  /\ cdemu \in [at : {"68k", "access", "info", "data", "given", "count", "wait", "freed"},
                sec : Nat, got : Sectors]
  /\ wanted \in Sectors /\ current \in Sectors
  /\ buffer \in [1 .. 2 -> [sector : Sectors, info : [CD!Offsets -> Infos],
                            data : [CD!Offsets -> Sectors]]]
  /\ running \in {"yes", "no", "ended"} /\ torn \in BOOLEAN

(* Each field of the buffers belongs to the old or the new one, as far as     *)
(* the thread has exchanged them.                                            *)
BuffersOK ==
  /\ cdthread = "fill" => buffer[2].sector \in Nat
  /\ cdthread = "swapinfo" => Sound(buffer[2].sector, buffer[2].info, buffer[2].data)
  /\ cdthread = "swapdata" => Sound(buffer[2].sector, buffer[1].info, buffer[2].data)
  /\ cdthread = "swapsector" => Sound(buffer[2].sector, buffer[1].info, buffer[1].data)
  /\ ~CD!MidSwap => Sound(buffer[1].sector, buffer[1].info, buffer[1].data)

(* cdrom_run_read knows which sector it reads unless the buffers move.        *)
ReaderOK ==
  CD!Reading =>
    /\ cdemu.sec \in CD!Offsets /\ wanted \in Nat
    /\ ~torn =>
         /\ ~CD!MidSwap /\ buffer[1].sector \in Nat
         /\ wanted = buffer[1].sector + cdemu.sec
         /\ cdemu.at \in {"data", "given"} => buffer[1].info[cdemu.sec] \in 1 .. Tries
         /\ cdemu.at = "given" => cdemu.got = wanted

StopOK ==
  /\ running = "ended" => cdthread = "none"
  /\ cdemu.at = "wait" => running # "yes"
  /\ cdemu.at = "freed" => cdthread = "none"

CdInv == CdTypes /\ BuffersOK /\ ReaderOK /\ StopOK

-----------------------------------------------------------------------------
(* A hard file: every step keeps HfInv                                       *)

(* A step of the emulation thread that starts no thread.                     *)
LEMMA EmulationKeeps ==
  ASSUME HfInv, HfTypes', thread' = thread, unit'.running = unit.running,
         hurried => hurried',
         ~hurried' /\ emu'.at \in HfCalls => ~HF!Dying',
         \A t \in HF!Threads : thread[t].at = "born" /\ emu.at = "sync" /\ unit.sync = 0
                                 => emu'.at = "sync" /\ unit'.sync = 0
  PROVE  HfInv'
<1> SUFFICES ASSUME ~hurried', NEW t \in HF!Threads
             PROVE  /\ (thread[t].at \in {"die", "dead"} => thread[t].req = HF!Die)'
                    /\ (thread[t].at = "born" => emu.at = "sync" /\ unit.sync = 0)'
                    /\ (Lives(t) /\ thread[t].at # "born" => unit.running)'
                    /\ (\A u \in HF!Threads : Lives(t) /\ Lives(u) => t = u)'
  BY DEF HfInv
<1>1. \A u \in HF!Threads : Lives(u)' <=> Lives(u)
  BY DEF Lives
<1> QED  BY <1>1 DEF HfInv

(* A step of the thread that lives.                                          *)
LEMMA ThreadKeeps ==
  ASSUME HfInv, HfTypes', NEW t \in HF!Threads, Lives(t),
         emu' = emu, hurried' = hurried, HF!Dying' => HF!Dying,
         \A u \in HF!Threads : u # t => thread'[u] = thread[u],
         thread'[t].at # "born",
         thread'[t].at \in {"die", "dead"} /\ ~hurried => thread'[t].req = HF!Die,
         Lives(t)' /\ ~hurried => unit'.running
  PROVE  HfInv'
<1> SUFFICES ASSUME ~hurried, NEW u \in HF!Threads
             PROVE  /\ (thread[u].at \in {"die", "dead"} => thread[u].req = HF!Die)'
                    /\ (thread[u].at = "born" => emu.at = "sync" /\ unit.sync = 0)'
                    /\ (Lives(u) /\ thread[u].at # "born" => unit.running)'
                    /\ (\A v \in HF!Threads : Lives(u) /\ Lives(v) => u = v)'
  BY DEF HfInv
<1>1. \A v \in HF!Threads : v # t => ~Lives(v) /\ ~Lives(v)'
  BY DEF HfInv, Lives
<1>2. \A v \in HF!Threads : v # t => thread'[v].at # "born"
  BY <1>1 DEF Lives
<1> QED  BY <1>1, <1>2 DEF HfInv

LEMMA FindsSlots ==
  ASSUME NEW r, NEW f \in HF!Finds(r)
  PROVE  f[1] \in {"take", "mark", "full"} /\ f[2] \in Slots \cup {None}
<1>1. CASE f \in {"mark"} \X HF!SlotsOf(r) \/ f \in {"take"} \X HF!SlotsOf(None)
  BY <1>1 DEF HF!SlotsOf
<1>2. CASE f = <<"full", None>>
  BY <1>2
<1> QED  BY <1>1, <1>2 DEF HF!Finds

LEMMA HfTypesKept ==
  ASSUME HfTypes, HF!Next
  PROVE  HfTypes'
<1>1. ASSUME NEW call \in HF!Sent \cup {"open", "abort"}, NEW r \in Requests \cup {None},
             HF!Call(call, r)
      PROVE  HfTypes'
  <2>1. /\ emu' = [emu EXCEPT !.at = "start", !.call = call, !.req = r]
        /\ call \in HF!Sent => r \in Requests
    BY <1>1 DEF HF!Call, HF!Sent
  <2> QED  BY ZenonT(30), <1>1, <2>1 DEF HfTypes, HF!Call, HfCalls
<1>2. CASE HF!Close
  BY SMTT(30), <1>2 DEF HfTypes, HF!Close
<1>3. CASE HF!DiskChange
  BY <1>3 DEF HfTypes, HF!DiskChange, HF!Goto, HfCalls
<1>4. CASE HF!Running
  BY <1>4 DEF HfTypes, HF!Running, HF!Goto, HfCalls
<1>5. CASE HF!Start
  <2>1. PICK t \in HF!Threads : thread' = [thread EXCEPT ![t].at = "born"]
    BY <1>5 DEF HF!Start
  <2>2. thread' \in [HF!Threads ->
                      [at : HfPlaces,
                       req : Requests \cup {None, HF!Die}, slot : Slots \cup {None}]]
    BY <2>1 DEF HfTypes, HfPlaces
  <2>3. /\ emu' = [emu EXCEPT !.at = "sync"] /\ emu.at = "start"
        /\ unit' = [unit EXCEPT !.sync = 0] /\ requests' = <<>>
    BY <1>5 DEF HF!Start, HF!WaitForStart, HF!Goto
  <2>4. /\ emu'.at = "sync" /\ emu'.call = emu.call /\ emu'.req = emu.req
        /\ emu' \in [at : HfCalls \cup {"68k", "change", "cause"},
                     call : HF!Sent \cup {"none", "open", "abort"}, req : Requests \cup {None},
                     slot : Slots \cup {None}, todo : SUBSET Slots]
    BY <2>3 DEF HfTypes, HfCalls
  <2>5. emu'.call \in HF!Sent => emu'.req \in Requests
    BY <2>3, <2>4 DEF HfTypes, HfCalls
  <2>6. unit' \in [running : BOOLEAN, sync : Nat, opens : {0, 1}, change : Nat]
    BY <2>3 DEF HfTypes
  <2>7. requests' \in Seq(Requests \cup {HF!Die})
    BY <2>3
  <2> QED  BY <2>2, <2>4, <2>5, <2>6, <2>7 DEF HfTypes
<1>6. CASE HF!Started
  BY SMTT(30), <1>6 DEF HfTypes, HF!Started, HF!In68k, HfCalls
<1>7. CASE HF!Open
  BY <1>7 DEF HfTypes, HF!Open, HF!In68k, HfCalls
<1>8. CASE HF!BeginIO
  <2>1. emu.req \in Requests
    BY <1>8 DEF HfTypes, HF!BeginIO, HfCalls
  <2> QED  BY <1>8, <2>1 DEF HfTypes, HF!BeginIO, HF!In68k, HfCalls
<1>16. CASE HF!Find
  <2>1. PICK f \in HF!Finds(emu.req) : emu' = [emu EXCEPT !.at = f[1], !.slot = f[2]]
    BY <1>16 DEF HF!Find
  <2>2. f[1] \in {"take", "mark", "full"} /\ f[2] \in Slots \cup {None}
    BY FindsSlots
  <2>3. PICK at \in {"take", "mark", "full"}, s \in Slots \cup {None} :
          emu' = [emu EXCEPT !.at = at, !.slot = s]
    BY <2>1, <2>2
  <2> QED  BY ZenonT(30), <1>16, <2>3 DEF HfTypes, HF!Find, HfCalls
<1>17. CASE HF!TakeSlot
  BY <1>17 DEF HfTypes, HfPlaces, HF!TakeSlot, HF!Goto, HfCalls
<1>18. CASE HF!MarkSlot
  BY <1>18 DEF HfTypes, HF!MarkSlot, HF!Goto, HfCalls
<1>9. CASE HF!AbortIO
  <2>1. CASE HF!SlotsOf(emu.req) = {}
    BY <1>9, <2>1 DEF HfTypes, HF!AbortIO, HF!In68k, HfCalls
  <2>2. CASE HF!SlotsOf(emu.req) # {}
    <3>1. PICK s : s = CHOOSE x \in HF!SlotsOf(emu.req) : TRUE
      OBVIOUS
    <3>2. s \in Slots
      BY <2>2, <3>1 DEF HF!SlotsOf
    <3> QED  BY ZenonT(30), <1>9, <2>2, <3>1, <3>2 DEF HfTypes, HF!AbortIO, HfCalls
  <2> QED  BY <2>1, <2>2
<1>10. CASE HF!Aborted
  BY <1>10 DEF HfTypes, HF!Aborted, HF!In68k, HfCalls
<1>11. CASE HF!Changing
  <2>1. PICK n \in Nat : n = unit.change - 1
    BY <1>11 DEF HfTypes, HF!Changing
  <2>2. unit' = [unit EXCEPT !.change = n]
    BY <1>11, <2>1 DEF HF!Changing
  <2>3. unit' \in [running : BOOLEAN, sync : Nat, opens : {0, 1}, change : Nat]
    BY <2>2 DEF HfTypes
  <2>4. PICK todo \in SUBSET Slots : emu' = [emu EXCEPT !.at = "cause", !.todo = todo]
    BY <1>11 DEF HF!Changing
  <2>5. /\ emu'.at = "cause"
        /\ emu' \in [at : HfCalls \cup {"68k", "change", "cause"},
                     call : HF!Sent \cup {"none", "open", "abort"}, req : Requests \cup {None},
                     slot : Slots \cup {None}, todo : SUBSET Slots]
    BY <2>4 DEF HfTypes
  <2> QED  BY <1>11, <2>3, <2>5 DEF HfTypes, HF!Changing, HfCalls
<1>12. CASE HF!Cause
  <2>1. PICK s \in emu.todo : emu' = [emu EXCEPT !.todo = emu.todo \ {s}]
    BY <1>12 DEF HF!Cause
  <2>2. emu.todo \ {s} \in SUBSET Slots
    BY DEF HfTypes
  <2>3. /\ emu'.at = "cause"
        /\ emu' \in [at : HfCalls \cup {"68k", "change", "cause"},
                     call : HF!Sent \cup {"none", "open", "abort"}, req : Requests \cup {None},
                     slot : Slots \cup {None}, todo : SUBSET Slots]
    BY <1>12, <2>1, <2>2 DEF HfTypes, HF!Cause
  <2> QED  BY <1>12, <2>3 DEF HfTypes, HF!Cause, HfCalls
<1>13. CASE HF!Changed
  BY SMTT(30), <1>13 DEF HfTypes, HF!Changed, HF!In68k, HfCalls
<1>14. CASE HF!Deliver
  BY <1>14 DEF HfTypes, HF!Deliver
<1>15. ASSUME NEW t \in HF!Threads, HF!HardfileThread(t) PROVE HfTypes'
  <2>1. CASE HF!TBegin(t)
    BY ZenonT(30), <2>1 DEF HfTypes, HfPlaces, HF!TBegin, HF!TGoto
  <2>2. CASE HF!TPost(t)
    <3>1. PICK n \in Nat : n = unit.sync + 1
      BY DEF HfTypes
    <3>2. unit' = [unit EXCEPT !.sync = n] /\ thread' = [thread EXCEPT ![t].at = "read"]
      BY <2>2, <3>1 DEF HF!TPost, HF!TGoto
    <3>3. unit' \in [running : BOOLEAN, sync : Nat, opens : {0, 1}, change : Nat]
      BY <3>2 DEF HfTypes
    <3>4. thread' \in [HF!Threads ->
                        [at : HfPlaces,
                         req : Requests \cup {None, HF!Die}, slot : Slots \cup {None}]]
      BY SMTT(30), <3>2 DEF HfTypes, HfPlaces
    <3> QED  BY <2>2, <3>3, <3>4 DEF HfTypes, HF!TPost
  <2>3. CASE HF!TRead(t)
    <3>1. Head(requests) \in Requests \cup {HF!Die} /\ requests' \in Seq(Requests \cup {HF!Die})
      BY <2>3 DEF HfTypes, HfPlaces, HF!TRead
    <3> QED  BY ZenonT(30), <2>3, <3>1 DEF HfTypes, HfPlaces, HF!TRead
  <2>4. CASE HF!TLock(t)
    BY SMTT(30), <2>4 DEF HfTypes, HfPlaces, HF!TLock, HF!TGoto
  <2>5. CASE HF!TDie(t)
    BY ZenonT(30), <2>5 DEF HfTypes, HfPlaces, HF!TDie, HF!TGoto
  <2>6. CASE HF!TDead(t)
    <3>1. PICK m \in Nat, n \in Nat : m = unit.sync + 1 /\ n = unit.change + 1
      BY DEF HfTypes
    <3>2. unit' = [unit EXCEPT !.sync = m, !.change = n]
      BY <2>6, <3>1 DEF HF!TDead
    <3>3. unit' \in [running : BOOLEAN, sync : Nat, opens : {0, 1}, change : Nat]
      BY <3>2 DEF HfTypes
    <3> QED  BY SMTT(30), <2>6, <3>3 DEF HfTypes, HfPlaces, HF!TDead, HF!Nowhere
  <2>7. CASE HF!TListen(t)
    <3>1. PICK x \in [at : HfPlaces, req : Requests \cup {None, HF!Die}, slot : Slots \cup {None}] :
            x = [HF!Nowhere EXCEPT !.at = "read"]
      BY DEF HfPlaces, HF!Nowhere
    <3>2. thread' = [thread EXCEPT ![t] = x]
      BY <2>7, <3>1 DEF HF!TListen
    <3>3. PICK n \in Nat : n = unit.change + 1
      BY DEF HfTypes
    <3>4. unit' = [unit EXCEPT !.change = n]
      BY <2>7, <3>3 DEF HF!TListen, HF!PostChange
    <3>5. unit' \in [running : BOOLEAN, sync : Nat, opens : {0, 1}, change : Nat]
      BY SMTT(30), <3>4 DEF HfTypes
    <3> QED  BY SMTT(30), <2>7, <3>2, <3>5 DEF HfTypes, HF!TListen
  <2>11. CASE HF!TFind(t)
    <3>1. PICK f \in HF!Finds(thread[t].req) :
            thread' = [thread EXCEPT ![t] = [thread[t] EXCEPT !.at = f[1], !.slot = f[2]]]
      BY <2>11 DEF HF!TFind
    <3>2. f[1] \in HfPlaces /\ f[2] \in Slots \cup {None}
      BY FindsSlots DEF HfPlaces
    <3>3. PICK x \in [at : HfPlaces, req : Requests \cup {None, HF!Die}, slot : Slots \cup {None}] :
            x = thread[t]
      BY DEF HfTypes
    <3>4. [thread[t] EXCEPT !.at = f[1], !.slot = f[2]] \in
            [at : HfPlaces, req : Requests \cup {None, HF!Die}, slot : Slots \cup {None}]
      BY <3>2, <3>3
    <3> QED  BY SMTT(30), <2>11, <3>1, <3>4 DEF HfTypes, HF!TFind
  <2>12. CASE HF!TTakeSlot(t)
    BY SMTT(30), <2>12 DEF HfTypes, HfPlaces, HF!TTakeSlot, HF!TGoto
  <2>8. CASE HF!TRelease(t)
    <3>1. CASE HF!SlotsOf(thread[t].req) = {}
      BY SMTT(30), <2>8, <3>1 DEF HfTypes, HfPlaces, HF!TRelease, HF!TGoto
    <3>2. CASE HF!SlotsOf(thread[t].req) # {}
      <4>1. PICK s : s = CHOOSE x \in HF!SlotsOf(thread[t].req) : TRUE
        OBVIOUS
      <4>2. s \in Slots
        BY <3>2, <4>1 DEF HF!SlotsOf
      <4>3. thread' = [thread EXCEPT ![t] = [thread[t] EXCEPT !.at = "type", !.slot = s]]
        BY <2>8, <3>2, <4>1 DEF HF!TRelease
      <4>4. [thread[t] EXCEPT !.at = "type", !.slot = s] \in
              [at : HfPlaces,
               req : Requests \cup {None, HF!Die}, slot : Slots \cup {None}]
        <5>1. PICK x \in [at : HfPlaces,
                          req : Requests \cup {None, HF!Die}, slot : Slots \cup {None}] :
                x = thread[t]
          BY DEF HfTypes
        <5> QED  BY <4>2, <5>1 DEF HfPlaces
      <4> QED  BY SMTT(30), <2>8, <4>3, <4>4 DEF HfTypes, HF!TRelease
    <3> QED  BY <3>1, <3>2
  <2>9. CASE HF!TReleaseType(t)
    <3>1. thread' = [thread EXCEPT ![t].at = "reply"] /\ emu' = emu /\ unit' = unit
          /\ requests' = requests
      BY <2>9 DEF HF!TReleaseType, HF!TGoto
    <3>2. thread' \in [HF!Threads -> [at : HfPlaces, req : Requests \cup {None, HF!Die},
                                     slot : Slots \cup {None}]]
      BY SMTT(30), <3>1 DEF HfTypes, HfPlaces
    <3> QED  BY <3>1, <3>2 DEF HfTypes
  <2>10. CASE HF!TReply(t)
    <3>1. PICK x \in [at : HfPlaces, req : Requests \cup {None, HF!Die}, slot : Slots \cup {None}] :
            x = [HF!Nowhere EXCEPT !.at = "read"]
      BY DEF HfPlaces, HF!Nowhere
    <3>2. thread' = [thread EXCEPT ![t] = x]
      BY <2>10, <3>1 DEF HF!TReply
    <3>3. PICK n \in Nat : n = unit.change + 1
      BY DEF HfTypes
    <3>4. unit' = [unit EXCEPT !.change = n]
      BY <2>10, <3>3 DEF HF!TReply, HF!PostChange
    <3>5. unit' \in [running : BOOLEAN, sync : Nat, opens : {0, 1}, change : Nat]
      BY SMTT(30), <3>4 DEF HfTypes
    <3> QED  BY SMTT(30), <2>10, <3>2, <3>5 DEF HfTypes, HF!TReply
  <2> QED  BY <1>15, <2>1, <2>2, <2>3, <2>4, <2>5, <2>6, <2>7, <2>8, <2>9, <2>10, <2>11, <2>12
           DEF HF!HardfileThread
<1> QED  BY <1>1, <1>2, <1>3, <1>4, <1>5, <1>6, <1>7, <1>8, <1>9, <1>10, <1>11, <1>12, <1>13,
            <1>14, <1>15, <1>16, <1>17, <1>18 DEF HF!Next, HF!Emulation

LEMMA HfNextKeeps ==
  ASSUME HfInv, HF!Next
  PROVE  HfInv'
<1>0. HfTypes' /\ HfTypes
  BY HfTypesKept DEF HfInv
<1>a. None # HF!Die
  BY StorageAssumption DEF HF!HardfileAssumption
<1>1. ASSUME NEW call \in HF!Sent \cup {"open", "abort"}, NEW r \in Requests \cup {None},
             HF!Call(call, r)
      PROVE  HfInv'
  <2>1. HF!Dying' <=> HF!Dying
    BY <1>1 DEF HF!Call, HF!Dying, HF!ghosts
  <2>2. /\ emu.at = "68k" /\ thread' = thread /\ unit' = unit
        /\ hurried' = (hurried \/ HF!Dying)
    BY <1>1 DEF HF!Call
  <2> QED  BY <1>0, <2>1, <2>2, EmulationKeeps
<1>2. CASE HF!Close
  <2>1. emu' = emu /\ emu.at = "68k" /\ thread' = thread /\ hurried' = hurried
        /\ unit'.running = unit.running
    BY <1>0, <1>2 DEF HF!Close, HF!ghosts, HfTypes
  <2> QED  BY <1>0, <2>1, EmulationKeeps DEF HfCalls
<1>3. CASE HF!DiskChange
  <2>1. emu.at = "68k" /\ emu'.at = "change" /\ thread' = thread /\ hurried' = hurried
        /\ unit' = unit
    BY <1>0, <1>3 DEF HF!DiskChange, HF!ghosts, HF!Goto, HfTypes
  <2> QED  BY <1>0, <2>1, EmulationKeeps DEF HfCalls
<1>4. CASE HF!Running
  <2>1. emu.at = "start" /\ emu'.at = "call" /\ thread' = thread /\ hurried' = hurried
        /\ unit' = unit /\ requests' = requests
    BY <1>0, <1>4 DEF HF!Running, HF!ghosts, HF!Goto, HfTypes
  <2>2. ~hurried' => ~HF!Dying'
    BY <2>1 DEF HfInv, HF!Dying, HfCalls
  <2> QED  BY <1>0, <2>1, <2>2, EmulationKeeps
<1>5. CASE HF!Start
  <2>1. PICK t \in HF!Threads : thread[t].at = "none" /\ thread' = [thread EXCEPT ![t].at = "born"]
    BY <1>5 DEF HF!Start
  <2>2. /\ emu.at = "start" /\ emu'.at = "sync" /\ ~unit.running /\ unit'.running = unit.running
        /\ unit'.sync = 0 /\ requests' = <<>> /\ hurried' = hurried
    BY <1>0, <1>5 DEF HF!Start, HF!ghosts, HF!WaitForStart, HF!Goto, HfTypes
  <2>3. /\ \A u \in HF!Threads : u # t => thread'[u] = thread[u]
        /\ thread'[t].at = "born" /\ thread'[t].req = thread[t].req
    BY <1>0, <2>1 DEF HfTypes
  <2> SUFFICES ASSUME ~hurried
               PROVE  HfInv'
    BY <1>0, <2>2 DEF HfInv
  <2>4. ~HF!Dying
    BY <2>2 DEF HfInv, HfCalls
  <2>5. ~HF!Dying'
    BY <2>2, <2>3, <2>4 DEF HF!Dying
  <2>6. \A u \in HF!Threads : ~Lives(u)
    <3> SUFFICES ASSUME NEW u \in HF!Threads, Lives(u) PROVE FALSE
      OBVIOUS
    <3> QED  BY <2>2 DEF HfInv
  <2>7. \A u \in HF!Threads : u # t => ~Lives(u)' /\ thread'[u].at # "born"
    BY <2>3, <2>6 DEF Lives
  <2> QED  BY <1>0, <2>2, <2>3, <2>5, <2>7 DEF HfInv
<1>6. CASE HF!Started
  <2>1. emu.at = "sync" /\ unit.sync > 0 /\ thread' = thread /\ hurried' = hurried
        /\ unit'.running = unit.running /\ requests' = requests
    BY <1>0, <1>6 DEF HF!Started, HF!ghosts, HfTypes
  <2>2. ~hurried' => ~HF!Dying'
    BY <2>1 DEF HfInv, HF!Dying, HfCalls
  <2>3. unit.sync # 0
    BY <1>0, <2>1 DEF HfTypes
  <2> QED  BY <1>0, <2>1, <2>2, <2>3, EmulationKeeps
<1>7. CASE HF!Open
  <2>1. emu.at = "call" /\ emu'.at = "68k" /\ thread' = thread /\ hurried' = hurried
        /\ unit'.running = unit.running
    BY <1>0, <1>7 DEF HF!Open, HF!ghosts, HF!In68k, HfTypes
  <2> QED  BY <1>0, <2>1, EmulationKeeps DEF HfCalls
<1>8. CASE HF!BeginIO
  <2>1. emu.at # "sync" /\ emu'.at = "68k" /\ thread' = thread /\ hurried' = hurried
        /\ unit' = unit
    BY <1>0, <1>8 DEF HF!BeginIO, HF!In68k, HfTypes, HF!ghosts
  <2> QED  BY <1>0, <2>1, EmulationKeeps DEF HfCalls
<1>16. CASE HF!Find \/ HF!TakeSlot \/ HF!MarkSlot
  <2>1. emu.at \in {"call", "take", "mark"} /\ thread' = thread /\ hurried' = hurried /\ unit' = unit
        /\ requests' = requests
    BY <1>0, <1>16 DEF HF!Find, HF!TakeSlot, HF!MarkSlot, HfTypes, HF!ghosts
  <2>2. ~hurried' => ~HF!Dying'
    BY <2>1 DEF HfInv, HF!Dying, HfCalls
  <2> QED  BY <1>0, <2>1, <2>2, EmulationKeeps
<1>9. CASE HF!AbortIO
  <2>1. emu.at = "call" /\ thread' = thread /\ hurried' = hurried /\ unit' = unit
        /\ requests' = requests
    BY <1>0, <1>9 DEF HF!AbortIO, HF!ghosts, HfTypes
  <2>2. ~hurried' => ~HF!Dying'
    BY <2>1 DEF HfInv, HF!Dying, HfCalls
  <2> QED  BY <1>0, <2>1, <2>2, EmulationKeeps
<1>10. CASE HF!Aborted
  <2>1. emu.at = "release" /\ emu'.at = "68k" /\ thread' = thread /\ hurried' = hurried
        /\ unit' = unit
    BY <1>0, <1>10 DEF HF!Aborted, HF!ghosts, HF!In68k, HfTypes
  <2> QED  BY <1>0, <2>1, EmulationKeeps DEF HfCalls
<1>11. CASE HF!Changing
  <2>1. emu.at = "change" /\ emu'.at = "cause" /\ thread' = thread /\ hurried' = hurried
        /\ unit'.running = unit.running
    BY <1>0, <1>11 DEF HF!Changing, HF!ghosts, HfTypes
  <2> QED  BY <1>0, <2>1, EmulationKeeps DEF HfCalls
<1>12. CASE HF!Cause
  <2>1. emu.at = "cause" /\ emu'.at = "cause" /\ thread' = thread /\ hurried' = hurried
        /\ unit' = unit
    BY <1>0, <1>12 DEF HF!Cause, HF!ghosts, HfTypes
  <2> QED  BY <1>0, <2>1, EmulationKeeps DEF HfCalls
<1>13. CASE HF!Changed
  <2>1. emu.at = "cause" /\ emu'.at = "68k" /\ thread' = thread /\ hurried' = hurried
        /\ unit'.running = unit.running
    BY <1>0, <1>13 DEF HF!Changed, HF!ghosts, HF!In68k, HfTypes
  <2> QED  BY <1>0, <2>1, EmulationKeeps DEF HfCalls
<1>14. CASE HF!Deliver
  <2>1. emu.at = "68k" /\ emu' = emu /\ thread' = thread /\ hurried' = hurried
        /\ unit' = unit
    BY <1>0, <1>14 DEF HF!Deliver, HF!ghosts, HfTypes
  <2> QED  BY <1>0, <2>1, EmulationKeeps DEF HfCalls
<1>15. ASSUME NEW t \in HF!Threads, HF!HardfileThread(t) PROVE HfInv'
  <2>1. CASE HF!TBegin(t)
    <3>1. /\ thread[t].at = "born" /\ thread'[t].at = "post" /\ thread'[t].req = thread[t].req
          /\ \A u \in HF!Threads : u # t => thread'[u] = thread[u]
          /\ emu' = emu /\ hurried' = hurried /\ requests' = requests /\ unit'.running
      BY <1>0, <2>1 DEF HF!TBegin, HF!ghosts, HF!TGoto, HfTypes
    <3>2. HF!Dying' => HF!Dying
      BY <3>1 DEF HF!Dying
    <3> QED  BY <1>0, <3>1, <3>2, ThreadKeeps DEF Lives
  <2>2. CASE HF!TPost(t)
    <3>1. /\ thread[t].at = "post" /\ thread'[t].at = "read" /\ thread'[t].req = thread[t].req
          /\ \A u \in HF!Threads : u # t => thread'[u] = thread[u]
          /\ emu' = emu /\ hurried' = hurried /\ requests' = requests
          /\ unit'.running = unit.running
      BY <1>0, <2>2 DEF HF!TPost, HF!ghosts, HF!TGoto, HfTypes
    <3>2. HF!Dying' => HF!Dying
      BY <3>1 DEF HF!Dying
    <3>3. ~hurried => unit.running
      BY <3>1 DEF HfInv, Lives
    <3> QED  BY <1>0, <3>1, <3>2, <3>3, ThreadKeeps DEF Lives
  <2>3. CASE HF!TRead(t)
    <3>1. /\ thread[t].at = "read" /\ thread'[t].at = "lock" /\ thread'[t].req = Head(requests)
          /\ \A u \in HF!Threads : u # t => thread'[u] = thread[u]
          /\ emu' = emu /\ hurried' = hurried /\ unit' = unit
      BY <1>0, <2>3 DEF HF!TRead, HF!ghosts, HfTypes
    <3>2. requests # <<>> /\ requests' = Tail(requests) /\ requests \in Seq(Requests \cup {HF!Die})
      BY <1>0, <2>3 DEF HF!TRead, HF!ghosts, HfTypes
    <3>3. ASSUME HF!Dying' PROVE HF!Dying
      <4>1. CASE \E i \in DOMAIN requests' : requests'[i] = HF!Die
        <5>1. PICK i \in DOMAIN requests' : requests'[i] = HF!Die
          BY <4>1
        <5>2. i + 1 \in DOMAIN requests /\ requests[i + 1] = HF!Die
          BY <3>2, <5>1
        <5> QED  BY <5>2 DEF HF!Dying
      <4>2. CASE \E u \in HF!Threads : thread'[u].req = HF!Die
        <5>1. CASE thread'[t].req = HF!Die
          <6>1. 1 \in DOMAIN requests /\ requests[1] = HF!Die
            BY <3>1, <3>2, <5>1
          <6> QED  BY <6>1 DEF HF!Dying
        <5>2. CASE thread'[t].req # HF!Die
          BY <3>1, <4>2, <5>2 DEF HF!Dying
        <5> QED  BY <5>1, <5>2
      <4> QED  BY <3>3, <4>1, <4>2 DEF HF!Dying
    <3>4. ~hurried => unit.running
      BY <3>1 DEF HfInv, Lives
    <3> QED  BY <1>0, <3>1, <3>3, <3>4, ThreadKeeps DEF Lives
  <2>4. CASE HF!TLock(t)
    <3>1. /\ thread[t].at = "lock" /\ thread'[t].req = thread[t].req
          /\ thread'[t].at \in {"die", "do"}
          /\ thread'[t].at = "die" => thread[t].req = HF!Die
          /\ \A u \in HF!Threads : u # t => thread'[u] = thread[u]
          /\ emu' = emu /\ hurried' = hurried /\ requests' = requests
          /\ unit'.running = unit.running
      BY <1>0, <2>4 DEF HF!TLock, HF!ghosts, HF!TGoto, HfTypes
    <3>2. HF!Dying' => HF!Dying
      BY <3>1 DEF HF!Dying
    <3>3. ~hurried => unit.running
      BY <3>1 DEF HfInv, Lives
    <3> QED  BY <1>0, <3>1, <3>2, <3>3, ThreadKeeps DEF Lives
  <2>5. CASE HF!TDie(t)
    <3>1. /\ thread[t].at = "die" /\ thread'[t].at = "dead" /\ thread'[t].req = thread[t].req
          /\ \A u \in HF!Threads : u # t => thread'[u] = thread[u]
          /\ emu' = emu /\ hurried' = hurried /\ requests' = requests
      BY <1>0, <2>5 DEF HF!TDie, HF!ghosts, HF!TGoto, HfTypes
    <3>2. HF!Dying' => HF!Dying
      BY <3>1 DEF HF!Dying
    <3>3. ~hurried => thread[t].req = HF!Die
      BY <3>1 DEF HfInv
    <3> QED  BY <1>0, <3>1, <3>2, <3>3, ThreadKeeps DEF Lives
  <2>6. CASE HF!TDead(t)
    <3>1. /\ thread[t].at = "dead" /\ thread'[t].at = "none" /\ thread'[t].req = None
          /\ \A u \in HF!Threads : u # t => thread'[u] = thread[u]
          /\ emu' = emu /\ hurried' = hurried /\ requests' = requests
          /\ unit'.running = unit.running
      BY <1>0, <2>6 DEF HF!TDead, HF!ghosts, HF!Nowhere, HfTypes
    <3> SUFFICES ASSUME ~hurried
                 PROVE  HfInv'
      BY <1>0, <3>1 DEF HfInv
    <3>2. HF!Dying' => HF!Dying
      BY <1>a, <3>1 DEF HF!Dying
    <3>3. HF!Dying
      BY <3>1 DEF HfInv, HF!Dying
    <3>4. \A u \in HF!Threads : thread[u].at # "born"
      BY <3>3 DEF HfInv, HfCalls
    <3>5. ~Lives(t)' /\ \A u \in HF!Threads : u # t => (Lives(u)' <=> Lives(u))
      BY <3>1 DEF Lives
    <3> QED  BY <1>0, <3>1, <3>2, <3>4, <3>5 DEF HfInv
  <2>7. CASE HF!TListen(t)
    <3>1. /\ thread[t].at = "mark" /\ thread'[t].at = "read" /\ thread'[t].req = None
          /\ \A u \in HF!Threads : u # t => thread'[u] = thread[u]
          /\ emu' = emu /\ hurried' = hurried /\ requests' = requests
          /\ unit'.running = unit.running
      BY <1>0, <2>7 DEF HF!TListen, HF!ghosts, HF!Nowhere, HF!PostChange, HfTypes
    <3>2. HF!Dying' => HF!Dying
      BY <1>a, <3>1 DEF HF!Dying
    <3>3. ~hurried => unit.running
      BY <3>1 DEF HfInv, Lives
    <3> QED  BY <1>0, <3>1, <3>2, <3>3, ThreadKeeps DEF Lives
  <2>11. CASE HF!TFind(t) \/ HF!TTakeSlot(t)
    <3>1. /\ thread[t].at \in {"do", "take"} /\ thread'[t].at \in {"take", "mark", "full"}
          /\ thread'[t].req = thread[t].req
          /\ \A u \in HF!Threads : u # t => thread'[u] = thread[u]
          /\ emu' = emu /\ hurried' = hurried /\ requests' = requests /\ unit' = unit
      <4>1. CASE HF!TFind(t)
        <5>1. PICK f \in HF!Finds(thread[t].req) :
                thread' = [thread EXCEPT ![t] = [thread[t] EXCEPT !.at = f[1], !.slot = f[2]]]
          BY <4>1 DEF HF!TFind
        <5>2. f[1] \in {"take", "mark", "full"}
          BY FindsSlots
        <5> QED  BY <1>0, <4>1, <5>1, <5>2 DEF HF!TFind, HF!ghosts, HfTypes
      <4>2. CASE HF!TTakeSlot(t)
        BY <1>0, <4>2 DEF HF!TTakeSlot, HF!ghosts, HF!TGoto, HfTypes
      <4> QED  BY <2>11, <4>1, <4>2
    <3>2. HF!Dying' => HF!Dying
      BY <3>1 DEF HF!Dying
    <3>3. ~hurried => unit.running
      BY <3>1 DEF HfInv, Lives
    <3> QED  BY <1>0, <3>1, <3>2, <3>3, ThreadKeeps DEF Lives
  <2>8. CASE HF!TRelease(t)
    <3>1. /\ thread[t].at \in {"do", "full"} /\ thread'[t].at \in {"type", "reply"}
          /\ thread'[t].req = thread[t].req
          /\ \A u \in HF!Threads : u # t => thread'[u] = thread[u]
          /\ emu' = emu /\ hurried' = hurried /\ requests' = requests /\ unit' = unit
      <4>1. CASE HF!SlotsOf(thread[t].req) = {}
        BY <1>0, <2>8, <4>1 DEF HF!TRelease, HF!ghosts, HF!TGoto, HfTypes
      <4>2. CASE HF!SlotsOf(thread[t].req) # {}
        <5>1. PICK s : s = CHOOSE x \in HF!SlotsOf(thread[t].req) : TRUE
          OBVIOUS
        <5>2. thread' = [thread EXCEPT ![t] = [thread[t] EXCEPT !.at = "type", !.slot = s]]
          BY <2>8, <4>2, <5>1 DEF HF!TRelease
        <5> QED  BY <1>0, <2>8, <5>2 DEF HF!TRelease, HF!ghosts, HfTypes
      <4> QED  BY <4>1, <4>2
    <3>2. HF!Dying' => HF!Dying
      BY <3>1 DEF HF!Dying
    <3>3. ~hurried => unit.running
      BY <3>1 DEF HfInv, Lives
    <3> QED  BY <1>0, <3>1, <3>2, <3>3, ThreadKeeps DEF Lives
  <2>9. CASE HF!TReleaseType(t)
    <3>1. /\ thread[t].at = "type" /\ thread'[t].at = "reply"
          /\ thread'[t].req = thread[t].req
          /\ \A u \in HF!Threads : u # t => thread'[u] = thread[u]
          /\ emu' = emu /\ hurried' = hurried /\ requests' = requests /\ unit' = unit
      BY <1>0, <2>9 DEF HF!TReleaseType, HF!ghosts, HF!TGoto, HfTypes
    <3>2. HF!Dying' => HF!Dying
      BY <3>1 DEF HF!Dying
    <3>3. ~hurried => unit.running
      BY <3>1 DEF HfInv, Lives
    <3> QED  BY <1>0, <3>1, <3>2, <3>3, ThreadKeeps DEF Lives
  <2>10. CASE HF!TReply(t)
    <3>1. /\ thread[t].at = "reply" /\ thread'[t].at = "read" /\ thread'[t].req = None
          /\ \A u \in HF!Threads : u # t => thread'[u] = thread[u]
          /\ emu' = emu /\ hurried' = hurried /\ requests' = requests
          /\ unit'.running = unit.running
      BY <1>0, <2>10 DEF HF!TReply, HF!ghosts, HF!Nowhere, HF!PostChange, HfTypes
    <3>2. HF!Dying' => HF!Dying
      BY <1>a, <3>1 DEF HF!Dying
    <3>3. ~hurried => unit.running
      BY <3>1 DEF HfInv, Lives
    <3> QED  BY <1>0, <3>1, <3>2, <3>3, ThreadKeeps DEF Lives
  <2> QED  BY <1>15, <2>1, <2>2, <2>3, <2>4, <2>5, <2>6, <2>7, <2>8, <2>9, <2>10, <2>11
           DEF HF!HardfileThread
<1> QED  BY <1>1, <1>2, <1>3, <1>4, <1>5, <1>6, <1>7, <1>8, <1>9, <1>10, <1>11, <1>12, <1>13,
            <1>14, <1>15, <1>16 DEF HF!Next, HF!Emulation

(* hardfile_close only writes a 0 and start_thread looks at thread_running:   *)
(* as long as no call is made between a close and the last post of the old    *)
(* thread, at most one thread reads the pipe, whatever the two threads do to  *)
(* the table.                                                                *)
THEOREM PipeHasOneReader == StorageSpec => []OneReader
<1>1. StorageInit => HfInv
  <2> SUFFICES ASSUME StorageInit PROVE HfInv
    OBVIOUS
  <2>1. HF!Init
    BY DEF StorageInit
  <2>2. HfTypes
    BY <2>1 DEF HfTypes, HfPlaces, HF!Init, HF!In68k, HF!Nowhere, HF!Sent, HfCalls
  <2> QED  BY <2>1, <2>2 DEF HfInv, HF!Init, HF!In68k, HF!Nowhere, Lives, HfCalls
<1>2. HfInv /\ [StorageNext]_allvars => HfInv'
  <2> SUFFICES ASSUME HfInv, [StorageNext]_allvars PROVE HfInv'
    OBVIOUS
  <2>1. CASE HF!Next
    BY <2>1, HfNextKeeps
  <2>2. CASE UNCHANGED hfvars
    <3>1. emu' = emu /\ unit' = unit /\ requests' = requests /\ thread' = thread
          /\ hurried' = hurried
      BY <2>2 DEF hfvars
    <3>2. HfTypes'
      BY <3>1 DEF HfInv, HfTypes
    <3> QED  BY <3>1, <3>2 DEF HfInv, HF!Dying, Lives
  <2> QED  BY <2>1, <2>2 DEF StorageNext, Hardfile, Locks, Cd, allvars
<1>3. HfInv => OneReader
  <2> SUFFICES ASSUME HfInv, ~hurried
               PROVE  HF!Cardinality(HF!Alive) <= 1
    BY DEF OneReader, HF!OneReader
  <2>1. Cardinality(HF!Alive) <= 1
    <3>1. CASE HF!Alive = {}
      BY <3>1, FS_EmptySet
    <3>2. CASE HF!Alive # {}
      <4>1. PICK t : t \in HF!Alive
        BY <3>2
      <4>2. HF!Alive = {t}
        BY <4>1 DEF HfInv, HF!Alive, Lives
      <4> QED  BY <4>2, FS_Singleton
    <3> QED  BY <3>1, <3>2
  <2> QED  BY <2>1 DEF HF!Cardinality, Cardinality
<1> QED  BY <1>1, <1>2, <1>3, PTL DEF StorageSpec

-----------------------------------------------------------------------------
(* The CD reader: every step keeps CdInv                                     *)

LEMMA CdConstants ==
  /\ Size \in Nat \ {0} /\ Tries \in Nat \ {0} /\ Seeks \subseteq Nat /\ None \notin Nat
  /\ CD!Empty = 0 /\ CD!Asked = Tries + 1
  /\ CD!Offsets = 0 .. Size - 1
BY StorageAssumption DEF CD!AkikoAssumption, CD!Empty, CD!Asked, CD!Offsets

(* A step of the emulation thread that leaves the buffers alone.             *)
LEMMA CdEmulationKeeps ==
  ASSUME CdInv, CdTypes', buffer' = buffer, cdthread' = cdthread, ReaderOK', StopOK'
  PROVE  CdInv'
BY DEF CdInv, BuffersOK, Sound, CD!MidSwap

(* Freshly allocated buffers.                                                *)
LEMMA FreshIsSound ==
  ASSUME NEW info \in {CD!Empty, CD!Asked}
  PROVE  /\ CD!Fresh(info) \in [sector : Sectors, info : [CD!Offsets -> Infos],
                                data : [CD!Offsets -> Sectors]]
         /\ CD!Fresh(info).sector = None
         /\ CD!Fresh(info).info = [o \in CD!Offsets |-> info]
         /\ CD!Fresh(info).data = [o \in CD!Offsets |-> None]
         /\ Sound(CD!Fresh(info).sector, CD!Fresh(info).info, CD!Fresh(info).data)
<1>1. info \in Infos /\ info \notin 1 .. Tries /\ None \in Sectors
  BY CdConstants DEF Infos, Sectors
<1>2. /\ CD!Fresh(info).sector = None
      /\ CD!Fresh(info).info = [o \in CD!Offsets |-> info]
      /\ CD!Fresh(info).data = [o \in CD!Offsets |-> None]
  BY DEF CD!Fresh
<1>3. CD!Fresh(info) \in [sector : Sectors, info : [CD!Offsets -> Infos],
                          data : [CD!Offsets -> Sectors]]
  BY <1>1 DEF CD!Fresh
<1> QED  BY <1>1, <1>2, <1>3 DEF Sound

LEMMA CdEmulation ==
  ASSUME CdInv,
         \/ \E s \in Seeks : CD!Seek(s)
         \/ CD!Access \/ CD!RunRead \/ CD!Reset \/ CD!Accessed \/ CD!ReadInfo \/ CD!ReadData
         \/ CD!Stopped
  PROVE  CdInv'
<1>0. CdTypes /\ ReaderOK /\ StopOK
  BY DEF CdInv
<1>1. ASSUME NEW s \in Seeks, CD!Seek(s) PROVE CdInv'
  <2>1. CdTypes' /\ ReaderOK' /\ StopOK'
    BY <1>0, <1>1, CdConstants DEF CD!Seek, CdTypes, ReaderOK, StopOK, Sectors, CD!Reading
  <2> QED  BY <1>1, <2>1, CdEmulationKeeps DEF CD!Seek
<1>2. CASE CD!Access
  <2>1. CdTypes' /\ ReaderOK' /\ StopOK'
    BY <1>0, <1>2 DEF CD!Access, CD!Goto, CD!cd, CdTypes, ReaderOK, StopOK, CD!Reading
  <2> QED  BY <1>2, <2>1, CdEmulationKeeps DEF CD!Access
<1>3. CASE CD!RunRead
  <2>1. wanted \in Nat /\ buffer[1].sector \in Sectors
    BY <1>0, <1>3 DEF CD!RunRead, CdTypes, Sectors
  <2>2. CASE buffer[1].sector # None
             /\ wanted \in buffer[1].sector .. buffer[1].sector + Size - 1
    <3>1. PICK sec \in Nat : sec = wanted - buffer[1].sector
      BY <2>1, <2>2, CdConstants DEF Sectors
    <3>2. sec \in CD!Offsets /\ wanted = buffer[1].sector + sec /\ buffer[1].sector \in Nat
      BY <2>1, <2>2, <3>1, CdConstants DEF Sectors
    <3>3. cdemu' = [at |-> "info", sec |-> sec, got |-> None]
      <4>1. cdemu' = [CD!In68k EXCEPT !.at = "info", !.sec = wanted - buffer[1].sector]
        BY <1>3, <2>2 DEF CD!RunRead
      <4> QED  BY <3>1, <4>1 DEF CD!In68k
    <3>4. torn' \in BOOLEAN /\ (CD!MidSwap => torn')
      <4>1. torn' = (CD!MidSwap /\ cdemu'.at = "info") /\ cdemu'.at = "info"
        BY <1>3, <3>3 DEF CD!RunRead
      <4> QED  BY <4>1
    <3>5. /\ wanted' = wanted /\ buffer' = buffer /\ running' = running /\ cdthread' = cdthread
          /\ current' = wanted
      BY <1>3 DEF CD!RunRead
    <3>6. CdTypes'
      BY <1>0, <2>1, <3>3, <3>4, <3>5 DEF CdTypes, Sectors
    <3>7. StopOK'
      BY <1>0, <3>3, <3>5 DEF StopOK
    <3>8. ReaderOK'
      BY <2>1, <3>2, <3>3, <3>4, <3>5 DEF CD!MidSwap, ReaderOK
    <3> QED  BY <3>5, <3>6, <3>7, <3>8, CdEmulationKeeps
  <2>3. CASE ~(buffer[1].sector # None
               /\ wanted \in buffer[1].sector .. buffer[1].sector + Size - 1)
    <3>1. cdemu' = [at |-> "68k", sec |-> 0, got |-> None]
      BY <1>3, <2>3 DEF CD!RunRead, CD!In68k
    <3>2. torn' \in BOOLEAN
      <4>1. torn' = (CD!MidSwap /\ cdemu'.at = "info")
        BY <1>3 DEF CD!RunRead
      <4> QED  BY <4>1
    <3>3. /\ wanted' = wanted /\ buffer' = buffer /\ running' = running /\ cdthread' = cdthread
          /\ current' = wanted
      BY <1>3 DEF CD!RunRead
    <3>4. None \in Sectors
      BY DEF Sectors
    <3>5. CdTypes'
      BY <1>0, <2>1, <3>1, <3>2, <3>3, <3>4 DEF CdTypes, Sectors
    <3>6. StopOK' /\ ReaderOK'
      BY <1>0, <3>1, <3>3 DEF StopOK, ReaderOK, CD!Reading
    <3> QED  BY <3>3, <3>5, <3>6, CdEmulationKeeps
  <2> QED  BY <2>2, <2>3
<1>4. CASE CD!Reset
  <2>1. CdTypes' /\ ReaderOK' /\ StopOK'
    BY <1>0, <1>4 DEF CD!Reset, CD!Goto, CdTypes, ReaderOK, StopOK, CD!Reading, Sectors
  <2> QED  BY <1>4, <2>1, CdEmulationKeeps DEF CD!Reset
<1>5. CASE CD!Accessed
  <2>1. CdTypes' /\ ReaderOK' /\ StopOK'
    BY <1>0, <1>5 DEF CD!Accessed, CD!Goto, CD!cd, CdTypes, ReaderOK, StopOK, CD!Reading
  <2> QED  BY <1>5, <2>1, CdEmulationKeeps DEF CD!Accessed
<1>6. CASE CD!ReadInfo
  <2>1. CdTypes' /\ StopOK'
    BY <1>0, <1>6 DEF CD!ReadInfo, CD!Goto, CD!cd, CdTypes, StopOK
  <2>2. ReaderOK'
    BY <1>0, <1>6, CdConstants DEF CD!ReadInfo, CD!Goto, CD!cd, CD!Info, CdTypes, ReaderOK,
                                   Infos, CD!Reading, CD!MidSwap
  <2> QED  BY <1>6, <2>1, <2>2, CdEmulationKeeps DEF CD!ReadInfo
<1>7. CASE CD!ReadData
  <2>1. cdemu.sec \in CD!Offsets /\ buffer[1].data[cdemu.sec] \in Sectors
    BY <1>0, <1>7 DEF CD!ReadData, CD!Reading, ReaderOK, CdTypes
  <2>2. CdTypes' /\ StopOK'
    BY <1>0, <1>7, <2>1 DEF CD!ReadData, CD!cd, CdTypes, StopOK
  <2>3. ~torn => buffer[1].data[cdemu.sec] = wanted
    BY <1>0, <1>7, <2>1 DEF CdInv, CD!ReadData, CD!Reading, ReaderOK, BuffersOK, Sound
  <2>4. ReaderOK'
    BY <1>0, <1>7, <2>3 DEF CD!ReadData, CD!cd, CdTypes, ReaderOK, CD!Reading, CD!MidSwap
  <2> QED  BY <1>7, <2>2, <2>4, CdEmulationKeeps DEF CD!ReadData
<1>8. CASE CD!Stopped
  <2>1. CdTypes' /\ ReaderOK' /\ StopOK'
    BY <1>0, <1>8 DEF CD!Stopped, CD!Goto, CD!ThreadEnded, CD!cd, CdTypes, ReaderOK, StopOK,
                      CD!Reading
  <2> QED  BY <1>8, <2>1, CdEmulationKeeps DEF CD!Stopped
<1> QED  BY <1>1, <1>2, <1>3, <1>4, <1>5, <1>6, <1>7, <1>8

\* sector_buffer_info_1[sec]--: no sector becomes one to be given.
LEMMA CountKeeps ==
  ASSUME CdInv, CD!Count
  PROVE  CdInv'
<1>0. CdTypes /\ ReaderOK /\ StopOK /\ BuffersOK
  BY DEF CdInv
<1>1. cdemu.sec \in CD!Offsets /\ wanted \in Nat
  BY <1>0 DEF CD!Count, ReaderOK, CD!Reading
<1>2. buffer[1].info[cdemu.sec] \in Infos
  BY <1>0, <1>1 DEF CdTypes
<1>3. PICK n \in Infos :
        /\ n = (IF buffer[1].info[cdemu.sec] = CD!Asked THEN CD!Asked
                ELSE IF buffer[1].info[cdemu.sec] = CD!Empty THEN CD!Asked
                ELSE buffer[1].info[cdemu.sec] - 1)
        /\ n \in 1 .. Tries => buffer[1].info[cdemu.sec] \in 1 .. Tries
  BY <1>2, CdConstants DEF Infos
<1>4. PICK info \in [CD!Offsets -> Infos] : info = [buffer[1].info EXCEPT ![cdemu.sec] = n]
  <2>1. buffer[1].info \in [CD!Offsets -> Infos]
    BY <1>0 DEF CdTypes
  <2>2. [buffer[1].info EXCEPT ![cdemu.sec] = n] \in [CD!Offsets -> Infos]
    BY <1>1, <1>3, <2>1
  <2> QED  BY <2>2
<1>5. \A o \in CD!Offsets : info[o] \in 1 .. Tries => buffer[1].info[o] \in 1 .. Tries
  BY <1>0, <1>1, <1>3, <1>4 DEF CdTypes
<1>6. buffer' = [buffer EXCEPT ![1] = [buffer[1] EXCEPT !.info = info]]
  BY <1>3, <1>4 DEF CD!Count
<1>7. /\ buffer'[1].info = info /\ buffer'[1].sector = buffer[1].sector
      /\ buffer'[1].data = buffer[1].data /\ buffer'[2] = buffer[2]
      /\ buffer' \in [1 .. 2 -> [sector : Sectors, info : [CD!Offsets -> Infos],
                                 data : [CD!Offsets -> Sectors]]]
  BY <1>0, <1>4, <1>6 DEF CdTypes
<1>8. CdTypes'
  <2>1. /\ cdemu' = [at |-> "68k", sec |-> 0, got |-> None] /\ torn' = FALSE
        /\ current' = current /\ running' = running
    BY DEF CD!Count, CD!In68k
  <2>2. wanted' \in Nat
    BY <1>1 DEF CD!Count
  <2> QED  BY <1>0, <1>7, <2>1, <2>2 DEF CdTypes, Sectors
<1>9. cdthread' = cdthread /\ running' = running /\ cdemu'.at = "68k" /\ torn' = FALSE
  BY DEF CD!Count, CD!In68k
<1>10. BuffersOK'
  BY <1>0, <1>5, <1>7, <1>9 DEF BuffersOK, Sound, CD!MidSwap
<1>11. ReaderOK' /\ StopOK'
  BY <1>0, <1>9 DEF ReaderOK, StopOK, CD!Reading
<1> QED  BY <1>8, <1>10, <1>11 DEF CdInv

LEMMA RestartKeeps ==
  ASSUME CdInv, CD!Restart
  PROVE  CdInv'
<1>1. PICK info \in {CD!Empty, CD!Asked} : buffer' = <<CD!Fresh(info), CD!Fresh(CD!Empty)>>
  BY DEF CD!Restart
<1>2. /\ buffer'[1] = CD!Fresh(info) /\ buffer'[2] = CD!Fresh(CD!Empty)
      /\ buffer' \in [1 .. 2 -> [sector : Sectors, info : [CD!Offsets -> Infos],
                                 data : [CD!Offsets -> Sectors]]]
  BY <1>1, FreshIsSound
<1>3. Sound(buffer'[1].sector, buffer'[1].info, buffer'[1].data)
  BY <1>2, FreshIsSound
<1>4. cdthread' = "test" /\ running' = "yes" /\ cdemu'.at = "68k" /\ wanted' = None
  BY DEF CD!Restart, CD!Goto, CdInv, CdTypes
<1>5. CdTypes'
  BY <1>2, <1>4 DEF CD!Restart, CD!Goto, CdInv, CdTypes, Sectors
<1>6. BuffersOK' /\ ReaderOK' /\ StopOK'
  BY <1>3, <1>4 DEF BuffersOK, ReaderOK, StopOK, CD!Reading, Sound
<1> QED  BY <1>5, <1>6 DEF CdInv

(* A step of the thread that leaves the buffers alone.                       *)
LEMMA CdThreadKeeps ==
  ASSUME CdInv, CdTypes', StopOK', UNCHANGED <<buffer, cdemu, wanted, torn>>,
         cdthread \notin {"swapdata", "swapsector"},
         cdthread' \notin {"fill", "swapinfo", "swapdata", "swapsector"}
  PROVE  CdInv'
<1>1. BuffersOK'
  BY DEF CdInv, BuffersOK, Sound, CD!MidSwap
<1>2. ReaderOK'
  BY DEF CdInv, ReaderOK, CD!MidSwap, CD!Reading
<1> QED  BY <1>1, <1>2 DEF CdInv

LEMMA LookKeeps ==
  ASSUME CdInv, CD!TLook
  PROVE  CdInv'
<1>0. CdTypes /\ ReaderOK /\ StopOK /\ BuffersOK
  BY DEF CdInv
<1>1. CASE ~CD!Refill
  <2>1. /\ UNCHANGED <<buffer, cdemu, wanted, current, running, torn>>
        /\ cdthread = "look" /\ cdthread' = "test"
    BY <1>1 DEF CD!TLook, CD!TUnlock, CD!cd
  <2>2. CdTypes' /\ StopOK'
    BY <1>0, <2>1 DEF CdTypes, StopOK
  <2> QED  BY <2>1, <2>2, CdThreadKeeps
<1>2. CASE CD!Refill
  <2>1. /\ UNCHANGED <<cdemu, wanted, current, running, torn>>
        /\ cdthread = "look" /\ cdthread' = "fill"
        /\ buffer' = [buffer EXCEPT ![2] = [buffer[2] EXCEPT !.sector = current]]
    BY <1>2 DEF CD!TLook, CD!cd
  <2>2. current \in Nat
    BY <1>0, <1>2 DEF CD!Refill, CdTypes, Sectors
  <2>3. /\ buffer'[1] = buffer[1] /\ buffer'[2].sector = current
        /\ buffer' \in [1 .. 2 -> [sector : Sectors, info : [CD!Offsets -> Infos],
                                   data : [CD!Offsets -> Sectors]]]
    BY <1>0, <2>1, <2>2 DEF CdTypes
  <2>4. CdTypes'
    BY <1>0, <2>1, <2>3 DEF CdTypes
  <2>5. BuffersOK'
    BY <1>0, <2>1, <2>2, <2>3 DEF BuffersOK, Sound, CD!MidSwap
  <2>6. ReaderOK' /\ StopOK'
    BY <1>0, <2>1, <2>3 DEF ReaderOK, StopOK, CD!MidSwap, CD!Reading
  <2> QED  BY <2>4, <2>5, <2>6 DEF CdInv
<1> QED  BY <1>1, <1>2

LEMMA FillKeeps ==
  ASSUME CdInv, CD!TFill
  PROVE  CdInv'
<1>0. CdTypes /\ ReaderOK /\ StopOK /\ BuffersOK
  BY DEF CdInv
<1>1. UNCHANGED <<cdemu, wanted, current, running, torn>>
      /\ cdthread = "fill" /\ cdthread' = "swapinfo"
  BY DEF CD!TFill, CD!TGoto, CD!cd
<1>2. PICK first \in Nat : first = buffer[2].sector
  BY <1>0, <1>1 DEF BuffersOK
<1>3. PICK bad \in SUBSET CD!Offsets :
        buffer' = [buffer EXCEPT
          ![2].info = [o \in CD!Offsets |->
                         CD!InfoOf(buffer[2].sector + o < DataEnd /\ o \notin bad)],
          ![2].data = [o \in CD!Offsets |->
                         IF buffer[2].sector + o < DataEnd /\ o \notin bad
                         THEN buffer[2].sector + o ELSE None]]
  BY DEF CD!TFill
<1> DEFINE Ok(o) == first + o < DataEnd /\ o \notin bad
           info == [o \in CD!Offsets |-> IF Ok(o) THEN Tries ELSE 0]
           data == [o \in CD!Offsets |-> IF Ok(o) THEN first + o ELSE None]
<1>4. buffer' = [buffer EXCEPT ![2] = [buffer[2] EXCEPT !.info = info, !.data = data]]
  BY <1>2, <1>3, CdConstants DEF CD!InfoOf
<1>5. info \in [CD!Offsets -> Infos] /\ data \in [CD!Offsets -> Sectors]
  BY <1>2, CdConstants DEF Infos, Sectors
<1>6. \A o \in CD!Offsets : info[o] \in 1 .. Tries => data[o] = first + o
  <2> SUFFICES ASSUME NEW o \in CD!Offsets, ~Ok(o) PROVE info[o] \notin 1 .. Tries
    OBVIOUS
  <2>1. info[o] = 0
    OBVIOUS
  <2> QED  BY <2>1, CdConstants
<1> HIDE DEF info, data
<1>b. buffer[2] \in [sector : Sectors, info : [CD!Offsets -> Infos],
                     data : [CD!Offsets -> Sectors]]
  BY <1>0 DEF CdTypes
<1>c. [buffer[2] EXCEPT !.info = info, !.data = data]
        \in [sector : Sectors, info : [CD!Offsets -> Infos], data : [CD!Offsets -> Sectors]]
      /\ [buffer[2] EXCEPT !.info = info, !.data = data].sector = buffer[2].sector
      /\ [buffer[2] EXCEPT !.info = info, !.data = data].info = info
      /\ [buffer[2] EXCEPT !.info = info, !.data = data].data = data
  BY <1>5, <1>b
<1>7. /\ buffer'[1] = buffer[1] /\ buffer'[2].sector = first
      /\ buffer'[2].info = info /\ buffer'[2].data = data
      /\ buffer' \in [1 .. 2 -> [sector : Sectors, info : [CD!Offsets -> Infos],
                                 data : [CD!Offsets -> Sectors]]]
  BY <1>0, <1>2, <1>4, <1>c DEF CdTypes
<1>8. CdTypes'
  BY <1>0, <1>1, <1>7 DEF CdTypes
<1>9. BuffersOK'
  BY <1>0, <1>1, <1>2, <1>6, <1>7 DEF BuffersOK, Sound, CD!MidSwap
<1>10. ReaderOK' /\ StopOK'
  BY <1>0, <1>1, <1>7 DEF ReaderOK, StopOK, CD!MidSwap, CD!Reading
<1> QED  BY <1>8, <1>9, <1>10 DEF CdInv

(* A step of the exchange: cdrom_run_read, if it is at work, is torn.        *)
LEMMA SwapTears ==
  ASSUME CdInv, CD!Torn, UNCHANGED <<cdemu, wanted>>
  PROVE  ReaderOK' /\ torn' \in BOOLEAN
<1>1. torn' \in BOOLEAN /\ (CD!Reading => torn')
  BY DEF CD!Torn
<1> QED  BY <1>1 DEF CdInv, ReaderOK, CD!Reading

LEMMA SwapKeeps ==
  ASSUME CdInv, CD!TSwapInfo \/ CD!TSwapData \/ CD!TSwapSector
  PROVE  CdInv'
<1>0. CdTypes /\ ReaderOK /\ StopOK /\ BuffersOK
  BY DEF CdInv
<1>1. UNCHANGED <<cdemu, wanted, current, running>> /\ CD!Torn /\ cdthread # "none"
  BY DEF CD!TSwapInfo, CD!TSwapData, CD!TSwapSector, CD!TGoto, CD!cd
<1>2. ReaderOK' /\ torn' \in BOOLEAN
  BY <1>1, SwapTears
<1>3. StopOK'
  BY <1>0, <1>1 DEF StopOK
<1>4. /\ CD!Fresh(CD!Empty).sector = None
      /\ CD!Fresh(CD!Empty).info \in [CD!Offsets -> Infos]
      /\ CD!Fresh(CD!Empty).data \in [CD!Offsets -> Sectors]
  BY FreshIsSound
<1>5. CASE CD!TSwapInfo
  <2>1. /\ cdthread = "swapinfo" /\ cdthread' = "swapdata"
        /\ buffer' = [buffer EXCEPT ![1] = [buffer[1] EXCEPT !.info = buffer[2].info],
                                    ![2] = [buffer[2] EXCEPT !.info = CD!Fresh(CD!Empty).info]]
    BY <1>5 DEF CD!TSwapInfo, CD!TGoto, CD!Swap
  <2>2. /\ buffer'[1].info = buffer[2].info /\ buffer'[2].sector = buffer[2].sector
        /\ buffer'[2].data = buffer[2].data
        /\ buffer' \in [1 .. 2 -> [sector : Sectors, info : [CD!Offsets -> Infos],
                                   data : [CD!Offsets -> Sectors]]]
    BY <1>0, <1>4, <2>1 DEF CdTypes
  <2>3. CdTypes' /\ BuffersOK'
    BY <1>0, <1>1, <1>2, <2>1, <2>2 DEF CdTypes, BuffersOK, Sound, CD!MidSwap
  <2> QED  BY <1>2, <1>3, <2>3 DEF CdInv
<1>6. CASE CD!TSwapData
  <2>1. /\ cdthread = "swapdata" /\ cdthread' = "swapsector"
        /\ buffer' = [buffer EXCEPT ![1] = [buffer[1] EXCEPT !.data = buffer[2].data],
                                    ![2] = [buffer[2] EXCEPT !.data = CD!Fresh(CD!Empty).data]]
    BY <1>6 DEF CD!TSwapData, CD!TGoto, CD!Swap
  <2>2. /\ buffer'[1].data = buffer[2].data /\ buffer'[1].info = buffer[1].info
        /\ buffer'[2].sector = buffer[2].sector
        /\ buffer' \in [1 .. 2 -> [sector : Sectors, info : [CD!Offsets -> Infos],
                                   data : [CD!Offsets -> Sectors]]]
    BY <1>0, <1>4, <2>1 DEF CdTypes
  <2>3. CdTypes' /\ BuffersOK'
    BY <1>0, <1>1, <1>2, <2>1, <2>2 DEF CdTypes, BuffersOK, Sound, CD!MidSwap
  <2> QED  BY <1>2, <1>3, <2>3 DEF CdInv
<1>7. CASE CD!TSwapSector
  <2>1. /\ cdthread = "swapsector" /\ cdthread' = "test"
        /\ buffer' = [buffer EXCEPT ![1] = [buffer[1] EXCEPT !.sector = buffer[2].sector],
                                    ![2] = [buffer[2] EXCEPT !.sector = CD!Fresh(CD!Empty).sector]]
    BY <1>7 DEF CD!TSwapSector, CD!TUnlock, CD!Swap
  <2>2. /\ buffer'[1].sector = buffer[2].sector /\ buffer'[1].info = buffer[1].info
        /\ buffer'[1].data = buffer[1].data
        /\ buffer' \in [1 .. 2 -> [sector : Sectors, info : [CD!Offsets -> Infos],
                                   data : [CD!Offsets -> Sectors]]]
    BY <1>0, <1>4, <2>1 DEF CdTypes, Sectors
  <2>3. CdTypes' /\ BuffersOK'
    BY <1>0, <1>1, <1>2, <2>1, <2>2 DEF CdTypes, BuffersOK, Sound, CD!MidSwap
  <2> QED  BY <1>2, <1>3, <2>3 DEF CdInv
<1> QED  BY <1>5, <1>6, <1>7

LEMMA CdNextKeeps ==
  ASSUME CdInv, CD!Next
  PROVE  CdInv'
<1>0. CdTypes /\ StopOK
  BY DEF CdInv
<1>1. CASE CD!TTest
  <2>1. UNCHANGED <<buffer, cdemu, wanted, current, running, torn>>
        /\ cdthread = "test" /\ cdthread' \in {"take", "end"}
    BY <1>1 DEF CD!TTest, CD!TGoto, CD!cd
  <2>2. CdTypes' /\ StopOK'
    BY <1>0, <2>1 DEF CdTypes, StopOK
  <2> QED  BY <2>1, <2>2, CdThreadKeeps
<1>2. CASE CD!TTake
  <2>1. UNCHANGED <<buffer, cdemu, wanted, current, running, torn>>
        /\ cdthread = "take" /\ cdthread' = "lock"
    BY <1>2 DEF CD!TTake, CD!TGoto, CD!cd
  <2>2. CdTypes' /\ StopOK'
    BY <1>0, <2>1 DEF CdTypes, StopOK
  <2> QED  BY <2>1, <2>2, CdThreadKeeps
<1>3. CASE CD!TLock
  <2>1. UNCHANGED <<buffer, cdemu, wanted, current, running, torn>>
        /\ cdthread = "lock" /\ cdthread' = "look"
    BY <1>3 DEF CD!TLock, CD!TGoto, CD!cd
  <2>2. CdTypes' /\ StopOK'
    BY <1>0, <2>1 DEF CdTypes, StopOK
  <2> QED  BY <2>1, <2>2, CdThreadKeeps
<1>4. CASE CD!TEnd
  <2>1. UNCHANGED <<buffer, cdemu, wanted, current, torn>> /\ running' = "ended"
        /\ cdthread = "end" /\ cdthread' = "none"
    BY <1>4 DEF CD!TEnd, CD!TGoto, CD!cd
  <2>2. CdTypes' /\ StopOK'
    BY <1>0, <2>1 DEF CdTypes, StopOK
  <2> QED  BY <2>1, <2>2, CdThreadKeeps
<1> QED  BY <1>1, <1>2, <1>3, <1>4, CdEmulation, CountKeeps, RestartKeeps, LookKeeps, FillKeeps,
            SwapKeeps DEF CD!Next, CD!Emulation, CD!Thread

(* The thread exchanges the buffers under akiko_sem, which cdrom_run_read     *)
(* does not take: as long as the two do not meet, what the 68k gets is the    *)
(* sector it asked for and not what a failed read left; and akiko_reset frees *)
(* the buffers only when the thread has ended.                               *)
THEOREM RightSectorsOnly == StorageSpec => []BuffersSound
<1>1. StorageInit => CdInv
  <2> SUFFICES ASSUME StorageInit PROVE CdInv
    OBVIOUS
  <2>1. PICK info \in {CD!Empty, CD!Asked} : buffer = <<CD!Fresh(info), CD!Fresh(CD!Empty)>>
    BY DEF StorageInit, CD!Init
  <2>2. /\ buffer[1] = CD!Fresh(info) /\ buffer[2] = CD!Fresh(CD!Empty)
        /\ buffer \in [1 .. 2 -> [sector : Sectors, info : [CD!Offsets -> Infos],
                                  data : [CD!Offsets -> Sectors]]]
    BY <2>1, FreshIsSound
  <2>3. Sound(buffer[1].sector, buffer[1].info, buffer[1].data)
    BY <2>2, FreshIsSound
  <2>4. /\ cdthread = "test" /\ running = "yes" /\ wanted = None /\ current = None /\ torn = FALSE
        /\ cdemu = [at |-> "68k", sec |-> 0, got |-> None]
    BY DEF StorageInit, CD!Init, CD!In68k
  <2>5. CdTypes
    BY <2>2, <2>4 DEF CdTypes, Sectors
  <2>6. BuffersOK /\ ReaderOK /\ StopOK
    BY <2>3, <2>4 DEF BuffersOK, ReaderOK, StopOK, CD!Reading
  <2> QED  BY <2>5, <2>6 DEF CdInv
<1>2. CdInv /\ [StorageNext]_allvars => CdInv'
  <2> SUFFICES ASSUME CdInv, [StorageNext]_allvars PROVE CdInv'
    OBVIOUS
  <2>1. CASE CD!Next
    BY <2>1, CdNextKeeps
  <2>2. CASE UNCHANGED cdvars
    <3>1. UNCHANGED <<cdemu, wanted, current, buffer, running, cdthread, torn>>
      BY <2>2 DEF cdvars
    <3>2. CdTypes' /\ ReaderOK' /\ StopOK'
      BY <3>1 DEF CdInv, CdTypes, ReaderOK, StopOK, CD!Reading, CD!MidSwap
    <3> QED  BY <3>1, <3>2, CdEmulationKeeps
  <2> QED  BY <2>1, <2>2 DEF StorageNext, Hardfile, Locks, Cd, allvars
<1>3. CdInv => BuffersSound
  BY DEF CdInv, ReaderOK, StopOK, CD!Reading, BuffersSound, CD!BuffersSound, CD!RightSector,
         CD!BuffersLive
<1> QED  BY <1>1, <1>2, <1>3, PTL DEF StorageSpec

(* The same for the record locks as part of this model.                       *)
THEOREM LocksNeverConflict == StorageSpec => []NoConflict
<1>1. RecordAssumption
  BY StorageAssumption
<1>2. StorageInit => Init
  BY DEF StorageInit
<1>3. [StorageNext]_allvars => [Next]_vars
  BY DEF StorageNext, Hardfile, Locks, Cd, allvars
<1> QED  BY <1>1, <1>2, <1>3, NoConflictHolds, PTL DEF StorageSpec, Spec
=============================================================================
