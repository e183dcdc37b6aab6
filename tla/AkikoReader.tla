---------------------------- MODULE AkikoReader ----------------------------
(***************************************************************************)
(* The CD reader of the CD32 (akiko.c).  A thread fills one of two buffers *)
(* from the sector that the emulation thread has looked for last and then  *)
(* exchanges the buffers, field by field, under akiko_sem.  The emulation  *)
(* thread takes that semaphore when a register is accessed, but not when   *)
(* it hands a sector to the 68k (cdrom_run_read).                          *)
(*                                                                         *)
(* Left out: what the commands do, audio, subcode, media changes; a disc   *)
(* is in the drive, and the 68k always has a slot for the next sector.     *)
(***************************************************************************)
EXTENDS Naturals, FiniteSets

CONSTANTS
  Size,        \* SECTOR_BUFFER_SIZE (64)
  Tries,       \* how often a sector is given from the buffer (3)
  DataEnd,     \* cdrom_data_end
  Seeks,       \* the sectors where programs begin to read
  MaxFailures, \* bound: the reads that fail
  Room,        \* bound: the commands a program leaves in the pipe (99)
  None         \* no sector (-1)

AkikoAssumption ==
  /\ {Size, Tries, DataEnd, Room} \subseteq Nat \ {0} /\ MaxFailures \in Nat
  /\ Seeks \subseteq Nat /\ None \notin Nat

Offsets == 0 .. Size - 1
Empty == 0                       \* sector_buffer_info: no data,
Asked == Tries + 1               \* or no data, and it was asked for (0xff)

VARIABLES
  emu,      \* the emulation thread: in "68k" code, in an "access" to a register, in
            \* cdrom_run_read or akiko_reset; the offset it reads, what it got
  wanted,   \* cdrom_data_offset + cdrom_sector_counter, the sector to be read next
  current,  \* cdrom_current_sector
  buffer,   \* 1 and 2: the first sector, the info and the data of all sectors
  akiko_sem,
  running,  \* akiko_thread_running: "yes" (1), "no" (0) or "ended" (-1)
  requests, \* how many commands are in the pipe
  thread,   \* where the thread is
  failures,
  torn      \* ghost: did the buffers change hands while cdrom_run_read was at work?

cd == <<wanted, current>>
vars == <<emu, cd, buffer, akiko_sem, running, requests, thread, failures, torn>>

In68k == [at |-> "68k", sec |-> 0, got |-> None]

\* Freshly allocated; the info is not initialised.
Fresh(info) ==
  [sector |-> None, info |-> [o \in Offsets |-> info], data |-> [o \in Offsets |-> None]]

Init ==
  /\ emu = In68k /\ wanted = None /\ current = None
  /\ \E info \in {Empty, Asked} : buffer = <<Fresh(info), Fresh(Empty)>>
  /\ akiko_sem = 1 /\ running = "yes" /\ requests = 0
  /\ thread = "test" /\ failures = 0 /\ torn = FALSE

-----------------------------------------------------------------------------
(* The emulation thread                                                      *)

Goto(from, to) == emu.at = from /\ emu' = [emu EXCEPT !.at = to]

\* cdrom_command_multi, run from a register access or, without the semaphore, from the
\* hsync handler; and the transfer enabled anew.
Seek(s) ==
  /\ emu.at = "68k" /\ wanted' = s
  /\ UNCHANGED <<emu, current, buffer, akiko_sem, running, requests, thread, failures, torn>>

\* akiko_bget, akiko_bput: under the semaphore a command may be given.
Access ==
  /\ Goto("68k", "access")
  /\ akiko_sem > 0 /\ akiko_sem' = akiko_sem - 1
  /\ UNCHANGED <<cd, buffer, running, requests, thread, failures, torn>>

Accessed ==
  /\ Goto("access", "68k")
  /\ requests' \in {requests} \cup {n \in {requests + 1} : n <= Room}
  /\ akiko_sem' = akiko_sem + 1
  /\ UNCHANGED <<cd, buffer, running, thread, failures, torn>>

\* cdrom_run_read, once in a while from the hsync handler: is it in the buffer?
MidSwap == thread \in {"swapdata", "swapsector"}
RunRead ==
  LET first == buffer[1].sector IN
    /\ emu.at = "68k" /\ wanted # None
    /\ current' = wanted
    /\ emu' = IF first # None /\ wanted \in first .. first + Size - 1
              THEN [In68k EXCEPT !.at = "info", !.sec = wanted - first]
              ELSE In68k
    /\ torn' = (MidSwap /\ emu'.at = "info")
    /\ UNCHANGED <<wanted, buffer, akiko_sem, running, requests, thread, failures>>

Info == buffer[1].info[emu.sec]
ReadInfo ==
  /\ Goto("info", IF Info \in {Empty, Asked} THEN "count" ELSE "data")
  /\ UNCHANGED <<cd, buffer, akiko_sem, running, requests, thread, failures, torn>>

\* The data go to the 68k.
ReadData ==
  /\ emu.at = "data"
  /\ emu' = [emu EXCEPT !.at = "given", !.got = buffer[1].data[emu.sec]]
  /\ UNCHANGED <<cd, buffer, akiko_sem, running, requests, thread, failures, torn>>

\* sector_buffer_info_1[sec]--, which is not a thing to do twice to an empty one.
Count ==
  /\ emu.at \in {"given", "count"} /\ emu' = In68k
  /\ wanted' = IF emu.at = "given" THEN wanted + 1 ELSE wanted
  /\ buffer' = [buffer EXCEPT ![1].info[emu.sec] =
                  IF @ = Asked THEN @ ELSE IF @ = Empty THEN Asked ELSE @ - 1]
  /\ torn' = FALSE
  /\ UNCHANGED <<current, akiko_sem, running, requests, thread, failures>>

\* akiko_reset: stop the thread, wait until it says so,
Reset ==
  /\ Goto("68k", "wait")
  /\ current' = None
  /\ requests < Room /\ requests' = requests + 1
  /\ running' = "no"
  /\ UNCHANGED <<wanted, buffer, akiko_sem, thread, failures, torn>>

ThreadEnded == running # "no"

Stopped ==
  /\ Goto("wait", "freed") /\ ThreadEnded
  /\ running' = "no"
  /\ UNCHANGED <<cd, buffer, akiko_sem, requests, thread, failures, torn>>

\* and free the buffers; akiko_init starts again.
Restart ==
  /\ Goto("freed", "68k")
  /\ wanted' = None
  /\ \E info \in {Empty, Asked} : buffer' = <<Fresh(info), Fresh(Empty)>>
  /\ akiko_sem' = 1 /\ running' = "yes" /\ requests' = 0
  /\ thread' = "test"
  /\ UNCHANGED <<current, failures, torn>>

-----------------------------------------------------------------------------
(* akiko_thread                                                              *)

TGoto(from, to) == thread = from /\ thread' = to

TTest ==
  /\ TGoto("test", IF running # "no" \/ requests > 0 THEN "take" ELSE "end")
  /\ UNCHANGED <<emu, cd, buffer, akiko_sem, running, requests, failures, torn>>

TTake ==
  /\ TGoto("take", "lock")
  /\ requests' = IF requests > 0 THEN requests - 1 ELSE 0
  /\ UNCHANGED <<emu, cd, buffer, akiko_sem, running, failures, torn>>

TLock ==
  /\ TGoto("lock", "look")
  /\ akiko_sem > 0 /\ akiko_sem' = akiko_sem - 1
  /\ UNCHANGED <<emu, cd, buffer, running, requests, failures, torn>>

\* Mutant: a sector that could not be read is not read again.
Mut_Refill ==
  LET first == buffer[1].sector IN
    current # None
      /\ (first = None \/ current < first \/ current >= first + (Size * 2) \div 3)

\* Is the buffer to be filled from the current sector?
Refill ==
  LET first == buffer[1].sector IN
    /\ current # None
    /\ \/ first = None
       \/ current < first \/ current >= first + (Size * 2) \div 3
       \/ \E o \in Offsets : buffer[1].info[o] = Asked

TUnlock == thread' = "test" /\ akiko_sem' = akiko_sem + 1

TLook ==
  /\ thread = "look"
  /\ IF Refill
     THEN /\ thread' = "fill"
          /\ buffer' = [buffer EXCEPT ![2].sector = current]
          /\ UNCHANGED akiko_sem
     ELSE TUnlock /\ UNCHANGED buffer
  /\ UNCHANGED <<emu, cd, running, requests, failures, torn>>

\* Mutant: what could not be read counts as data, too.
Mut_InfoOf(ok) == Tries
InfoOf(ok) == IF ok THEN Tries ELSE Empty

\* All sectors from there, some of which cannot be read; what is left of one that
\* cannot be read is of no use.  Nobody else looks at this buffer.
TFill ==
  /\ TGoto("fill", "swapinfo")
  /\ \E bad \in SUBSET Offsets :
       LET Ok(o) == buffer[2].sector + o < DataEnd /\ o \notin bad IN
         /\ \A o \in bad : buffer[2].sector + o < DataEnd
         /\ failures + Cardinality(bad) <= MaxFailures
         /\ failures' = failures + Cardinality(bad)
         /\ buffer' = [buffer EXCEPT
              ![2].info = [o \in Offsets |-> InfoOf(Ok(o))],
              ![2].data = [o \in Offsets |-> IF Ok(o) THEN buffer[2].sector + o ELSE None]]
  /\ UNCHANGED <<emu, cd, akiko_sem, running, requests, torn>>

Reading == emu.at \in {"info", "data", "given", "count"}
Torn == torn' = (torn \/ Reading)

\* The buffers are exchanged.  What comes into the second one is overwritten before
\* it is looked at again: it is forgotten here.
Swap(field) ==
  buffer' = [buffer EXCEPT ![1][field] = buffer[2][field], ![2][field] = Fresh(Empty)[field]]

TSwapInfo ==
  /\ TGoto("swapinfo", "swapdata")
  /\ Swap("info") /\ Torn
  /\ UNCHANGED <<emu, cd, akiko_sem, running, requests, failures>>

TSwapData ==
  /\ TGoto("swapdata", "swapsector")
  /\ Swap("data") /\ Torn
  /\ UNCHANGED <<emu, cd, akiko_sem, running, requests, failures>>

TSwapSector ==
  /\ thread = "swapsector" /\ TUnlock
  /\ Swap("sector") /\ Torn
  /\ UNCHANGED <<emu, cd, running, requests, failures>>

TEnd ==
  /\ TGoto("end", "none") /\ running' = "ended"
  /\ UNCHANGED <<emu, cd, buffer, akiko_sem, requests, failures, torn>>

-----------------------------------------------------------------------------
Emulation == Accessed \/ ReadInfo \/ ReadData \/ Count \/ Stopped \/ Restart
Thread ==
  TTest \/ TTake \/ TLock \/ TLook \/ TFill \/ TSwapInfo \/ TSwapData \/ TSwapSector \/ TEnd

Next ==
  \/ \E s \in Seeks : Seek(s)
  \/ Access \/ RunRead \/ Reset \/ Emulation \/ Thread

Spec == Init /\ [][Next]_vars

\* The hsync handler comes again and again, and the thread gets the semaphore.
FairSpec == Spec /\ WF_vars(Emulation) /\ WF_vars(Thread) /\ SF_vars(RunRead) /\ SF_vars(TLock)

-----------------------------------------------------------------------------
(* "DMA transfer one CD sector": the 68k gets the sector it asked for, not    *)
(* the leavings of one that could not be read or of another buffer - unless  *)
(* the buffers change hands during cdrom_run_read, which takes no semaphore. *)
(* And the thread never works on buffers that akiko_reset has freed.         *)
RightSector == emu.at = "given" /\ ~torn => emu.got = wanted
BuffersLive == emu.at = "freed" => thread = "none"
BuffersSound == RightSector /\ BuffersLive

(* A sector of the disc that is asked for is given in the end, also when the  *)
(* drive failed to read it at first and whatever the buffers do meanwhile;   *)
(* and akiko_reset ends, though it waits for an answer in the variable that  *)
(* it has cleared itself.                                                    *)
SectorComes == \A s \in 0 .. DataEnd - 1 : wanted = s ~> wanted # s
StopEnds == emu.at = "wait" ~> emu.at # "wait"
Serves == SectorComes /\ StopEnds
=============================================================================
