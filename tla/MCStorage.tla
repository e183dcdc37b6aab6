------------------------------ MODULE MCStorage ------------------------------
(***************************************************************************)
(* What waits for storage, for TLC: the requests of a hard file's unit, the *)
(* record locks of a file, the reader of a CD; one of the three per         *)
(* behaviour.                                                              *)
(***************************************************************************)
EXTENDS RecordLocks

CONSTANTS Requests, Slots, None, Room, MaxCloses, Size, Tries, DataEnd, Seeks, MaxFailures

VARIABLES
  which,                                                      \* the one that runs
  emu, unit, d_request, d_request_type, requests, thread, status, replies, closes, hurried,
  collided,
  cdemu, wanted, current, buffer, akiko_sem, running, commands, cdthread, failures, torn

hfvars ==
  <<emu, unit, d_request, d_request_type, requests, thread, status, replies, closes, hurried,
    collided>>
cdvars ==
  <<cdemu, wanted, current, buffer, akiko_sem, running, commands, cdthread, failures, torn>>
allvars == <<which, hfvars, vars, cdvars>>

\* A range and one inside it; HitIsOverlap covers how else two ranges can meet.
MCRanges == {<<0, 3>>, <<1, 1>>}

HF == INSTANCE HardfileDevice
CD == INSTANCE AkikoReader WITH
        Room <- 1, emu <- cdemu, requests <- commands, thread <- cdthread

ASSUME StorageAssumption ==
  HF!HardfileAssumption /\ RecordAssumption /\ CD!AkikoAssumption
ASSUME HitIsOverlap

StorageInit ==
  /\ which \in {"hardfile", "locks", "cd"}
  /\ HF!Init /\ Init /\ CD!Init
  /\ which # "cd" => buffer[1] = CD!Fresh(CD!Empty)

Hardfile(A) == which = "hardfile" /\ A /\ UNCHANGED <<which, vars, cdvars>>
Locks(A) == which = "locks" /\ A /\ UNCHANGED <<which, hfvars, cdvars>>
Cd(A) == which = "cd" /\ A /\ UNCHANGED <<which, hfvars, vars>>

StorageNext == Hardfile(HF!Next) \/ Locks(Next) \/ Cd(CD!Next)

(* The fairness of all three.  As only one of them runs, a condition on a     *)
(* step of any of them is one on each.                                       *)
Fairness ==
  /\ WF_allvars(Hardfile(HF!Emulation) \/ Locks(Vsync) \/ Cd(CD!Emulation))
  /\ WF_allvars(Hardfile(HF!SomeThread) \/ Locks(Timeout) \/ Cd(CD!Thread))
  /\ SF_allvars(Hardfile(HF!Changing) \/ Cd(CD!RunRead))
  /\ SF_allvars(Hardfile(HF!SomeTLock) \/ Cd(CD!TLock))

StorageSpec == StorageInit /\ [][StorageNext]_allvars /\ Fairness

-----------------------------------------------------------------------------
(* uaehf.device: its pipe has one reader; the emulation thread gets out of    *)
(* every wait; every command gets its answer.                                *)
OneReader == HF!OneReader
GoesOn == HF!GoesOn
CommandsAnswered == HF!Answered

(* The CD reader: the 68k gets the sector it asked for, nobody works on freed *)
(* buffers; every sector comes in the end, and a reset ends.  The record      *)
(* locks have NoConflict and WaitEnds.                                       *)
BuffersSound == CD!BuffersSound
Serves == CD!Serves
=============================================================================
