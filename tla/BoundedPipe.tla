---------------------------- MODULE BoundedPipe ----------------------------
(***************************************************************************)
(* What a comm pipe promises its clients (include/commpipe.h): a bounded   *)
(* first-in first-out channel.  Put blocks while the channel is full, Get  *)
(* blocks while it is empty, nothing is lost, duplicated or reordered.     *)
(***************************************************************************)
EXTENDS Naturals, Sequences

CONSTANTS
  Items,      \* what the clients exchange
  Capacity    \* how many items fit

VARIABLES
  queue,      \* the items written and not yet read, oldest first
  got         \* the item the last read returned (<<>> before the first)

pipeVars == <<queue, got>>

PipeInit ==
  /\ queue = <<>>
  /\ got = <<>>

Put(item) ==
  /\ Len(queue) < Capacity
  /\ queue' = Append(queue, item)
  /\ UNCHANGED got

Get ==
  /\ queue # <<>>
  /\ got' = <<Head(queue)>>
  /\ queue' = Tail(queue)

PipeNext == (\E item \in Items : Put(item)) \/ Get

PipeSpec == PipeInit /\ [][PipeNext]_pipeVars
=============================================================================
