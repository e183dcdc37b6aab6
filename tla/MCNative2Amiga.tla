--------------------------- MODULE MCNative2Amiga ---------------------------
(***************************************************************************)
(* Native2Amiga for TLC: a machine whose pipe is full inside a message; one *)
(* with the A2091 on which the emulation thread makes a call too; and one  *)
(* that is reset.                                                          *)
(***************************************************************************)
EXTENDS Native2Amiga

CONSTANT Worker1
ASSUME Worker1 \in Workers

Machine(room, a2091, maxResets, n, callers) ==
  [room |-> room, a2091 |-> a2091, resets |-> maxResets,
   calls |-> [c \in Callers |-> IF c \in callers THEN n ELSE 0]]

MCMachines ==
  {Machine(3, FALSE, 0, 2, Workers), Machine(6, TRUE, 0, 1, {Worker1, Emulation}),
   Machine(6, FALSE, 1, 1, {Worker1, Emulation})}

OnlyA2091 == {Machine(6, TRUE, 0, 1, Workers)}
=============================================================================
