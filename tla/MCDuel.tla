------------------------------ MODULE MCDuel ------------------------------
(***************************************************************************)
(* A corridor of three cells.  The first five bits of the frame of (3,1)   *)
(* are the byte of (1,1), so its replica can jump across the corridor.     *)
(***************************************************************************)
EXTENDS Duel

MCFloor == { <<1, 1>>, <<2, 1>>, <<3, 1>> }
MCCoinCells == { <<3, 1>> }
MCStartCells == [p \in {0, 1} |-> IF p = 0 THEN <<2, 1>> ELSE <<1, 1>>]

(* What makes (1,1) of (3,1); the whole byte. *)
MCPrefixes == {5, 8}

(* A begin alone, an end that lost its last bit, and a cell. *)
MCNoise == {0, 127, 33}
=============================================================================
