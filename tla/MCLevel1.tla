----------------------------- MODULE MCLevel1 -----------------------------
(***************************************************************************)
(* The game on the field, the coins and the start cells of level 1 itself. *)
(***************************************************************************)
EXTENDS Game, Levels

(* (14,7) lies in a part of the field no player can walk to. *)
MCBufferValues == { 0, 231 }

(***************************************************************************)
(* Level 1 can be won wherever the local player has got to: the player     *)
(* stays in the part of the field it started in, and every coin lies in    *)
(* that part.  The peer's replica may be put outside it by a stray byte.   *)
(***************************************************************************)
CoinsStayReachable ==
  /\ players[0] \in HomeRegion
  /\ coins \subseteq HomeRegion
=============================================================================
