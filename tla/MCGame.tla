------------------------------ MODULE MCGame ------------------------------
(***************************************************************************)
(* A small field: a corridor of three cells with a side branch, chosen so  *)
(* that the byte of (3,1), cut off after five bits, is the byte of (1,1).  *)
(***************************************************************************)
EXTENDS Game

MCFloor == { <<1, 1>>, <<2, 1>>, <<3, 1>>, <<2, 2>> }
MCCoinCells == { <<1, 1>>, <<3, 1>> }
MCStartCells == [p \in {0, 1} |-> IF p = 0 THEN <<2, 1>> ELSE <<2, 2>>]

(* nothing; the prefix 1; (1,1); (3,1); a wall; the end; a begin pulse lost *)
MCBufferValues == { 0, 1, 17, 49, 240, ENDGAMEVALUE, 273 }
=============================================================================
