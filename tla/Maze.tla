------------------------------- MODULE Maze -------------------------------
(***************************************************************************)
(* The playing field, and the pure functions of src/notMain that every     *)
(* move goes through.  A position is a cell <<x, y>> of the 16 x 16 grid:  *)
(* the program keeps pixels, but every coordinate it stores is a multiple  *)
(* of BLOCK_SIZE, on which the float division and revRound of walkTo are   *)
(* exact.                                                                  *)
(***************************************************************************)
EXTENDS Integers

CONSTANT Floor    \* the cells whose bit in the field table is clear

Grid == (0 .. 15) \X (0 .. 15)

(***************************************************************************)
(* The outermost ring of both field tables is all wall.                    *)
(***************************************************************************)
ASSUME FloorAssumption == Floor \subseteq (1 .. 14) \X (1 .. 14)

(* The byte values the two boards exchange. *)
BUFFERIRBEGIN == 10
BUFFERIREND   == 256
ENDGAMEVALUE  == 255

(***************************************************************************)
(* A position travels as one byte, x in the high and y in the low nibble.  *)
(* decodeGridPosition takes a uint8_t, so a wider buffer is truncated.     *)
(***************************************************************************)
encodeGridPosition(cell) == ((cell[1] * 16) % 256) + (cell[2] % 16)

DecodeSwapped(b)      == << b % 16, (b % 256) \div 16 >>
decodeGridPosition(b) == << (b % 256) \div 16, b % 16 >>

(***************************************************************************)
(* walkTo: the target cell if it is no wall, else the cell one came from.  *)
(***************************************************************************)
WalkThroughWalls(from, to) == to
walkTo(from, to) == IF to \in Floor THEN to ELSE from

(***************************************************************************)
(* nunchuckWrap: the stick as one of the direction bits.  The horizontal   *)
(* axis overrides the vertical one, and y holds the NEGATED joystick byte, *)
(* computed in uint8_t by getNunchukPosition.                              *)
(***************************************************************************)
nunchuck_Mid == 128

NegatedAxis(joy) == (256 - joy) % 256

nunchuckWrap(joyX, joyY) ==
  LET y == NegatedAxis(joyY)
  IN  CASE joyX > nunchuck_Mid -> 8
        [] joyX < nunchuck_Mid -> 4
        [] joyX = nunchuck_Mid /\ y > nunchuck_Mid -> 2
        [] joyX = nunchuck_Mid /\ y < nunchuck_Mid -> 1
        [] OTHER -> 0

(* What the stick can say: any two bytes the Nunchuk may report. *)
Directions == { nunchuckWrap(joyX, joyY) : joyX, joyY \in 0 .. 255 }

(* The cell the stick points at, one playerSpeed away. *)
Neighbour(cell, d) ==
  CASE d = 8 -> << cell[1] + 1, cell[2] >>
    [] d = 4 -> << cell[1] - 1, cell[2] >>
    [] d = 2 -> << cell[1], cell[2] + 1 >>
    [] d = 1 -> << cell[1], cell[2] - 1 >>
    [] OTHER -> cell
=============================================================================
