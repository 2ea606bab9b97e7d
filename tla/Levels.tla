------------------------------ MODULE Levels ------------------------------
(***************************************************************************)
(* The data of level 1: the field table, one row of two bytes per line of  *)
(* the grid, the coins and the players' start, and getTileAt, which reads  *)
(* a cell's bit out of the table.                                          *)
(***************************************************************************)
EXTENDS Integers, Sequences, FiniteSets

FIELD_WIDTH  == 16
FIELD_HEIGHT == 16

field == <<
  <<255, 255>>, <<128,   1>>, <<161,   1>>, <<161,   1>>,
  <<161,   9>>, <<161,  29>>, <<191,  43>>, <<128,   9>>,
  <<128,   9>>, <<128,   9>>, <<128,   9>>, <<128,   9>>,
  <<128,  63>>, <<128,  63>>, <<128,  63>>, <<255, 255>> >>

OneCoinWalledIn == { <<1, 1>>, <<1, 4>>, <<14, 7>> }
coins == { <<1, 1>>, <<1, 4>>, <<5, 1>>, <<7, 1>>, <<6, 1>>, <<11, 1>>,
           <<1, 10>> }

startCells == [p \in {0, 1} |-> IF p = 0 THEN <<1, 13>> ELSE <<1, 12>>]

(***************************************************************************)
(* getTileAt: the high bit of a byte is its leftmost cell; 1 is a wall.    *)
(***************************************************************************)
getTileAt(x, y) == (field[y + 1][(x \div 8) + 1] \div (2 ^ (7 - (x % 8)))) % 2

FloorCells ==
  { c \in (0 .. FIELD_WIDTH - 1) \X (0 .. FIELD_HEIGHT - 1) :
      getTileAt(c[1], c[2]) = 0 }

(***************************************************************************)
(* The cells that can be walked to from a cell.  Every round adds the      *)
(* neighbours; 64 rounds exhaust this field: at the first cell left out    *)
(* CoinsStayReachable of MCLevel1 would fail.                              *)
(***************************************************************************)
Adjacent(c) == { <<c[1] + 1, c[2]>>, <<c[1] - 1, c[2]>>,
                 <<c[1], c[2] + 1>>, <<c[1], c[2] - 1>> }

Region(c) ==
  LET Grow[n \in Nat] ==
        IF n = 0 THEN {c}
        ELSE LET known == Grow[n - 1]
             IN  known \cup (FloorCells \cap UNION { Adjacent(k) : k \in known })
  IN  Grow[64]

(* The part of the field the local player starts in, which has a border. *)
HomeRegion == Region(startCells[0])

ASSUME HomeIsClosed ==
  /\ startCells[0] \in HomeRegion
  /\ \A cell \in HomeRegion : Adjacent(cell) \cap FloorCells \subseteq HomeRegion
=============================================================================
