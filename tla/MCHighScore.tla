---------------------------- MODULE MCHighScore ----------------------------
(* Four rows;  the contents are those of setupScore, an erased EEPROM, and *)
(* one left behind by earlier games, out of order and with a tie.          *)
EXTENDS HighScore

Stored(rows) ==
  [a \in Address |->
     LET r == a \div ROW_LENGTH
         c == a % ROW_LENGTH
     IN  IF c < 6 THEN (IF rows[r + 1][1] = 255 THEN 255 ELSE 97 + r)
                  ELSE rows[r + 1][c - 5]]

MCPLAYERNAME == [k \in 0 .. 5 |-> 74]
Word(b) == [k \in 0 .. 3 |-> b[k + 1]]

(* 10, 20, 30, 40; 2^32 - 1; 255, 5, 255, 65541. *)
MCContents ==
  { Stored(<< << 10, 0, 0, 0 >>, << 20, 0, 0, 0 >>, << 30, 0, 0, 0 >>,
              << 40, 0, 0, 0 >> >>),
    Stored([r \in 1 .. 4 |-> << 255, 255, 255, 255 >>]),
    Stored(<< << 255, 0, 0, 0 >>, << 5, 0, 0, 0 >>, << 255, 0, 0, 0 >>,
              << 5, 0, 1, 0 >> >>) }

(* 15, 25, 256 and 131072: low bytes below those of a row of 255. *)
MCScores ==
  { Word(<< 15, 0, 0, 0 >>), Word(<< 25, 0, 0, 0 >>),
    Word(<< 0, 1, 0, 0 >>), Word(<< 0, 0, 2, 0 >>) }
=============================================================================
