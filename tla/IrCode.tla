------------------------------ MODULE IrCode ------------------------------
(***************************************************************************)
(* The infrared pulse code of src/notMain.  A byte travels as a frame: a   *)
(* begin symbol, its eight bits from the lowest up, an end symbol.  A      *)
(* symbol is one carrier pulse followed by silence; all lengths are in     *)
(* ticks of TIMER0_COMPA.                                                  *)
(***************************************************************************)
EXTENDS Integers, Sequences

Symbols == {"zero", "one", "begin", "end"}

(* The tick at which the carrier goes off, CURRENTCOUNTER*LIMIT. *)
Limit == [zero |-> 75, one |-> 175, begin |-> 268, end |-> 310]

(* The last tick of the symbol's silence, CURRENTCOUNTER*VALUE. *)
Value == [zero |-> 100, one |-> 200, begin |-> 750, end |-> 5000]

SYNCHROONLIMIT == 5000

(***************************************************************************)
(* The length of a pulse between two values of the receiver's counter: a   *)
(* uint16_t that is kept, subtracted and made positive in int16_t.  The    *)
(* subtraction may overflow, and wraps on this processor.                  *)
(***************************************************************************)
Int16(n) == ((n + 32768) % 65536) - 32768
Magnitude(n) == IF n < 0 THEN -n ELSE n

WiderDifference(fall, rise) == Magnitude(Int16(rise) - Int16(fall))
PulseDuration(fall, rise) ==
  Int16(Magnitude(Int16(Int16(rise) - Int16(fall))))

(***************************************************************************)
(* What the receiver takes a pulse of d ticks for.                         *)
(***************************************************************************)
Classify(d) ==
  CASE 290 < d /\ d < 320 -> "end"
    [] 260 < d /\ d < 280 -> "begin"
    [] 160 < d /\ d < 190 -> "one"
    [] 65  < d /\ d < 95  -> "zero"
    [] OTHER -> "noise"

(***************************************************************************)
(* sendBegin, the eight calls of sendNEC in sendByte, sendEnd.             *)
(***************************************************************************)
Bit(byte, i) == (byte \div (2 ^ i)) % 2

HighBitFirst(byte) ==
  << "begin" >>
    \o [i \in 1 .. 8 |-> IF Bit(byte, 8 - i) = 1 THEN "one" ELSE "zero"]
    \o << "end" >>

NoEndSymbol(byte) ==
  << "begin" >> \o [i \in 1 .. 8 |-> IF Bit(byte, i - 1) = 1 THEN "one" ELSE "zero"]

Frame(byte) ==
  << "begin" >>
    \o [i \in 1 .. 8 |-> IF Bit(byte, i - 1) = 1 THEN "one" ELSE "zero"]
    \o << "end" >>
=============================================================================
