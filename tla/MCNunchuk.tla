----------------------------- MODULE MCNunchuk -----------------------------
(* A stick at rest, one at both ends, and one that is pressed to buttons;  *)
(* the readings differ in every byte, so that no mixture is one of them.   *)
EXTENDS Nunchuk

MCIds == { [i \in 0 .. 3 |-> IF i = 0 THEN 164 ELSE IF i = 1 THEN 32 ELSE 0],
           [i \in 0 .. 3 |-> 255] }

MCReadings ==
  { [x |-> 128, y |-> 127, ax |-> 513, ay |-> 514, az |-> 515, c |-> 0, z |-> 0],
    [x |-> 255, y |-> 0, ax |-> 1023, ay |-> 1, az |-> 6, c |-> 1, z |-> 0],
    [x |-> 0, y |-> 255, ax |-> 8, ay |-> 1020, az |-> 257, c |-> 1, z |-> 1] }
=============================================================================
