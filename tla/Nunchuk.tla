------------------------------ MODULE Nunchuk ------------------------------
(***************************************************************************)
(* The driver of the Nunchuk and what the game keeps of it.  Every call    *)
(* writes an offset over I2C and reads into one static buffer what the     *)
(* device answers: all bytes, the first few of them, or none when the plug *)
(* is out.  The device's side is in Encoded: how a reading is packed into  *)
(* bytes, as the comment of getState has it.                               *)
(***************************************************************************)
EXTENDS Integers

CONSTANTS
  Ids,           \* what may answer a request for the id: four bytes
  Readings       \* what stick, sensor and buttons may be at

Byte == 0 .. 255
TenBits == 0 .. 1023
Reading == [x : Byte, y : Byte, ax : TenBits, ay : TenBits, az : TenBits,
            c : {0, 1}, z : {0, 1}]

IDLEN == 4
STATELEN == 6
Received == 0 .. STATELEN - 1

ASSUME NunchukAssumption ==
  /\ Ids \subseteq [0 .. IDLEN - 1 -> Byte]
  /\ Readings \subseteq Reading

(* w bits of b, from bit lo on. *)
Bits(b, lo, w) == (b \div 2 ^ lo) % 2 ^ w

(* The buttons' bits are 0 when they are pressed. *)
Encoded(r) ==
  [i \in Received |->
     CASE i = 0 -> r.x
       [] i = 1 -> r.y
       [] i = 2 -> Bits(r.ax, 2, 8)
       [] i = 3 -> Bits(r.ay, 2, 8)
       [] i = 4 -> Bits(r.az, 2, 8)
       [] OTHER -> 64 * Bits(r.az, 0, 2) + 16 * Bits(r.ay, 0, 2)
                     + 4 * Bits(r.ax, 0, 2) + 2 * (1 - r.c) + (1 - r.z)]

VARIABLES
  pc,                \* "begin" until the handshake is done, then "loop"
  buffer,            \* the bytes of the static buffer that are ever read
  state,             \* what was decoded last
  NunChuckPosition,  \* what the game goes by: x, y, c, z
  given,             \* the last whole answer (history)
  taken              \* winScreen has had its buttons (history)

vars == << pc, buffer, state, NunChuckPosition, given, taken >>

Nothing == [x |-> 0, y |-> 0, ax |-> 0, ay |-> 0, az |-> 0, c |-> 0, z |-> 0]

Init ==
  /\ pc = "begin"
  /\ buffer = [i \in Received |-> 0]
  /\ state = Nothing /\ given = Nothing
  /\ NunChuckPosition = [x |-> 0, y |-> 0, c |-> 0, z |-> 0]
  /\ taken = FALSE

-----------------------------------------------------------------------------
(* _read: n bytes of the answer have arrived, the others are old. *)
_read(answer, n) ==
  buffer' = [i \in Received |-> IF i < n THEN answer[i] ELSE buffer[i]]

(* begin, tried until the id is read; no id is the wrong one. *)
GivesUp(n) == pc' = IF n = IDLEN THEN "loop" ELSE "off"
Retries(n) == pc' = IF n = IDLEN THEN "loop" ELSE "begin"

begin(n) ==
  /\ pc = "begin"
  /\ \E id \in Ids : _read(id, n)
  /\ Retries(n)
  /\ UNCHANGED << state, NunChuckPosition, given, taken >>

Decoded ==
  [x  |-> buffer'[0], y |-> buffer'[1],
   ax |-> 4 * buffer'[2] + Bits(buffer'[5], 2, 2),
   ay |-> 4 * buffer'[3] + Bits(buffer'[5], 4, 2),
   az |-> 4 * buffer'[4] + Bits(buffer'[5], 6, 2),
   c  |-> 1 - Bits(buffer'[5], 1, 1),
   z  |-> 1 - Bits(buffer'[5], 0, 1)]

(* getNunchukPosition, with getState: a short answer changes nothing. *)
AnyAnswer(n) == n > 0
WholeState(n) == n = STATELEN

(* What the game keeps of it, the y axis negated in eight bits. *)
Kept(s) == [x |-> s.x, y |-> (256 - s.y) % 256, c |-> s.c, z |-> s.z]

(* A read that fails returns before anything is kept. *)
KeepsRegardless(n) == NunChuckPosition' = Kept(state')
Keeps(n) == NunChuckPosition' = IF WholeState(n) THEN Kept(state')
                                                 ELSE NunChuckPosition

getNunchukPosition(r, n) ==
  /\ pc = "loop"
  /\ _read(Encoded(r), n)
  /\ state' = IF WholeState(n) THEN Decoded ELSE state
  /\ Keeps(n)
  /\ given' = IF n = STATELEN THEN r ELSE given
  /\ taken' = (taken /\ n # STATELEN)
  /\ UNCHANGED pc

(* winScreen forgets the buttons that ended it. *)
winScreen ==
  /\ pc = "loop"
  /\ NunChuckPosition.c = 1
  /\ NunChuckPosition' = [NunChuckPosition EXCEPT !.c = 0, !.z = 0]
  /\ taken' = TRUE
  /\ UNCHANGED << pc, buffer, state, given >>

Next ==
  \/ \E n \in 0 .. IDLEN : begin(n)
  \/ \E r \in Readings, n \in 0 .. STATELEN : getNunchukPosition(r, n)
  \/ winScreen

Spec == Init /\ [][Next]_vars

-----------------------------------------------------------------------------
(* Properties. *)

TypeOK ==
  /\ pc \in {"begin", "loop"}
  /\ buffer \in [Received -> Byte]
  /\ state \in Reading /\ given \in Reading
  /\ NunChuckPosition \in [x : Byte, y : Byte, c : {0, 1}, z : {0, 1}]
  /\ taken \in BOOLEAN

(***************************************************************************)
(* What is decoded is one reading of the device, all of it: never bytes of *)
(* two, although every answer that breaks off leaves its first bytes in    *)
(* the buffer beside those of an older answer, or of the id.               *)
(***************************************************************************)
SeesWholeReadings == state = given

(***************************************************************************)
(* The game moves by the axes of the last whole reading, y turned round,   *)
(* and goes by its buttons until winScreen has had them: no failed read    *)
(* brings back a press that has ended a game, to act in the menu as well.  *)
(***************************************************************************)
GameFollowsReadings ==
  /\ NunChuckPosition.x = given.x
  /\ (NunChuckPosition.y + given.y) % 256 = 0
  /\ NunChuckPosition.c = IF taken THEN 0 ELSE given.c
  /\ NunChuckPosition.z = IF taken THEN 0 ELSE given.z
=============================================================================
