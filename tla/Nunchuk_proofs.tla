--------------------------- MODULE Nunchuk_proofs ---------------------------
(***************************************************************************)
(* What the driver decodes is what the device packed, for every reading:   *)
(* the ten bits of an axis come back from two bytes, and the last byte's   *)
(* four parts come apart again.                                            *)
(***************************************************************************)
EXTENDS Nunchuk, TLAPS

LEMMA Powers ==
  2 ^ 0 = 1 /\ 2 ^ 1 = 2 /\ 2 ^ 2 = 4 /\ 2 ^ 4 = 16 /\ 2 ^ 6 = 64 /\ 2 ^ 8 = 256
OBVIOUS

(* The parts of a byte and of an axis that the code shifts and masks. *)
LEMMA BitsAre ==
  ASSUME NEW b \in Nat
  PROVE  /\ Bits(b, 0, 1) = b % 2        /\ Bits(b, 0, 2) = b % 4
         /\ Bits(b, 1, 1) = (b \div 2) % 2
         /\ Bits(b, 2, 2) = (b \div 4) % 4
         /\ Bits(b, 2, 8) = (b \div 4) % 256
         /\ Bits(b, 4, 2) = (b \div 16) % 4
         /\ Bits(b, 6, 2) = (b \div 64) % 4
<1>1. b \div 1 = b
  OBVIOUS
<1> QED BY <1>1, Powers DEF Bits

(* An axis is its upper eight bits and its lower two. *)
LEMMA AxisComesBack ==
  ASSUME NEW a \in Nat, a <= 1023
  PROVE  /\ Bits(a, 2, 8) \in Nat /\ Bits(a, 2, 8) <= 255
         /\ Bits(a, 0, 2) \in Nat /\ Bits(a, 0, 2) <= 3
         /\ 4 * Bits(a, 2, 8) + Bits(a, 0, 2) = a
<1>1. /\ a \div 4 \in Nat /\ a \div 4 <= 255 /\ a % 4 \in Nat /\ a % 4 <= 3
      /\ a = 4 * (a \div 4) + (a % 4)
  OBVIOUS
<1>2. (a \div 4) % 256 = a \div 4
  BY <1>1
<1>3. Bits(a, 2, 8) = a \div 4 /\ Bits(a, 0, 2) = a % 4
  BY <1>2, BitsAre
<1> QED BY <1>1, <1>3

(* The last byte comes apart. *)
Packed(z, y, x, c, d) == 64 * z + 16 * y + 4 * x + 2 * c + d

LEMMA LastByteComesApart ==
  ASSUME NEW z \in Nat, z <= 3, NEW y \in Nat, y <= 3, NEW x \in Nat, x <= 3,
         NEW c \in Nat, c <= 1, NEW d \in Nat, d <= 1
  PROVE  /\ Packed(z, y, x, c, d) \in Nat /\ Packed(z, y, x, c, d) <= 255
         /\ Bits(Packed(z, y, x, c, d), 6, 2) = z
         /\ Bits(Packed(z, y, x, c, d), 4, 2) = y
         /\ Bits(Packed(z, y, x, c, d), 2, 2) = x
         /\ Bits(Packed(z, y, x, c, d), 1, 1) = c
         /\ Bits(Packed(z, y, x, c, d), 0, 1) = d
<1> DEFINE b == 64 * z + 16 * y + 4 * x + 2 * c + d
<1>1. b \in Nat /\ b <= 255
  OBVIOUS
<1>2. b \div 64 = z /\ z % 4 = z
  OBVIOUS
<1>3. b \div 16 = 4 * z + y /\ (4 * z + y) % 4 = y
  OBVIOUS
<1>4. b \div 4 = 16 * z + 4 * y + x /\ (16 * z + 4 * y + x) % 4 = x
  OBVIOUS
<1>5. /\ b \div 2 = 32 * z + 8 * y + 2 * x + c
      /\ (32 * z + 8 * y + 2 * x + c) % 2 = c
  OBVIOUS
<1>6. b % 2 = d
  OBVIOUS
<1> HIDE DEF b
<1>7. /\ Bits(b, 0, 1) = b % 2
      /\ Bits(b, 1, 1) = (b \div 2) % 2
      /\ Bits(b, 2, 2) = (b \div 4) % 4
      /\ Bits(b, 4, 2) = (b \div 16) % 4
      /\ Bits(b, 6, 2) = (b \div 64) % 4
  BY <1>1, BitsAre
<1>8. /\ Bits(b, 6, 2) = z /\ Bits(b, 4, 2) = y /\ Bits(b, 2, 2) = x
      /\ Bits(b, 1, 1) = c /\ Bits(b, 0, 1) = d
  BY <1>2, <1>3, <1>4, <1>5, <1>6, <1>7, Zenon
<1>9. Packed(z, y, x, c, d) = b
  BY DEF Packed, b
<1> QED BY <1>1, <1>8, <1>9, Zenon

-----------------------------------------------------------------------------
(* Decoding a whole answer gives the reading back. *)
LEMMA WholeAnswer ==
  ASSUME NEW r \in Reading
  PROVE  /\ Encoded(r) \in [Received -> Byte]
         /\ _read(Encoded(r), STATELEN) => buffer' = Encoded(r) /\ Decoded = r
<1>1. /\ r.x \in Byte /\ r.y \in Byte
      /\ r.ax \in TenBits /\ r.ay \in TenBits /\ r.az \in TenBits
      /\ r.c \in {0, 1} /\ r.z \in {0, 1}
      /\ r = [x |-> r.x, y |-> r.y, ax |-> r.ax, ay |-> r.ay, az |-> r.az,
              c |-> r.c, z |-> r.z]
  BY DEF Reading
<1> DEFINE xl == Bits(r.ax, 0, 2)  xh == Bits(r.ax, 2, 8)
           yl == Bits(r.ay, 0, 2)  yh == Bits(r.ay, 2, 8)
           zl == Bits(r.az, 0, 2)  zh == Bits(r.az, 2, 8)
           cb == 1 - r.c           zb == 1 - r.z
           last == Packed(zl, yl, xl, cb, zb)
<1>2. \A n \in TenBits : n \in Nat /\ n <= 1023
  BY DEF TenBits
<1>3. /\ xh \in Nat /\ xh <= 255 /\ xl \in Nat /\ xl <= 3
      /\ 4 * xh + xl = r.ax
  BY <1>1, <1>2, AxisComesBack
<1>4. /\ yh \in Nat /\ yh <= 255 /\ yl \in Nat /\ yl <= 3
      /\ 4 * yh + yl = r.ay
  BY <1>1, <1>2, AxisComesBack
<1>5. /\ zh \in Nat /\ zh <= 255 /\ zl \in Nat /\ zl <= 3
      /\ 4 * zh + zl = r.az
  BY <1>1, <1>2, AxisComesBack
<1>6. /\ cb \in Nat /\ cb <= 1 /\ 1 - cb = r.c
      /\ zb \in Nat /\ zb <= 1 /\ 1 - zb = r.z
  BY <1>1
<1> HIDE DEF xl, xh, yl, yh, zl, zh, cb, zb
<1>7. /\ last \in Nat /\ last <= 255
      /\ Bits(last, 6, 2) = zl /\ Bits(last, 4, 2) = yl /\ Bits(last, 2, 2) = xl
      /\ Bits(last, 1, 1) = cb /\ Bits(last, 0, 1) = zb
  <2>1. /\ zl \in Nat /\ zl <= 3 /\ yl \in Nat /\ yl <= 3
        /\ xl \in Nat /\ xl <= 3 /\ cb \in Nat /\ cb <= 1
        /\ zb \in Nat /\ zb <= 1
    BY <1>3, <1>4, <1>5, <1>6, Zenon
  <2> HIDE DEF last
  <2>2. last = Packed(zl, yl, xl, cb, zb)
    BY DEF last
  <2> QED BY <2>1, <2>2, LastByteComesApart, SMTT(60)
<1> HIDE DEF last
<1>8. /\ Encoded(r)[0] = r.x /\ Encoded(r)[1] = r.y /\ Encoded(r)[2] = xh
      /\ Encoded(r)[3] = yh /\ Encoded(r)[4] = zh /\ Encoded(r)[5] = last
  BY DEF Encoded, Received, STATELEN, last, xl, xh, yl, yh, zl, zh,
         cb, zb, Packed
<1>9. _read(Encoded(r), STATELEN) => buffer' = Encoded(r)
  BY DEF _read, Encoded, Received, STATELEN
<1>10. buffer' = Encoded(r) => Decoded = r
  BY <1>1, <1>3, <1>4, <1>5, <1>6, <1>7, <1>8 DEF Decoded
<1>11. Encoded(r) \in [Received -> Byte]
  <2>1. \A n \in Nat : n <= 255 => n \in Byte
    BY DEF Byte
  <2>2. /\ xh \in Byte /\ yh \in Byte /\ zh \in Byte /\ last \in Byte
    BY <1>3, <1>4, <1>5, <1>7, <2>1
  <2>3. \A i \in Received : i = 0 \/ i = 1 \/ i = 2 \/ i = 3 \/ i = 4 \/ i = 5
    BY DEF Received, STATELEN
  <2>4. \A i \in Received : Encoded(r)[i] \in Byte
    BY <1>1, <1>8, <2>2, <2>3
  <2> QED BY <2>4 DEF Encoded
<1> QED BY <1>9, <1>10, <1>11

-----------------------------------------------------------------------------
Decoding == TypeOK /\ SeesWholeReadings /\ GameFollowsReadings

LEMMA AnswerStep ==
  ASSUME Decoding, NEW r \in Readings, NEW n \in 0 .. STATELEN,
         getNunchukPosition(r, n)
  PROVE  Decoding'
<1> USE DEF Decoding
<1>1. CASE n = STATELEN
  <2>1. r \in Reading
    BY NunchukAssumption DEF NunchukAssumption
  <2>2. /\ Decoded = r /\ buffer' = Encoded(r)
        /\ Encoded(r) \in [Received -> Byte]
    BY <1>1, <2>1, WholeAnswer DEF getNunchukPosition
  <2>3. state' = r /\ given' = r /\ pc' = pc
    BY <1>1, <2>2 DEF getNunchukPosition, WholeState
  <2>4. NunChuckPosition' = [x |-> r.x, y |-> (256 - r.y) % 256,
                             c |-> r.c, z |-> r.z]
    BY <1>1, <2>3 DEF getNunchukPosition, WholeState, Keeps, Kept
  <2>9. taken' = FALSE
    BY <1>1 DEF getNunchukPosition
  <2>5. /\ r.x \in Byte /\ r.y \in Byte /\ r.c \in {0, 1} /\ r.z \in {0, 1}
    BY <2>1 DEF Reading
  <2>6. \A y \in Byte : /\ (256 - y) % 256 \in Byte
                        /\ (((256 - y) % 256) + y) % 256 = 0
    BY DEF Byte
  <2>7. TypeOK'
    BY <2>1, <2>2, <2>3, <2>4, <2>5, <2>6, <2>9 DEF TypeOK
  <2>8. GameFollowsReadings'
    BY <2>3, <2>4, <2>5, <2>6, <2>9 DEF GameFollowsReadings
  <2> QED BY <2>3, <2>7, <2>8 DEF SeesWholeReadings
<1>2. CASE n # STATELEN
  <2>1. UNCHANGED << state, NunChuckPosition, given, pc >>
    BY <1>2 DEF getNunchukPosition, WholeState, Keeps
  <2>4. taken' = taken
    BY <1>2, Zenon DEF getNunchukPosition, Decoding, TypeOK
  <2>2. n \in 0 .. 5
    BY <1>2 DEF STATELEN
  <2>3. buffer' \in [Received -> Byte]
    <3>1. r \in Reading
      BY NunchukAssumption DEF NunchukAssumption
    <3>2. \A i \in Received : Encoded(r)[i] \in Byte
      BY <3>1, WholeAnswer
    <3> QED BY <3>2 DEF getNunchukPosition, _read, TypeOK
  <2> QED BY <2>1, <2>3, <2>4 DEF TypeOK, SeesWholeReadings, GameFollowsReadings
<1> QED BY <1>1, <1>2

LEMMA DecodingNext == Decoding /\ [Next]_vars => Decoding'
<1> SUFFICES ASSUME Decoding, [Next]_vars PROVE Decoding'
  OBVIOUS
<1> USE DEF Decoding
<1>1. ASSUME NEW n \in 0 .. IDLEN, begin(n) PROVE Decoding'
  <2>1. PICK id \in Ids : _read(id, n)
    BY <1>1 DEF begin
  <2>2. id \in [0 .. IDLEN - 1 -> Byte]
    BY NunchukAssumption DEF NunchukAssumption
  <2>3. buffer' \in [Received -> Byte]
    BY <2>1, <2>2 DEF _read, TypeOK, IDLEN, Received, STATELEN
  <2>4. pc' \in {"begin", "loop"}
    BY <1>1 DEF begin, Retries
  <2> QED BY <1>1, <2>3, <2>4
          DEF begin, TypeOK, SeesWholeReadings, GameFollowsReadings
<1>2. ASSUME NEW r \in Readings, NEW n \in 0 .. STATELEN,
             getNunchukPosition(r, n)
      PROVE  Decoding'
  BY <1>2, AnswerStep
<1>3. CASE winScreen
  <2>1. TypeOK'
    BY <1>3 DEF winScreen, TypeOK
  <2>2. given.c \in {0, 1} /\ given.z \in {0, 1}
    BY DEF TypeOK, Reading
  <2>3. GameFollowsReadings'
    BY <1>3, <2>2 DEF winScreen, TypeOK, GameFollowsReadings
  <2> QED BY <1>3, <2>1, <2>3 DEF winScreen, SeesWholeReadings
<1>4. CASE UNCHANGED vars
  BY <1>4 DEF vars, TypeOK, SeesWholeReadings, GameFollowsReadings
<1> QED BY <1>1, <1>2, <1>3, <1>4 DEF Next

LEMMA DecodingInit == Init => Decoding
<1>1. Init => taken = FALSE /\ taken \in BOOLEAN
  BY DEF Init
<1> QED BY <1>1 DEF Init, Decoding, TypeOK, SeesWholeReadings,
        GameFollowsReadings, Nothing, Reading, Byte, TenBits

(* Type correctness, for every reading the device may give. *)
THEOREM DriverTypeCorrect == Spec => []TypeOK
<1>1. Init => Decoding
  BY DecodingInit
<1>2. Decoding /\ [Next]_vars => Decoding'
  BY DecodingNext
<1>3. Decoding => TypeOK
  BY DEF Decoding
<1> QED BY <1>1, <1>2, <1>3, PTL DEF Spec

(***************************************************************************)
(* An answer that breaks off is never decoded, and one that is whole gives *)
(* every bit of the reading back.                                          *)
(***************************************************************************)
THEOREM WholeReadingsOnly == Spec => []SeesWholeReadings
<1>1. Init => Decoding
  BY DecodingInit
<1>2. Decoding /\ [Next]_vars => Decoding'
  BY DecodingNext
<1>3. Decoding => SeesWholeReadings
  BY DEF Decoding
<1> QED BY <1>1, <1>2, <1>3, PTL DEF Spec

(* What the game moves and acts by is of the last whole reading. *)
THEOREM GameFollows == Spec => []GameFollowsReadings
<1>1. Init => Decoding
  BY DecodingInit
<1>2. Decoding /\ [Next]_vars => Decoding'
  BY DecodingNext
<1>3. Decoding => GameFollowsReadings
  BY DEF Decoding
<1> QED BY <1>1, <1>2, <1>3, PTL DEF Spec
=============================================================================
