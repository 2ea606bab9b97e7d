--------------------------- MODULE IrLink_proofs ---------------------------
(***************************************************************************)
(* Theorems about the receiving interrupt, for every set of bytes sent and *)
(* every number of pulses lost.                                            *)
(***************************************************************************)
EXTENDS IrLink, TLAPS

(* The end flag and the frame's progress, while nothing is lost. *)
EndIsLast == intact => next >= 1 /\ (end <=> next = 10)

LinkInv == TypeOK /\ PrefixReceived /\ EndIsLast

LEMMA LinkInit == Init => LinkInv
<1> SUFFICES ASSUME Init PROVE LinkInv
  OBVIOUS
<1>1. TypeOK
  <2>1. frame \in [Bits -> {0, 1}] /\ losses \in 0 .. MaxLosses
    BY LinkAssumption DEF Init, LinkAssumption
  <2>2. buffer \in [BufferBits -> {0, 1}]
    BY DEF Init, NoBits
  <2>3. bufferIndex \in 0 .. MAXBUFFERVALUE
    BY DEF Init, MAXBUFFERVALUE
  <2>4. next \in 0 .. 10
    BY DEF Init
  <2>5. intact \in BOOLEAN /\ end \in BOOLEAN
    BY DEF Init
  <2> QED
    BY <2>1, <2>2, <2>3, <2>4, <2>5 DEF TypeOK
<1> QED
  BY <1>1 DEF Init, LinkInv, PrefixReceived, EndIsLast

-----------------------------------------------------------------------------
(* The interrupt. *)

(* A pulse finds room for its bit, and leaves a legal index. *)
LEMMA INT0Type ==
  ASSUME TypeOK, next < 10, INT0(next)
  PROVE  /\ buffer' \in [BufferBits -> {0, 1}]
         /\ bufferIndex' \in 0 .. MAXBUFFERVALUE
         /\ end' \in BOOLEAN
<1>1. StartIndex \in 0 .. MAXBUFFERVALUE - 1
  BY DEF TypeOK, StartIndex, MAXBUFFERVALUE
<1>2. CASE next = 0 /\ OnBegin
  <2>1. buffer' \in [BufferBits -> {0, 1}]
    BY <1>2 DEF OnBegin, NoBits
  <2>2. bufferIndex' \in 0 .. MAXBUFFERVALUE
    BY <1>2 DEF OnBegin, MAXBUFFERVALUE
  <2>3. end' \in BOOLEAN
    BY <1>2 DEF OnBegin
  <2> QED
    BY <2>1, <2>2, <2>3
<1>3. CASE next \in 1 .. 8 /\ OnBit(frame[next - 1])
  <2>1. frame[next - 1] \in {0, 1}
    BY <1>3 DEF TypeOK, Bits
  <2>2. buffer' \in [BufferBits -> {0, 1}]
    BY <1>1, <1>3, <2>1 DEF OnBit, TypeOK
  <2> QED
    BY <1>1, <1>3, <2>2 DEF OnBit, TypeOK, MAXBUFFERVALUE
<1>4. CASE next = 9 /\ OnEnd
  BY <1>1, <1>4 DEF OnEnd, TypeOK, MAXBUFFERVALUE
<1> QED
  BY <1>2, <1>3, <1>4 DEF INT0

(* After its begin pulse, a frame is intact only if it has been so far. *)
LEMMA WasIntact ==
  ASSUME Deliver, intact', next # 0
  PROVE  intact
BY Zenon DEF Deliver

(* While nothing is lost a pulse adds its bit to the prefix, no more. *)
LEMMA INT0Prefix ==
  ASSUME LinkInv, Deliver, intact'
  PROVE  PrefixReceived' /\ EndIsLast'
<1> USE DEF Received
<1>1. next \in 0 .. 9 /\ next' = next + 1 /\ frame' = frame
  BY DEF Deliver, LinkInv, TypeOK
<1>2. CASE next = 0
  <2>1. OnBegin
    BY <1>2 DEF Deliver, INT0
  <2>2. PrefixReceived'
    BY <1>1, <1>2, <2>1 DEF OnBegin, NoBits, PrefixReceived, BufferBits
  <2>3. EndIsLast'
    BY <1>1, <1>2, <2>1 DEF OnBegin, EndIsLast
  <2> QED
    BY <2>2, <2>3
<1>3. CASE next \in 1 .. 8
  <2>1. OnBit(frame[next - 1])
    BY <1>3 DEF Deliver, INT0
  <2>2. intact
    BY <1>3, WasIntact
  <2>3. bufferIndex = next - 1 /\ StartIndex = next - 1
    <3>1. bufferIndex = next - 1
      BY <1>3, <2>2 DEF LinkInv, PrefixReceived
    <3> QED
      BY <1>3, <3>1 DEF StartIndex, MAXBUFFERVALUE
  <2>4. bufferIndex' = next /\ end' = end
    BY <2>1, <2>3, <1>3 DEF OnBit
  <2>5. ASSUME NEW i \in BufferBits
        PROVE  buffer'[i] = IF i < next THEN frame[i] ELSE 0
    <3>1. buffer[i] = IF i < next - 1 THEN frame[i] ELSE 0
      BY <2>2, <1>3 DEF LinkInv, PrefixReceived
    <3>2. buffer'[i] = IF i = next - 1 THEN frame[next - 1] ELSE buffer[i]
      BY <2>1, <2>3 DEF OnBit, LinkInv, TypeOK
    <3> QED
      BY <3>1, <3>2, <1>3 DEF BufferBits
  <2>6. PrefixReceived'
    BY <1>1, <1>3, <2>4, <2>5 DEF PrefixReceived
  <2>7. EndIsLast'
    BY <1>1, <1>3, <2>2, <2>4 DEF EndIsLast, LinkInv
  <2> QED
    BY <2>6, <2>7
<1>4. CASE next = 9
  <2>1. OnEnd
    BY <1>4 DEF Deliver, INT0
  <2>2. intact
    BY <1>4, WasIntact
  <2>3. bufferIndex = 8 /\ StartIndex = 8
    BY <1>4, <2>2 DEF LinkInv, PrefixReceived, StartIndex, MAXBUFFERVALUE
  <2>4. PrefixReceived'
    BY <1>1, <1>4, <2>1, <2>2, <2>3 DEF OnEnd, PrefixReceived, LinkInv
  <2>5. EndIsLast'
    BY <1>1, <1>4, <2>1 DEF OnEnd, EndIsLast
  <2> QED
    BY <2>4, <2>5
<1> QED
  BY <1>1, <1>2, <1>3, <1>4

-----------------------------------------------------------------------------
LEMMA LinkNext == LinkInv /\ [Next]_vars => LinkInv'
<1> SUFFICES ASSUME LinkInv, [Next]_vars PROVE LinkInv'
  OBVIOUS
<1> USE DEF LinkInv, receiver
<1>1. ASSUME NEW command \in Commands, sendCommand(command) PROVE LinkInv'
  <2>1. frame' \in [Bits -> {0, 1}]
    BY <1>1, LinkAssumption DEF sendCommand, LinkAssumption
  <2>2. next' \in 0 .. 10
    BY <1>1 DEF sendCommand
  <2>3. intact' \in BOOLEAN
    BY <1>1 DEF sendCommand
  <2>4. UNCHANGED << losses, receiver >>
    BY <1>1 DEF sendCommand
  <2>5. TypeOK'
    BY <2>1, <2>2, <2>3, <2>4 DEF TypeOK
  <2> QED
    BY <1>1, <2>5 DEF sendCommand, PrefixReceived, EndIsLast
<1>2. ASSUME Deliver PROVE LinkInv'
  <2>1. TypeOK'
    <3>1. /\ buffer' \in [BufferBits -> {0, 1}]
          /\ bufferIndex' \in 0 .. MAXBUFFERVALUE
          /\ end' \in BOOLEAN
      BY <1>2, INT0Type DEF Deliver
    <3>2. next' \in 0 .. 10 /\ losses' \in 0 .. MaxLosses
      BY <1>2, LinkAssumption DEF Deliver, TypeOK, LinkAssumption
    <3>3. intact' \in BOOLEAN
      BY <1>2 DEF Deliver
    <3> QED
      BY <1>2, <3>1, <3>2, <3>3 DEF Deliver, TypeOK
  <2>2. CASE intact'
    BY <1>2, <2>1, <2>2, INT0Prefix
  <2>3. CASE ~intact'
    BY <2>1, <2>3 DEF PrefixReceived, EndIsLast
  <2> QED
    BY <2>2, <2>3
<1>3. ASSUME Lose PROVE LinkInv'
  <2>1. next' \in 0 .. 10 /\ losses' \in 0 .. MaxLosses
    BY <1>3, LinkAssumption DEF Lose, TypeOK, LinkAssumption
  <2>2. TypeOK'
    BY <1>3, <2>1 DEF Lose, TypeOK
  <2> QED
    BY <1>3, <2>2 DEF Lose, PrefixReceived, EndIsLast
<1>4. ASSUME Distort PROVE LinkInv'
  <2>1. next' \in 0 .. 10 /\ losses' \in 0 .. MaxLosses
    BY <1>4, LinkAssumption DEF Distort, TypeOK, LinkAssumption
  <2>2. bufferIndex' \in 0 .. MAXBUFFERVALUE
    BY <1>4 DEF Distort, OnNoise, StartIndex, TypeOK, MAXBUFFERVALUE
  <2>3. TypeOK'
    BY <1>4, <2>1, <2>2 DEF Distort, OnNoise, TypeOK
  <2> QED
    BY <1>4, <2>3 DEF Distort, PrefixReceived, EndIsLast
<1>5. ASSUME UNCHANGED vars PROVE LinkInv'
  BY <1>5 DEF vars, TypeOK, PrefixReceived, Received, EndIsLast
<1> QED
  BY <1>1, <1>2, <1>3, <1>4, <1>5 DEF Next

LEMMA LinkInvariance == Spec => []LinkInv
<1> QED
  BY LinkInit, LinkNext, PTL DEF Spec

(***************************************************************************)
(* Every variable of the link keeps its type: INT0 never writes past bit   *)
(* 11 of the buffer, whatever pulses are lost.                             *)
(***************************************************************************)
THEOREM LinkTypeCorrect == Spec => []TypeOK
<1>1. LinkInv => TypeOK
  BY DEF LinkInv
<1> QED
  BY <1>1, LinkInvariance, PTL

(***************************************************************************)
(* From its begin pulse on, a frame that loses nothing is in the buffer    *)
(* bit by bit, whatever was lost before.                                   *)
(***************************************************************************)
THEOREM LinkResynchronises == Spec => []PrefixReceived
<1>1. LinkInv => PrefixReceived
  BY DEF LinkInv
<1> QED
  BY <1>1, LinkInvariance, PTL

(***************************************************************************)
(* While nothing is lost, the end flag stands for a whole byte.            *)
(***************************************************************************)
THEOREM EndFlagMeansWhole == Spec => []EndMeansWhole
<1>1. LinkInv => EndMeansWhole
  <2> SUFFICES ASSUME LinkInv, intact, end PROVE EndMeansWhole
    BY DEF EndMeansWhole
  <2>1. Received = 8
    BY DEF LinkInv, EndIsLast, Received
  <2> QED
    BY <2>1
       DEF LinkInv, PrefixReceived, EndMeansWhole, Bits, BufferBits,
           MAXBUFFERVALUE
<1> QED
  BY <1>1, LinkInvariance, PTL
(***************************************************************************)
(* What FrameArrives comes down to besides the sender's going on: once the *)
(* last pulse of an intact frame is in, the word is the byte sent.         *)
(***************************************************************************)
THEOREM IntactFrameStands ==
  Spec => [](intact /\ next = 10
               => end /\ LowByte + 256 * HighByte = SentByte)
<1>1. LinkInv
        => (intact /\ next = 10
              => end /\ LowByte + 256 * HighByte = SentByte)
  <2> SUFFICES ASSUME LinkInv, intact, next = 10
               PROVE  end /\ LowByte + 256 * HighByte = SentByte
    OBVIOUS
  <2>1. Received = 8
    BY DEF Received
  <2>2. \A i \in BufferBits : buffer[i] = IF i < 8 THEN frame[i] ELSE 0
    BY <2>1 DEF LinkInv, PrefixReceived
  <2>3. /\ \A i \in 0 .. 7 : buffer[i] = frame[i]
        /\ \A i \in 8 .. 11 : buffer[i] = 0
    BY <2>2 DEF BufferBits, MAXBUFFERVALUE
  <2>4. \A i \in 0 .. 7 : frame[i] \in {0, 1}
    BY DEF LinkInv, TypeOK, Bits
  <2>5. LowByte = SentByte
    BY <2>3, <2>4 DEF LowByte, SentByte
  <2>6. HighByte = 0 /\ SentByte \in Nat
    BY <2>3, <2>4 DEF HighByte, SentByte
  <2> QED
    BY <2>5, <2>6 DEF LinkInv, EndIsLast
<1> QED
  BY <1>1, LinkInvariance, PTL

-----------------------------------------------------------------------------
(***************************************************************************)
(* No phantom end.  The inductive invariant says, pulse by pulse, how far  *)
(* what stands in the word can lie from what was sent: with which frames,  *)
(* and from which index on, it has been filled since the last begin that   *)
(* arrived.  A shape's name is what was lost of the frame in hand and of   *)
(* the frames before it.                                                   *)
(***************************************************************************)
Walks ==
  /\ MaxLosses <= 2
  /\ \A byte \in Commands : Position(byte)
  /\ \A old, new \in Commands : Follows(old, new) => OneStep(old, new)

ZeroAbove(k) == \A i \in BufferBits : i >= k => buffer[i] = 0
HasZero(low, high) == \E i \in low .. high : buffer[i] = 0

(* Where the next bit goes, if k bits were counted and the word went round. *)
IndexIs(k) == bufferIndex \in {k, k - 12}

(* The low nibble is 1: such a frame looks like an end begun seven bits in. *)
OneLow(byte) == byte[0] = 1 /\ byte[1] = 0 /\ byte[2] = 0 /\ byte[3] = 0

(* Nothing has been received yet. *)
Fresh == next \in {0, 10} /\ bufferIndex = 0 /\ ZeroAbove(0)

(* Every bit of this frame, and nothing before it. *)
Whole ==
  /\ next # 0
  /\ bufferIndex = Received
  /\ \A i \in Bits : i < Received => buffer[i] = frame[i]
  /\ ZeroAbove(Received)

(* Every bit but number `lost', those after it one place too low. *)
OneShort ==
  /\ next \in 2 .. 10 /\ losses >= 1
  /\ bufferIndex = Received - 1
  /\ \E lost \in 0 .. Received - 1 :
       /\ \A i \in Bits : i < lost => buffer[i] = frame[i]
       /\ \A i \in Bits : i >= lost /\ i < Received - 1
                            => buffer[i] = frame[i + 1]
  /\ ZeroAbove(Received - 1)

TwoShort ==
  /\ next \in 3 .. 10 /\ losses = 2
  /\ bufferIndex = Received - 2
  /\ ZeroAbove(Received - 2)

(* The begin of a frame is due, and a whole one stands in the word. *)
WholeBefore ==
  /\ next = 0
  /\ bufferIndex = 8 /\ ZeroAbove(8)
  /\ HasZero(0, 3) /\ HasZero(4, 7)

(* The same with a frame that lacks a bit. *)
ShortBefore ==
  /\ next = 0 /\ losses >= 1
  /\ bufferIndex = 7 /\ ZeroAbove(7)
  /\ HasZero(0, 6)
  /\ OneLow(frame) => HasZero(3, 6)

(* The begin was lost: the bits follow those of a whole frame. *)
Second ==
  /\ next # 0 /\ losses >= 1
  /\ IndexIs(8 + Received)
  /\ HasZero(4, 7)
  /\ \A i \in 0 .. 3 : i < Received - 4 => buffer[i] = frame[i + 4]

SecondShort ==
  /\ next \in 2 .. 10 /\ losses = 2
  /\ IndexIs(7 + Received)
  /\ HasZero(4, 7)

(* The bits follow those of a frame that lacks one. *)
SecondAfterShort ==
  /\ next # 0 /\ losses = 2
  /\ IndexIs(7 + Received)
  /\ Received <= 5 => HasZero(0, 6)
  /\ OneLow(frame) => HasZero(3, 6)
  /\ \A i \in 0 .. 4 : i < Received => buffer[7 + i] = frame[i]

(* Two frames stand in the word, the second around its end. *)
ThirdBefore ==
  /\ next = 0 /\ losses >= 1
  /\ bufferIndex = 4
  /\ HasZero(0, 3)

Third ==
  /\ next # 0 /\ losses = 2
  /\ IndexIs(4 + Received)
  /\ HasZero(0, 3)

(* No more may be lost, and a begin is due. *)
Spent ==
  /\ next = 0 /\ losses = 2
  /\ HasZero(0, 7) \/ \E i \in 8 .. 11 : buffer[i] = 1

Shape ==
  \/ Fresh \/ Whole \/ OneShort \/ TwoShort
  \/ WholeBefore \/ ShortBefore
  \/ Second \/ SecondShort \/ SecondAfterShort
  \/ ThirdBefore \/ Third
  \/ Spent

ShapeInv == TypeOK /\ frame \in Commands /\ Shape

-----------------------------------------------------------------------------
(* Of the bytes. *)

(* A coordinate within the outer wall leaves a bit of its nibble zero. *)
LEMMA PositionHasZeros ==
  ASSUME NEW byte \in [Bits -> {0, 1}], Position(byte)
  PROVE  (\E i \in 0 .. 3 : byte[i] = 0) /\ (\E i \in 4 .. 7 : byte[i] = 0)
<1>1. /\ byte[0] \in {0, 1} /\ byte[1] \in {0, 1} /\ byte[2] \in {0, 1}
      /\ byte[3] \in {0, 1} /\ byte[4] \in {0, 1} /\ byte[5] \in {0, 1}
      /\ byte[6] \in {0, 1} /\ byte[7] \in {0, 1}
  BY DEF Bits
<1>2. byte[0] = 0 \/ byte[1] = 0 \/ byte[2] = 0 \/ byte[3] = 0
  BY <1>1 DEF Position, LowNibble
<1>3. byte[4] = 0 \/ byte[5] = 0 \/ byte[6] = 0 \/ byte[7] = 0
  BY <1>1 DEF Position, HighNibble
<1> QED
  BY <1>2, <1>3

(* A cell next to one whose low nibble is 1 has a low nibble below 8. *)
LEMMA StepFromLow ==
  ASSUME NEW old \in [Bits -> {0, 1}], NEW new \in [Bits -> {0, 1}],
         OneStep(old, new), OneLow(new)
  PROVE  old[3] = 0
<1>1. /\ old[0] \in {0, 1} /\ old[1] \in {0, 1}
      /\ old[2] \in {0, 1} /\ old[3] \in {0, 1}
  BY DEF Bits
<1>2. LowNibble(new) = 1
  BY DEF LowNibble, OneLow
<1>3. LowNibble(old) <= 2
  <2>1. LowNibble(old) \in Int
    BY <1>1 DEF LowNibble
  <2> QED
    BY <1>2, <2>1 DEF OneStep
<1> QED
  BY <1>1, <1>3 DEF LowNibble

LEMMA BytesInRange ==
  ASSUME TypeOK
  PROVE  LowByte \in 0 .. 255 /\ HighByte \in 0 .. 15
<1>1. \A i \in 0 .. 11 : buffer[i] \in {0, 1}
  BY DEF TypeOK, BufferBits, MAXBUFFERVALUE
<1> QED
  BY <1>1 DEF LowByte, HighByte

(* Where the word has a zero below bit 8, or a one above, it is not 255. *)
LEMMA WordIsNotEnd ==
  ASSUME TypeOK, HasZero(0, 7) \/ \E i \in 8 .. 11 : buffer[i] = 1
  PROVE  LowByte + 256 * HighByte # 255
<1>1. \A i \in 0 .. 11 : buffer[i] \in {0, 1}
  BY DEF TypeOK, BufferBits, MAXBUFFERVALUE
<1>2. LowByte \in 0 .. 255 /\ HighByte \in 0 .. 15
  BY BytesInRange
<1>3. CASE HasZero(0, 7)
  <2>1. \/ buffer[0] = 0 \/ buffer[1] = 0 \/ buffer[2] = 0 \/ buffer[3] = 0
        \/ buffer[4] = 0 \/ buffer[5] = 0 \/ buffer[6] = 0 \/ buffer[7] = 0
    BY <1>3 DEF HasZero
  <2>2. LowByte # 255
    BY <1>1, <2>1 DEF LowByte
  <2> QED
    BY <1>2, <2>2
<1>4. CASE \E i \in 8 .. 11 : buffer[i] = 1
  <2>1. buffer[8] = 1 \/ buffer[9] = 1 \/ buffer[10] = 1 \/ buffer[11] = 1
    BY <1>4
  <2>2. HighByte # 0
    BY <1>1, <2>1 DEF HighByte
  <2> QED
    BY <1>2, <2>2
<1> QED
  BY <1>3, <1>4

LEMMA LowByteNotFull ==
  ASSUME TypeOK, HasZero(0, 7)
  PROVE  LowByte # 255
<1>1. \A i \in 0 .. 11 : buffer[i] \in {0, 1}
  BY DEF TypeOK, BufferBits, MAXBUFFERVALUE
<1>2. \/ buffer[0] = 0 \/ buffer[1] = 0 \/ buffer[2] = 0 \/ buffer[3] = 0
      \/ buffer[4] = 0 \/ buffer[5] = 0 \/ buffer[6] = 0 \/ buffer[7] = 0
  BY DEF HasZero
<1> QED
  BY <1>1, <1>2 DEF LowByte

-----------------------------------------------------------------------------
(* What a shape says of the word. *)

(* While one pulse at most is lost, the low byte is never full. *)
LEMMA FewLossesLeaveZero ==
  ASSUME Walks, ShapeInv, losses <= 1
  PROVE  HasZero(0, 7)
<1> USE DEF ShapeInv, HasZero, ZeroAbove, BufferBits, MAXBUFFERVALUE
<1>1. (\E i \in 0 .. 3 : frame[i] = 0) /\ (\E i \in 4 .. 7 : frame[i] = 0)
  BY PositionHasZeros DEF Walks, TypeOK
<1>2. losses \in Nat /\ losses # 2
  BY LinkAssumption DEF TypeOK, LinkAssumption
<1>3. CASE Fresh
  BY <1>3 DEF Fresh
<1>4. CASE Whole
  <2>1. CASE next \in 9 .. 10
    BY <1>1, <1>4, <2>1 DEF Whole, Received, Bits
  <2>2. CASE next \in 1 .. 8
    BY <1>4, <2>2 DEF Whole, Received
  <2> QED
    BY <1>4, <2>1, <2>2 DEF Whole, TypeOK
<1>5. CASE OneShort
  BY <1>5 DEF OneShort, Received
<1>6. CASE WholeBefore \/ ShortBefore \/ ThirdBefore \/ Second
  BY <1>6 DEF WholeBefore, ShortBefore, ThirdBefore, Second
<1>7. CASE TwoShort \/ SecondShort \/ SecondAfterShort \/ Third \/ Spent
  BY <1>2, <1>7 DEF TwoShort, SecondShort, SecondAfterShort, Third, Spent
<1> QED
  BY <1>3, <1>4, <1>5, <1>6, <1>7 DEF Shape

(* Whatever the shape, the word is not the end signal. *)
LEMMA ShapeIsNotEnd ==
  ASSUME Walks, ShapeInv
  PROVE  HasZero(0, 7) \/ \E i \in 8 .. 11 : buffer[i] = 1
<1> USE DEF ShapeInv, HasZero, ZeroAbove, BufferBits, MAXBUFFERVALUE
<1>1. CASE losses <= 1
  BY <1>1, FewLossesLeaveZero
<1>2. (\E i \in 0 .. 3 : frame[i] = 0) /\ (\E i \in 4 .. 7 : frame[i] = 0)
  BY PositionHasZeros DEF Walks, TypeOK
<1>3. CASE Fresh \/ OneShort
  BY <1>3 DEF Fresh, OneShort, Received
<1>4. CASE Whole
  <2>1. CASE next \in 9 .. 10
    BY <1>2, <1>4, <2>1 DEF Whole, Received, Bits
  <2>2. CASE next \in 1 .. 8
    BY <1>4, <2>2 DEF Whole, Received
  <2> QED
    BY <1>4, <2>1, <2>2 DEF Whole, TypeOK
<1>5. CASE TwoShort
  BY <1>5 DEF TwoShort, Received
<1>6. CASE WholeBefore \/ ShortBefore \/ ThirdBefore \/ Second
  BY <1>6 DEF WholeBefore, ShortBefore, ThirdBefore, Second
<1>7. CASE SecondShort \/ Third \/ Spent
  BY <1>7 DEF SecondShort, Third, Spent
<1>8. CASE SecondAfterShort
  <2>1. CASE Received <= 5 \/ OneLow(frame)
    BY <1>8, <2>1 DEF SecondAfterShort
  <2>2. CASE ~(Received <= 5) /\ ~OneLow(frame)
    <3>1. /\ buffer[7] = frame[0] /\ buffer[8] = frame[1]
          /\ buffer[9] = frame[2] /\ buffer[10] = frame[3]
      <4>1. Received \in 6 .. 8
        BY <1>8, <2>2 DEF SecondAfterShort, Received, TypeOK
      <4>2. \A i \in 0 .. 4 : buffer[7 + i] = frame[i]
        BY <1>8, <4>1 DEF SecondAfterShort
      <4> QED
        BY <4>2
    <3>2. /\ frame[0] \in {0, 1} /\ frame[1] \in {0, 1}
          /\ frame[2] \in {0, 1} /\ frame[3] \in {0, 1}
      BY DEF TypeOK, Bits
    <3> QED
      BY <2>2, <3>1, <3>2 DEF OneLow
  <2> QED
    BY <2>1, <2>2
<1> QED
  BY <1>3, <1>4, <1>5, <1>6, <1>7, <1>8 DEF Shape

-----------------------------------------------------------------------------
(* The steps. *)

(* A frame that has left, or been lost, ends in a shape of its successor. *)
LEMMA SendShape ==
  ASSUME Walks, ShapeInv, NEW command \in Commands, sendCommand(command)
  PROVE  Shape'
<1> USE DEF ShapeInv, HasZero, ZeroAbove, BufferBits, MAXBUFFERVALUE
<1>1. /\ next = 10 /\ next' = 0 /\ frame' = command
      /\ losses' = losses /\ buffer' = buffer /\ bufferIndex' = bufferIndex
      /\ Received = 8
  BY DEF sendCommand, receiver, Received
<1>2. (\E i \in 0 .. 3 : frame[i] = 0) /\ (\E i \in 4 .. 7 : frame[i] = 0)
  BY PositionHasZeros DEF Walks, TypeOK
<1>3. CASE Fresh
  <2>1. Fresh'
    BY <1>1, <1>3 DEF Fresh
  <2> QED
    BY <2>1 DEF Shape
<1>4. CASE Whole
  <2>1. WholeBefore'
    BY <1>1, <1>2, <1>4 DEF Whole, WholeBefore, Bits
  <2> QED
    BY <2>1 DEF Shape
<1>5. CASE OneShort
  <2>1. PICK lost \in 0 .. 7 :
           /\ \A i \in Bits : i < lost => buffer[i] = frame[i]
           /\ \A i \in Bits : i >= lost /\ i < 7 => buffer[i] = frame[i + 1]
    BY <1>1, <1>5 DEF OneShort
  <2>2. HasZero(0, 6)
    <3>1. PICK zero \in 0 .. 7 : frame[zero] = 0 /\ zero # lost
      BY <1>2
    <3>2. CASE zero < lost
      <4>1. zero \in 0 .. 6 /\ zero \in Bits
        BY <3>1, <3>2 DEF Bits
      <4>2. buffer[zero] = 0
        BY <2>1, <3>1, <3>2, <4>1
      <4> QED
        BY <4>1, <4>2
    <3>3. CASE zero > lost
      <4>1. zero - 1 \in 0 .. 6 /\ zero - 1 \in Bits
        BY <3>1, <3>3 DEF Bits
      <4>2. buffer[zero - 1] = frame[(zero - 1) + 1]
        BY <2>1, <3>1, <3>3, <4>1
      <4> QED
        BY <3>1, <4>1, <4>2
    <3> QED
      BY <3>1, <3>2, <3>3
  <2>3. ASSUME OneLow(command) PROVE HasZero(3, 6)
    <3>1. frame[3] = 0
      BY <2>3, StepFromLow, LinkAssumption
         DEF Walks, sendCommand, LinkAssumption, TypeOK
    <3>2. PICK zero \in 3 .. 7 : frame[zero] = 0 /\ zero # lost
                                 /\ (zero = 3 => lost > 3)
      BY <1>2, <3>1
    <3>3. CASE zero < lost
      <4>1. zero \in 3 .. 6 /\ zero \in Bits
        BY <3>2, <3>3 DEF Bits
      <4>2. buffer[zero] = 0
        BY <2>1, <3>2, <3>3, <4>1
      <4> QED
        BY <4>1, <4>2
    <3>4. CASE zero > lost
      <4>1. zero - 1 \in 3 .. 6 /\ zero - 1 \in Bits
        BY <3>2, <3>4 DEF Bits
      <4>2. buffer[zero - 1] = frame[(zero - 1) + 1]
        BY <2>1, <3>2, <3>4, <4>1
      <4> QED
        BY <3>2, <4>1, <4>2
    <3> QED
      BY <3>2, <3>3, <3>4
  <2>4. losses >= 1 /\ bufferIndex = 7 /\ ZeroAbove(7)
    BY <1>1, <1>5 DEF OneShort
  <2>5. ShortBefore'
    BY <1>1, <2>2, <2>3, <2>4 DEF ShortBefore
  <2> QED
    BY <2>5 DEF Shape
<1>6. CASE Second
  <2>1. bufferIndex = 4
    BY <1>1, <1>6 DEF Second, IndexIs, TypeOK
  <2>2. \A i \in 0 .. 3 : buffer[i] = frame[i + 4]
    BY <1>1, <1>6 DEF Second
  <2>3. HasZero(0, 3)
    <3>1. frame[4] = 0 \/ frame[5] = 0 \/ frame[6] = 0 \/ frame[7] = 0
      BY <1>2
    <3>2. /\ buffer[0] = frame[4] /\ buffer[1] = frame[5]
          /\ buffer[2] = frame[6] /\ buffer[3] = frame[7]
      BY <2>2
    <3> QED
      BY <3>1, <3>2
  <2>4. ThirdBefore'
    BY <1>1, <1>6, <2>1, <2>3 DEF Second, ThirdBefore
  <2> QED
    BY <2>4 DEF Shape
<1>7. CASE TwoShort \/ SecondShort \/ SecondAfterShort \/ Third
  <2>1. losses = 2
    BY <1>7 DEF TwoShort, SecondShort, SecondAfterShort, Third
  <2>2. HasZero(0, 7) \/ \E i \in 8 .. 11 : buffer[i] = 1
    BY ShapeIsNotEnd
  <2>3. Spent'
    BY <1>1, <2>1, <2>2 DEF Spent
  <2> QED
    BY <2>3 DEF Shape
<1>8. ~WholeBefore /\ ~ShortBefore /\ ~ThirdBefore /\ ~Spent
  BY <1>1 DEF WholeBefore, ShortBefore, ThirdBefore, Spent
<1> QED
  BY <1>3, <1>4, <1>5, <1>6, <1>7, <1>8 DEF Shape

(* A pulse that is swallowed, or comes out as noise. *)
LEMMA LostShape ==
  ASSUME Walks, ShapeInv, Lose \/ Distort
  PROVE  Shape'
<1> USE DEF ShapeInv, HasZero, ZeroAbove, BufferBits, MAXBUFFERVALUE
<1>1. /\ next \in 0 .. 9 /\ next' = next + 1 /\ frame' = frame
      /\ losses \in 0 .. 1 /\ losses' = losses + 1 /\ buffer' = buffer
  BY LinkAssumption
     DEF Lose, Distort, OnNoise, receiver, Walks, TypeOK, LinkAssumption
<1>2. \/ bufferIndex' = bufferIndex
      \/ bufferIndex = 12 /\ bufferIndex' = 0
  BY DEF Lose, Distort, OnNoise, receiver, StartIndex
<1>3. bufferIndex \in 0 .. 12
  BY DEF TypeOK
<1>4. Received' = IF next = 9 THEN 8 ELSE next
  BY <1>1 DEF Received
<1>5. Received = IF next = 0 THEN -1 ELSE next - 1
  BY <1>1 DEF Received
<1>6. CASE Fresh
  <2>1. Whole'
    BY <1>1, <1>2, <1>4, <1>6 DEF Fresh, Whole, Bits
  <2> QED
    BY <2>1 DEF Shape
<1>7. CASE Whole
  <2>1. bufferIndex = next - 1 /\ bufferIndex' = next - 1 /\ next \in 1 .. 9
    BY <1>1, <1>2, <1>5, <1>7 DEF Whole
  <2>2. CASE next = 9
    <3>1. Whole'
      BY <1>1, <1>4, <1>5, <1>7, <2>1, <2>2 DEF Whole
    <3> QED
      BY <3>1 DEF Shape
  <2>3. CASE next \in 1 .. 8
    <3>1. \A i \in Bits : i < next - 1 => buffer[i] = frame[i]
      BY <1>5, <1>7, <2>1 DEF Whole
    <3>2. next - 1 \in 0 .. Received' - 1
      BY <1>4, <2>3
    <3>3. \E lost \in 0 .. Received' - 1 :
            /\ \A i \in Bits : i < lost => buffer[i] = frame[i]
            /\ \A i \in Bits : i >= lost /\ i < Received' - 1
                                 => buffer[i] = frame[i + 1]
      <4>1. \A i \in Bits : ~(i >= next - 1 /\ i < Received' - 1)
        BY <1>4, <2>3 DEF Bits
      <4> QED
        BY <3>1, <3>2, <4>1
    <3>4. ZeroAbove(next - 1)
      BY <1>5, <1>7, <2>1 DEF Whole
    <3>5. OneShort'
      BY <1>1, <1>4, <2>1, <2>3, <3>3, <3>4 DEF OneShort
    <3> QED
      BY <3>5 DEF Shape
  <2> QED
    BY <2>1, <2>2, <2>3
<1>8. CASE OneShort
  <2>1. losses = 1 /\ next \in 2 .. 9 /\ bufferIndex = next - 2
        /\ bufferIndex' = next - 2
    BY <1>1, <1>2, <1>5, <1>8 DEF OneShort
  <2>2. CASE next = 9
    <3>1. OneShort'
      BY <1>1, <1>4, <1>5, <1>8, <2>1, <2>2 DEF OneShort
    <3> QED
      BY <3>1 DEF Shape
  <2>3. CASE next \in 2 .. 8
    <3>1. ZeroAbove(next - 2)
      BY <1>5, <1>8, <2>1 DEF OneShort
    <3>2. TwoShort'
      BY <1>1, <1>4, <2>1, <2>3, <3>1 DEF TwoShort
    <3> QED
      BY <3>2 DEF Shape
  <2> QED
    BY <2>1, <2>2, <2>3
<1>9. CASE WholeBefore
  <2>1. Second'
    BY <1>1, <1>2, <1>4, <1>9 DEF WholeBefore, Second, IndexIs
  <2> QED
    BY <2>1 DEF Shape
<1>10. CASE ShortBefore
  <2>1. SecondAfterShort'
    BY <1>1, <1>2, <1>4, <1>10 DEF ShortBefore, SecondAfterShort, IndexIs
  <2> QED
    BY <2>1 DEF Shape
<1>11. CASE Second
  <2>1. next \in 1 .. 9 /\ losses' = 2
    BY <1>1, <1>11 DEF Second
  <2>2. CASE next = 9
    <3>1. bufferIndex = 4 /\ bufferIndex' = 4
      BY <1>2, <1>3, <1>5, <1>11, <2>2 DEF Second, IndexIs
    <3>2. Second'
      BY <1>1, <1>4, <1>5, <1>11, <2>1, <2>2, <3>1 DEF Second, IndexIs
    <3> QED
      BY <3>2 DEF Shape
  <2>3. CASE next \in 1 .. 8
    <3>1. bufferIndex' \in {7 + next, (7 + next) - 12}
      BY <1>2, <1>3, <1>5, <1>11, <2>3 DEF Second, IndexIs
    <3>2. SecondShort'
      BY <1>1, <1>4, <1>11, <2>1, <2>3, <3>1 DEF Second, SecondShort, IndexIs
    <3> QED
      BY <3>2 DEF Shape
  <2> QED
    BY <2>1, <2>2, <2>3
<1>12. CASE ThirdBefore
  <2>1. Third'
    BY <1>1, <1>2, <1>4, <1>12 DEF ThirdBefore, Third, IndexIs
  <2> QED
    BY <2>1 DEF Shape
<1>13. ~TwoShort /\ ~SecondShort /\ ~SecondAfterShort /\ ~Third /\ ~Spent
  BY <1>1 DEF TwoShort, SecondShort, SecondAfterShort, Third, Spent
<1> QED
  BY <1>6, <1>7, <1>8, <1>9, <1>10, <1>11, <1>12, <1>13 DEF Shape

(* A pulse that arrives: INT0 starts the word anew, or fills its next bit. *)
LEMMA ArrivalShape ==
  ASSUME Walks, ShapeInv, Deliver
  PROVE  Shape'
<1> USE DEF ShapeInv, HasZero, ZeroAbove, BufferBits, MAXBUFFERVALUE
<1>1. next \in 0 .. 9 /\ next' = next + 1 /\ frame' = frame
  BY DEF Deliver, TypeOK
<1>2. bufferIndex \in 0 .. 12
  BY DEF TypeOK
<1>3. Received' = IF next = 9 THEN 8 ELSE next
  BY <1>1 DEF Received
<1>4. Received = IF next = 0 THEN -1 ELSE next - 1
  BY <1>1 DEF Received
<1>5. CASE next = 0
  <2>1. bufferIndex' = 0 /\ \A i \in BufferBits : buffer'[i] = 0
    BY <1>5 DEF Deliver, INT0, OnBegin, NoBits
  <2>2. Whole'
    BY <1>1, <1>3, <1>5, <2>1 DEF Whole, Bits
  <2> QED
    BY <2>2 DEF Shape
<1>6. CASE next = 9
  <2>1. buffer' = buffer /\ losses' = losses /\ bufferIndex' = StartIndex
    BY <1>6 DEF Deliver, INT0, OnEnd
  <2>2. \/ bufferIndex' = bufferIndex
        \/ bufferIndex = 12 /\ bufferIndex' = 0
    BY <2>1 DEF StartIndex
  <2>3. CASE Whole
    <3>1. Whole'
      BY <1>1, <1>3, <1>4, <1>6, <2>1, <2>2, <2>3 DEF Whole
    <3> QED
      BY <3>1 DEF Shape
  <2>4. CASE OneShort
    <3>1. OneShort'
      BY <1>1, <1>3, <1>4, <1>6, <2>1, <2>2, <2>4 DEF OneShort
    <3> QED
      BY <3>1 DEF Shape
  <2>5. CASE TwoShort
    <3>1. TwoShort'
      BY <1>1, <1>3, <1>4, <1>6, <2>1, <2>2, <2>5 DEF TwoShort
    <3> QED
      BY <3>1 DEF Shape
  <2>6. CASE Second
    <3>1. Second'
      BY <1>1, <1>2, <1>3, <1>4, <1>6, <2>1, <2>2, <2>6 DEF Second, IndexIs
    <3> QED
      BY <3>1 DEF Shape
  <2>7. CASE SecondShort
    <3>1. SecondShort'
      BY <1>1, <1>2, <1>3, <1>4, <1>6, <2>1, <2>2, <2>7
         DEF SecondShort, IndexIs
    <3> QED
      BY <3>1 DEF Shape
  <2>8. CASE SecondAfterShort
    <3>1. SecondAfterShort'
      BY <1>1, <1>2, <1>3, <1>4, <1>6, <2>1, <2>2, <2>8
         DEF SecondAfterShort, IndexIs
    <3> QED
      BY <3>1 DEF Shape
  <2>9. CASE Third
    <3>1. Third'
      BY <1>1, <1>2, <1>3, <1>4, <1>6, <2>1, <2>2, <2>9 DEF Third, IndexIs
    <3> QED
      BY <3>1 DEF Shape
  <2>10. ~Fresh /\ ~WholeBefore /\ ~ShortBefore /\ ~ThirdBefore /\ ~Spent
    BY <1>6 DEF Fresh, WholeBefore, ShortBefore, ThirdBefore, Spent
  <2> QED
    BY <2>3, <2>4, <2>5, <2>6, <2>7, <2>8, <2>9, <2>10 DEF Shape
<1>7. CASE next \in 1 .. 8
  <2>1. /\ StartIndex \in 0 .. 11 /\ bufferIndex' = StartIndex + 1
        /\ losses' = losses
        /\ \A i \in BufferBits :
             buffer'[i] = IF i = StartIndex THEN frame[next - 1] ELSE buffer[i]
    BY <1>2, <1>7 DEF Deliver, INT0, OnBit, StartIndex, TypeOK
  <2>2. StartIndex = IF bufferIndex = 12 THEN 0 ELSE bufferIndex
    BY DEF StartIndex
  <2>3. Received' = next /\ Received = next - 1
    BY <1>3, <1>4, <1>7
  <2>4. CASE Whole
    <3>1. StartIndex = next - 1
      BY <1>7, <2>2, <2>3, <2>4 DEF Whole
    <3>2. \A i \in Bits : i < next => buffer'[i] = frame[i]
      BY <1>7, <2>1, <2>3, <2>4, <3>1 DEF Whole, Bits
    <3>3. \A i \in BufferBits : i >= next => buffer'[i] = 0
      BY <1>7, <2>1, <2>3, <2>4, <3>1 DEF Whole
    <3>4. Whole'
      BY <1>1, <1>7, <2>1, <2>3, <3>1, <3>2, <3>3 DEF Whole
    <3> QED
      BY <3>4 DEF Shape
  <2>5. CASE OneShort
    <3>1. next \in 2 .. 8 /\ StartIndex = next - 2
      BY <1>7, <2>2, <2>3, <2>5 DEF OneShort
    <3>2. PICK lost \in 0 .. next - 2 :
             /\ \A i \in Bits : i < lost => buffer[i] = frame[i]
             /\ \A i \in Bits : i >= lost /\ i < next - 2
                                  => buffer[i] = frame[i + 1]
      BY <2>3, <2>5 DEF OneShort
    <3>3. \A i \in Bits : i < lost => buffer'[i] = frame[i]
      BY <2>1, <3>1, <3>2 DEF Bits
    <3>4. \A i \in Bits : i >= lost /\ i < next - 1
                            => buffer'[i] = frame[i + 1]
      BY <2>1, <3>1, <3>2 DEF Bits
    <3>5. \A i \in BufferBits : i >= next - 1 => buffer'[i] = 0
      BY <2>1, <2>3, <2>5, <3>1 DEF OneShort
    <3>6. lost \in 0 .. next - 1
      BY <3>1, <3>2
    <3>7. OneShort'
      BY <1>1, <2>1, <2>3, <2>5, <3>1, <3>3, <3>4, <3>5, <3>6 DEF OneShort
    <3> QED
      BY <3>7 DEF Shape
  <2>6. CASE TwoShort
    <3>1. next \in 3 .. 8 /\ StartIndex = next - 3
      BY <1>7, <2>2, <2>3, <2>6 DEF TwoShort
    <3>2. TwoShort'
      BY <1>1, <2>1, <2>3, <2>6, <3>1 DEF TwoShort
    <3> QED
      BY <3>2 DEF Shape
  <2>7. CASE Second
    <3>1. StartIndex = IF next <= 4 THEN 7 + next ELSE next - 5
      BY <1>2, <1>7, <2>2, <2>3, <2>7 DEF Second, IndexIs
    <3>2. \A i \in 4 .. 7 : buffer'[i] = buffer[i]
      BY <1>7, <2>1, <3>1
    <3>3. \A i \in 0 .. 3 : i < next - 4 => buffer'[i] = frame[i + 4]
      BY <1>7, <2>1, <2>3, <2>7, <3>1 DEF Second
    <3>4. IndexIs(8 + Received)'
      BY <1>7, <2>1, <2>3, <3>1 DEF IndexIs
    <3>5. HasZero(4, 7)'
      BY <2>7, <3>2 DEF Second
    <3>6. Second'
      BY <1>1, <2>1, <2>3, <2>7, <3>3, <3>4, <3>5 DEF Second
    <3> QED
      BY <3>6 DEF Shape
  <2>8. CASE SecondShort
    <3>1. next \in 2 .. 8
          /\ StartIndex = IF next <= 5 THEN 6 + next ELSE next - 6
      BY <1>2, <1>7, <2>2, <2>3, <2>8 DEF SecondShort, IndexIs
    <3>2. \A i \in 4 .. 7 : buffer'[i] = buffer[i]
      BY <2>1, <3>1
    <3>3. HasZero(4, 7)'
      BY <2>8, <3>2 DEF SecondShort
    <3>4. IndexIs(7 + Received)'
      BY <2>1, <2>3, <3>1 DEF IndexIs
    <3>5. SecondShort'
      BY <1>1, <2>1, <2>8, <3>1, <3>3, <3>4 DEF SecondShort
    <3> QED
      BY <3>5 DEF Shape
  <2>9. CASE SecondAfterShort
    <3>1. StartIndex = IF next <= 5 THEN 6 + next ELSE next - 6
      BY <1>2, <1>7, <2>2, <2>3, <2>9 DEF SecondAfterShort, IndexIs
    <3>2. \A i \in 3 .. 6 : buffer'[i] = buffer[i]
      BY <1>7, <2>1, <3>1
    <3>3. OneLow(frame) => HasZero(3, 6)'
      BY <2>9, <3>2 DEF SecondAfterShort
    <3>4. next <= 5 => HasZero(0, 6)'
      <4> SUFFICES ASSUME next <= 5 PROVE HasZero(0, 6)'
        OBVIOUS
      <4>1. \A i \in 0 .. 6 : buffer'[i] = buffer[i]
        BY <1>7, <2>1, <3>1
      <4> QED
        BY <1>7, <2>3, <2>9, <4>1 DEF SecondAfterShort
    <3>5. \A i \in 0 .. 4 : i < next => buffer'[7 + i] = frame[i]
      BY <1>7, <2>1, <2>3, <2>9, <3>1 DEF SecondAfterShort
    <3>6. IndexIs(7 + Received)'
      BY <1>7, <2>1, <2>3, <3>1 DEF IndexIs
    <3>7. SecondAfterShort'
      BY <1>1, <2>1, <2>3, <2>9, <3>3, <3>4, <3>5, <3>6
         DEF SecondAfterShort, OneLow
    <3> QED
      BY <3>7 DEF Shape
  <2>10. CASE Third
    <3>1. StartIndex = 3 + next
      BY <1>2, <1>7, <2>2, <2>3, <2>10 DEF Third, IndexIs
    <3>2. \A i \in 0 .. 3 : buffer'[i] = buffer[i]
      BY <1>7, <2>1, <3>1
    <3>3. HasZero(0, 3)'
      BY <2>10, <3>2 DEF Third
    <3>4. IndexIs(4 + Received)'
      BY <1>7, <2>1, <2>3, <3>1 DEF IndexIs
    <3>5. Third'
      BY <1>1, <2>1, <2>10, <3>3, <3>4 DEF Third
    <3> QED
      BY <3>5 DEF Shape
  <2>11. ~Fresh /\ ~WholeBefore /\ ~ShortBefore /\ ~ThirdBefore /\ ~Spent
    BY <1>7 DEF Fresh, WholeBefore, ShortBefore, ThirdBefore, Spent
  <2> QED
    BY <2>4, <2>5, <2>6, <2>7, <2>8, <2>9, <2>10, <2>11 DEF Shape
<1> QED
  BY <1>1, <1>5, <1>6, <1>7

LEMMA ShapeInvariance == ASSUME Walks PROVE Spec => []ShapeInv
<1>1. Init => ShapeInv
  <2> SUFFICES ASSUME Init PROVE ShapeInv
    OBVIOUS
  <2>1. TypeOK
    BY LinkInit DEF LinkInv
  <2>2. Fresh
    BY DEF Init, NoBits, Fresh, ZeroAbove
  <2> QED
    BY <2>1, <2>2 DEF Init, Shape, ShapeInv
<1>2. LinkInv /\ ShapeInv /\ [Next]_vars => ShapeInv'
  <2> SUFFICES ASSUME LinkInv, ShapeInv, [Next]_vars PROVE ShapeInv'
    OBVIOUS
  <2>1. TypeOK'
    BY LinkNext DEF LinkInv
  <2>2. ASSUME NEW command \in Commands, sendCommand(command)
        PROVE  ShapeInv'
    BY <2>1, <2>2, SendShape DEF ShapeInv, sendCommand
  <2>3. CASE Deliver
    BY <2>1, <2>3, ArrivalShape DEF ShapeInv, Deliver
  <2>4. CASE Lose \/ Distort
    BY <2>1, <2>4, LostShape DEF ShapeInv, Lose, Distort
  <2>5. CASE UNCHANGED vars
    BY <2>1, <2>5
       DEF vars, ShapeInv, Shape, ZeroAbove, HasZero, IndexIs, OneLow,
           Received, Fresh, Whole, OneShort, TwoShort, WholeBefore,
           ShortBefore, Second, SecondShort, SecondAfterShort, ThirdBefore,
           Third, Spent
  <2> QED
    BY <2>2, <2>3, <2>4, <2>5 DEF Next
<1> QED
  BY <1>1, <1>2, LinkInvariance, PTL DEF Spec

(***************************************************************************)
(* A player's walk is never received as the end of the game while at most  *)
(* two pulses are lost, whatever the field, the walk and the pulses that   *)
(* are lost; nor read as the end while at most one is.                     *)
(***************************************************************************)
THEOREM NoPhantom == ASSUME Walks PROVE Spec => NoPhantomEnd
<1> DEFINE Calm == /\ LowByte \in 0 .. 255 /\ HighByte \in 0 .. 15
                   /\ LowByte + 256 * HighByte # 255
                   /\ losses <= 1 => LowByte # 255
<1>1. ShapeInv => Calm
  BY ShapeIsNotEnd, WordIsNotEnd, FewLossesLeaveZero, BytesInRange,
     LowByteNotFull
     DEF ShapeInv
<1>2. Calm /\ Calm' /\ [Next]_vars
        => [ /\ LowByte + 256 * HighByte # 255
             /\ losses <= 1 => ~MayRead(255) ]_vars
  <2> SUFFICES ASSUME Calm, Calm', [Next]_vars, losses <= 1
               PROVE  ~MayRead(255)
    OBVIOUS
  <2>1. LowByte' # 255
    <3>1. CASE Lose \/ Distort \/ UNCHANGED vars
      <4>1. buffer' = buffer
        BY <3>1 DEF Lose, Distort, OnNoise, receiver, vars
      <4> QED
        BY <4>1 DEF LowByte
    <3>2. CASE Deliver \/ \E command \in Commands : sendCommand(command)
      <4>1. losses' <= 1
        BY <3>2 DEF Deliver, sendCommand
      <4> QED
        BY <4>1
    <3> QED
      BY <3>1, <3>2 DEF Next
  <2>2. ASSUME NEW low \in {LowByte, LowByte'},
               NEW high \in {HighByte, HighByte'}
        PROVE  255 # low + 256 * high
    <3>1. low \in 0 .. 255 /\ low # 255 /\ high \in 0 .. 15
      BY <2>1, <2>2
    <3> QED
      BY <3>1
  <2> QED
    BY <2>2 DEF MayRead
<1> HIDE DEF Calm
<1>3. Spec => []Calm
  BY <1>1, ShapeInvariance, PTL
<1> QED
  BY <1>2, <1>3, PTL DEF Spec, NoPhantomEnd
=============================================================================
