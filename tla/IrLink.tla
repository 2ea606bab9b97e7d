------------------------------- MODULE IrLink -------------------------------
(***************************************************************************)
(* One direction of the infrared link: a peer that sends frames pulse by   *)
(* pulse (FrameSender), the air, which may swallow or distort a pulse, and *)
(* the receiving interrupt INT0, which builds up `buffer' while the main   *)
(* loop may read it at any moment.                                         *)
(*                                                                         *)
(* The shared word is kept as its bits.  The main loop reads it a byte at  *)
(* a time, as the processor does, in either order; pulses are hundreds of  *)
(* microseconds apart, so at most one comes between the two loads.         *)
(***************************************************************************)
EXTENDS Integers

CONSTANTS
  Commands,     \* the bytes sent, each as a function from bit to value
  Follows(_, _),  \* which byte may be sent after which
  MaxLosses     \* bound: pulses lost since the last begin that arrived

Bits == 0 .. 7                          \* of a byte
MAXBUFFERVALUE == 12
BufferBits == 0 .. MAXBUFFERVALUE - 1   \* the bits INT0 can set

ASSUME LinkAssumption ==
  /\ Commands \subseteq [Bits -> {0, 1}]
  /\ MaxLosses \in Nat

VARIABLES
  frame,        \* the bits of the byte being sent
  next,         \* the pulse to send: 0 begin, 1..8 a bit, 9 end, 10 none
  losses,       \* pulses lost since the last begin that arrived (history)
  intact,       \* this frame's begin arrived, and all after it (history)
  buffer, bufferIndex, end      \* the receiver's globals

vars == << frame, next, losses, intact, buffer, bufferIndex, end >>

receiver == << buffer, bufferIndex, end >>

NoBits == [i \in BufferBits |-> 0]

Init ==
  /\ frame \in Commands /\ next = 10 /\ losses = 0 /\ intact = FALSE
  /\ buffer = NoBits /\ bufferIndex = 0 /\ end = TRUE

-----------------------------------------------------------------------------
(* The receiving interrupt. *)

(* A full index starts over at the next pulse, whatever the pulse is. *)
NeverWraps == bufferIndex
StartIndex == IF bufferIndex = MAXBUFFERVALUE THEN 0 ELSE bufferIndex

BeginKeepsOldBits ==
  end' = FALSE /\ bufferIndex' = 0 /\ UNCHANGED buffer
BeginKeepsEnd ==
  UNCHANGED end /\ buffer' = NoBits /\ bufferIndex' = 0
OnBegin == end' = FALSE /\ buffer' = NoBits /\ bufferIndex' = 0

OnBit(value) ==
  /\ buffer' = [buffer EXCEPT ![StartIndex] = value]
  /\ bufferIndex' = StartIndex + 1
  /\ UNCHANGED end

EndIgnored == bufferIndex' = StartIndex /\ UNCHANGED << buffer, end >>
OnEnd == end' = TRUE /\ bufferIndex' = StartIndex /\ UNCHANGED buffer

OnNoise == bufferIndex' = StartIndex /\ UNCHANGED << buffer, end >>

(***************************************************************************)
(* INT0 on the rising edge that ends a pulse, as the pulse of number n is  *)
(* meant by the sender.                                                    *)
(***************************************************************************)
INT0(n) ==
  \/ n = 0 /\ OnBegin
  \/ n \in 1 .. 8 /\ OnBit(frame[n - 1])
  \/ n = 9 /\ OnEnd

-----------------------------------------------------------------------------
(* The sender and the air. *)

sendCommand(command) ==
  /\ next = 10
  /\ Follows(frame, command)
  /\ frame' = command /\ next' = 0
  /\ intact' = FALSE
  /\ UNCHANGED << losses, receiver >>

Deliver ==
  /\ next < 10
  /\ INT0(next)
  /\ next' = next + 1
  /\ losses' = IF next = 0 THEN 0 ELSE losses
  /\ intact' = (next = 0 \/ intact)
  /\ UNCHANGED frame

(* Neither edge is seen. *)
Lose ==
  /\ next < 10 /\ losses < MaxLosses
  /\ next' = next + 1 /\ losses' = losses + 1 /\ intact' = FALSE
  /\ UNCHANGED << frame, receiver >>

(* The pulse arrives with a width of no symbol. *)
Distort ==
  /\ next < 10 /\ losses < MaxLosses
  /\ OnNoise
  /\ next' = next + 1 /\ losses' = losses + 1 /\ intact' = FALSE
  /\ UNCHANGED frame

-----------------------------------------------------------------------------
(* The main loop reads the shared word. *)

LowByte ==
  buffer[0] + 2 * buffer[1] + 4 * buffer[2] + 8 * buffer[3]
    + 16 * buffer[4] + 32 * buffer[5] + 64 * buffer[6] + 128 * buffer[7]

HighByte == buffer[8] + 2 * buffer[9] + 4 * buffer[10] + 8 * buffer[11]

(***************************************************************************)
(* A read that a step interrupts can return the value: it gets either byte *)
(* from before the step or from after it.                                  *)
(***************************************************************************)
MayRead(value) ==
  \E low \in {LowByte, LowByte'}, high \in {HighByte, HighByte'} :
    value = low + 256 * high

-----------------------------------------------------------------------------
Next ==
  \/ \E command \in Commands : sendCommand(command)
  \/ Deliver
  \/ Lose
  \/ Distort

Spec == Init /\ [][Next]_vars

(* A frame that was begun goes on: the sender's timer sees to it. *)
FairSpec == Spec /\ WF_vars(Deliver)

-----------------------------------------------------------------------------
(* Properties. *)

TypeOK ==
  /\ frame \in [Bits -> {0, 1}]
  /\ next \in 0 .. 10
  /\ losses \in 0 .. MaxLosses
  /\ intact \in BOOLEAN
  /\ buffer \in [BufferBits -> {0, 1}]
  /\ bufferIndex \in 0 .. MAXBUFFERVALUE
  /\ end \in BOOLEAN

(***************************************************************************)
(* The link resynchronises: whatever was lost of the frames before, from   *)
(* the begin pulse on `buffer' holds exactly the bits of this frame that   *)
(* have arrived, and nothing of an older byte.                             *)
(***************************************************************************)
Received == IF next > 9 THEN 8 ELSE next - 1

PrefixReceived ==
  intact =>
    /\ bufferIndex = Received
    /\ \A i \in BufferBits :
         buffer[i] = IF i < Received THEN frame[i] ELSE 0

(***************************************************************************)
(* The flag `end', which the main loop never looks at, would tell it a     *)
(* whole byte from one still being received.                               *)
(***************************************************************************)
EndMeansWhole ==
  (intact /\ end) => /\ \A i \in Bits : buffer[i] = frame[i]
                     /\ bufferIndex = 8

(***************************************************************************)
(* The bytes of the game's positions: both coordinates within the outer    *)
(* wall, and a player one step further at most from frame to frame.        *)
(***************************************************************************)
LowNibble(byte) == byte[0] + 2 * byte[1] + 4 * byte[2] + 8 * byte[3]
HighNibble(byte) == byte[4] + 2 * byte[5] + 4 * byte[6] + 8 * byte[7]

Position(byte) == LowNibble(byte) \in 1 .. 14 /\ HighNibble(byte) \in 1 .. 14

OneStep(old, new) ==
  \/ LowNibble(old) = LowNibble(new)
     /\ HighNibble(new) - HighNibble(old) \in -1 .. 1
  \/ HighNibble(old) = HighNibble(new)
     /\ LowNibble(new) - LowNibble(old) \in -1 .. 1

(***************************************************************************)
(* No walk of a player is ever taken for ENDGAMEVALUE: not by the word     *)
(* itself while at most two pulses were lost since the last begin that     *)
(* arrived, and while at most one was lost, not even by a read of the word *)
(* that the interrupt splits.  So noise of this much ends no game.         *)
(***************************************************************************)
NoPhantomEnd ==
  [][ /\ LowByte + 256 * HighByte # 255
      /\ losses <= 1 => ~MayRead(255) ]_vars

(***************************************************************************)
(* A frame that arrives without a loss ends up in the buffer as the byte   *)
(* that was sent.                                                          *)
(***************************************************************************)
SentByte ==
  frame[0] + 2 * frame[1] + 4 * frame[2] + 8 * frame[3]
    + 16 * frame[4] + 32 * frame[5] + 64 * frame[6] + 128 * frame[7]

FrameArrives ==
  intact ~> (~intact \/ (end /\ LowByte + 256 * HighByte = SentByte))
=============================================================================
