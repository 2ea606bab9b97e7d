---------------------------- MODULE FrameSender ----------------------------
(***************************************************************************)
(* What the transmitter promises: the pulses of a frame leave in order,    *)
(* each with the width of its symbol.  One defect is part of the promise:  *)
(* the begin pulse, and no other, may come out as noise, because the reset *)
(* of the tick counter before it can be torn by the timer interrupt.       *)
(***************************************************************************)
EXTENDS IrCode

CONSTANT Commands     \* the bytes that are sent

VARIABLES
  frame,    \* the symbols of the frame in hand, << >> before the first
  sent      \* what a receiver makes of the pulses that left for it

vars == << frame, sent >>

Init == frame = << >> /\ sent = << >>

StartFrame(command) ==
  /\ Len(sent) = Len(frame)
  /\ frame' = Frame(command)
  /\ sent' = << >>

EmitPulse ==
  /\ Len(sent) < Len(frame)
  /\ sent' = Append(sent, frame[Len(sent) + 1])
  /\ UNCHANGED frame

SpoilBegin ==
  /\ frame # << >> /\ sent = << >>
  /\ sent' = << "noise" >>
  /\ UNCHANGED frame

Next ==
  \/ \E command \in Commands : StartFrame(command)
  \/ EmitPulse
  \/ SpoilBegin

Spec == Init /\ [][Next]_vars
=============================================================================
