--------------------------- MODULE IrTransmitter ---------------------------
(***************************************************************************)
(* The transmitter: sendCommand, run by the main loop, and TIMER0_COMPA,   *)
(* the interrupt that times its pulses.  The two share counter69, the      *)
(* logical* flags and the carrier bit COM0A0, without a lock.  Every       *)
(* statement of the main loop that touches them is a step of its own, and  *)
(* the 16 bit assignment counter69 = NULL is two: the processor stores a   *)
(* byte at a time, in an order the compiler chooses.                       *)
(***************************************************************************)
EXTENDS IrCode, FiniteSets

CONSTANTS
  Commands,     \* the bytes sendCommand is called with
  MaxLag,       \* ticks that may pass before the main loop's next statement
  MaxIdle,      \* bound: the count at which an idle transmitter is used again
  Shrink,       \* by how many ticks a receiver may measure a pulse too short
  Stretch,      \* by how many ticks a receiver may measure it too long
  Clocks        \* what a receiver's counter may show when a pulse begins

ASSUME TransmitterAssumption ==
  /\ Commands \subseteq 0 .. 255
  /\ MaxLag \in Nat /\ MaxIdle \in Nat /\ Shrink \in Nat /\ Stretch \in Nat
  /\ \A fall \in Clocks : fall \in Nat /\ fall < 65536

(***************************************************************************)
(* How much delay and measuring error the receiver's windows leave room    *)
(* for: up to three statements of the main loop delay a pulse's begin.     *)
(***************************************************************************)
ASSUME TimingAssumption == 3 * MaxLag + Shrink <= 7 /\ Stretch <= 9

VARIABLES
  pc,           \* the next statement of the main loop
  frame, next,  \* the symbols of the command, and the one being sent
  counter69,    \* ticks since the symbol began
  logical,      \* the raised flags among logicalzero, -one, -begin, -end
  carrier,      \* COM0A0: the LED toggles at 38 kHz
  width,        \* ticks the carrier has been on (history)
  sent,         \* what a receiver makes of the pulses so far (history)
  lag,          \* ticks the main loop has been kept waiting
  synchroon, synchroniseer

vars == << pc, frame, next, counter69, logical, carrier, width, sent, lag,
           synchroon, synchroniseer >>

sync == << synchroon, synchroniseer >>

Init ==
  /\ pc = "idle" /\ frame = << >> /\ next = 1
  /\ counter69 = 0 /\ logical = {} /\ carrier = FALSE
  /\ width = 0 /\ sent = << >> /\ lag = 0
  /\ synchroon = TRUE /\ synchroniseer = FALSE

LowByte(n)  == n % 256
HighByte(n) == n - (n % 256)

-----------------------------------------------------------------------------
(* The main loop. *)

sendCommand(command) ==
  /\ pc = "idle"
  /\ pc' = "reset"
  /\ frame' = Frame(command) /\ next' = 1 /\ sent' = << >>
  /\ lag' = 0
  /\ UNCHANGED << counter69, logical, carrier, width, sync >>

(* counter69 = NULL, either byte first. *)
resetCounter ==
  /\ \/ pc = "reset" /\ pc' = "resetLow" /\ counter69' = LowByte(counter69)
     \/ pc = "reset" /\ pc' = "resetHigh" /\ counter69' = HighByte(counter69)
     \/ pc = "resetLow" /\ pc' = "raise" /\ counter69' = HighByte(counter69)
     \/ pc = "resetHigh" /\ pc' = "raise" /\ counter69' = LowByte(counter69)
  /\ lag' = 0
  /\ UNCHANGED << frame, next, logical, carrier, width, sent, sync >>

raiseFlag ==
  /\ pc = "raise" /\ pc' = "carrier"
  /\ logical' = logical \cup {frame[next]}
  /\ lag' = 0
  /\ UNCHANGED << frame, next, counter69, carrier, width, sent, sync >>

carrierOn ==
  /\ pc = "carrier" /\ pc' = "wait"
  /\ carrier' = TRUE /\ width' = 0
  /\ lag' = 0
  /\ UNCHANGED << frame, next, counter69, logical, sent, sync >>

(***************************************************************************)
(* The busy wait while (logicalone || ... || logicalbegin), and after it   *)
(* the call that sends the next symbol, if there is one.                   *)
(***************************************************************************)
CarrierOver == ~carrier
SymbolOver == logical = {}

waitOver ==
  /\ pc = "wait" /\ SymbolOver
  /\ pc' = IF next = Len(frame) THEN "idle" ELSE "reset"
  /\ next' = IF next = Len(frame) THEN 1 ELSE next + 1
  /\ lag' = 0
  /\ UNCHANGED << frame, counter69, logical, carrier, width, sent, sync >>

(* moveOverIR acted on a position: wait for the next long silence. *)
resynchronise ==
  /\ pc = "idle" /\ synchroniseer
  /\ synchroon' = TRUE
  /\ UNCHANGED << pc, frame, next, counter69, logical, carrier, width, sent,
                  lag, synchroniseer >>

-----------------------------------------------------------------------------
(* TIMER0_COMPA. *)

(* The main loop has a statement to run, so it cannot be kept long. *)
Runnable == pc # "idle" /\ ~(pc = "wait" /\ ~SymbolOver)

(* The carrier is cut at the limit, the flag lowered after the silence. *)
CutsCarrier(s, ticks) == ticks >= Limit[s]
LowersByZeroLimit(s, ticks) == ticks > Limit["zero"]
ForgetsEnd(s, ticks) == s # "end" /\ ticks > Value[s]
LowersFlag(s, ticks) == ticks > Value[s]

Ticks == (counter69 + 1) % 65536
Off == \E s \in logical : CutsCarrier(s, Ticks)

(* INT0 of the receiver, whose counter goes round every 0.85 s. *)
Received(fall, ticks) == Classify(PulseDuration(fall, (fall + ticks) % 65536))

(***************************************************************************)
(* The interrupt.  When the carrier goes off a pulse has left, and a       *)
(* receiver classifies what it measures.  The receiver's own tick count is *)
(* what Shrink and Stretch are about; they also stand for ticks that       *)
(* either board loses to a long interrupt, such as a change of note.       *)
(***************************************************************************)
TIMER0_COMPA ==
  /\ Runnable => lag < MaxLag
  /\ pc = "idle" => counter69 < MaxIdle
  /\ lag' = IF Runnable THEN lag + 1 ELSE 0
  /\ counter69' = Ticks
  /\ logical' = { s \in logical : ~LowersFlag(s, Ticks) }
  /\ carrier' = (carrier /\ ~Off)
  /\ IF carrier /\ Off
       THEN /\ \E error \in -Shrink .. Stretch, fall \in Clocks :
                 sent' = Append(sent, Received(fall, width + 1 + error))
            /\ width' = 0
       ELSE /\ width' = IF carrier THEN width + 1 ELSE 0
            /\ UNCHANGED sent
  /\ IF synchroon /\ Ticks > SYNCHROONLIMIT
       THEN synchroniseer' = TRUE /\ synchroon' = FALSE
       ELSE UNCHANGED sync
  /\ UNCHANGED << pc, frame, next >>

-----------------------------------------------------------------------------
SendStep == resetCounter \/ raiseFlag \/ carrierOn \/ waitOver

Next ==
  \/ \E command \in Commands : sendCommand(command)
  \/ SendStep
  \/ resynchronise
  \/ TIMER0_COMPA

(***************************************************************************)
(* The timer runs from initIR on, and the processor executes what the      *)
(* interrupts leave it time for.                                           *)
(***************************************************************************)
Spec == Init /\ [][Next]_vars /\ WF_vars(TIMER0_COMPA) /\ WF_vars(SendStep)

-----------------------------------------------------------------------------
(* Properties. *)

TypeOK ==
  /\ pc \in {"idle", "reset", "resetLow", "resetHigh", "raise", "carrier",
             "wait"}
  /\ next \in 1 .. 10 /\ Len(frame) \in {0, 10} /\ Len(sent) <= Len(frame)
  /\ counter69 \in Nat /\ counter69 < 65536
  /\ logical \subseteq Symbols
  /\ carrier \in BOOLEAN /\ synchroon \in BOOLEAN /\ synchroniseer \in BOOLEAN
  /\ width \in Nat /\ lag \in 0 .. MaxLag

(***************************************************************************)
(* The LED is never left on: the carrier is up only while the interrupt    *)
(* still has a flag by which it will take the carrier down.                *)
(***************************************************************************)
CarrierGuarded == carrier => \E s \in logical : counter69 < Limit[s]

(***************************************************************************)
(* Every symbol of the frame in hand leaves as a pulse of its own width,   *)
(* whatever the order of the two threads; only a begin may be spoiled.     *)
(***************************************************************************)
Promise == INSTANCE FrameSender

SendsFrames == Promise!Spec

(***************************************************************************)
(* The busy waits end: a command that was begun is sent in full and the    *)
(* main loop gets on.                                                      *)
(***************************************************************************)
CommandCompletes == (pc # "idle") ~> (pc = "idle" /\ Len(sent) = Len(frame))
=============================================================================
