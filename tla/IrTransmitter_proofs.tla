------------------------ MODULE IrTransmitter_proofs ------------------------
(***************************************************************************)
(* That the transmitter sends what it promises, for every byte, every      *)
(* value of the receiver's counter and every timing that TimingAssumption  *)
(* leaves room for.  The argument follows counter69 through a symbol: how  *)
(* far it can be from 0 when the flag is raised and when the carrier goes  *)
(* on decides the width of the pulse.                                      *)
(***************************************************************************)
EXTENDS IrTransmitter, SequenceTheorems, TLAPS

Pulses == Symbols \cup {"noise"}

(* The pulses of the command so far are those of the symbols before next. *)
FrameInv ==
  /\ pc \in {"idle", "reset", "resetLow", "resetHigh", "raise", "carrier",
             "wait"}
  /\ next \in 1 .. 10
  /\ frame = << >> \/ \E c \in Commands : frame = Frame(c)
  /\ sent \in Seq(Pulses)
  /\ pc = "idle" => next = 1 /\ Len(sent) = Len(frame)
  /\ pc # "idle" => /\ frame # << >>
                    /\ Len(sent) = IF pc = "wait" /\ ~carrier THEN next
                                                              ELSE next - 1

(* One flag at most, that of the symbol in hand. *)
FlagInv ==
  /\ carrier \in BOOLEAN
  /\ logical \in {{}, {frame[next]}}
  /\ pc \in {"idle", "reset", "resetLow", "resetHigh", "raise"} => logical = {}
  /\ pc = "carrier" => logical = {frame[next]}
  /\ carrier => pc = "wait" /\ logical = {frame[next]}

(***************************************************************************)
(* How far the counter is from 0.  Only the first symbol can begin at 256: *)
(* before any other, the low byte is too small to carry.                   *)
(***************************************************************************)
Fresh(n, most) ==
  \/ 0 <= n /\ n <= most
  \/ next = 1 /\ 256 <= n /\ n <= 256 + most

CountInv ==
  /\ counter69 \in Nat /\ counter69 < 65536
  /\ lag \in Nat /\ lag <= MaxLag /\ width \in Nat
  /\ pc = "wait" /\ logical = {} /\ next < 10
       => LowByte(counter69) <= 239 + lag
  /\ pc = "reset" /\ next > 1 => LowByte(counter69) <= 239 + MaxLag + lag
  /\ pc = "resetLow" => /\ counter69 <= 255 + lag
                        /\ next > 1 => counter69 <= 239 + 2 * MaxLag + lag
  /\ pc = "resetHigh" => LowByte(counter69) <= lag
  /\ pc = "raise" => Fresh(counter69, MaxLag + lag)
  /\ pc = "carrier" => Fresh(counter69, 2 * MaxLag + lag)
  /\ carrier => /\ counter69 < Limit[frame[next]]
                /\ width <= counter69
                /\ Fresh(counter69 - width, 3 * MaxLag)
  /\ pc = "wait" /\ logical # {} => counter69 <= Value[frame[next]]

SyncInv == synchroon \in BOOLEAN /\ synchroniseer \in BOOLEAN

SendInv == FrameInv /\ FlagInv /\ CountInv /\ SyncInv

-----------------------------------------------------------------------------
(* What a receiver's counter makes of a pulse. *)

LEMMA Below ==
  ASSUME NEW n \in Int, 0 <= n, n < 65536
  PROVE  n % 65536 = n
OBVIOUS

LEMMA Above ==
  ASSUME NEW n \in Int, 65536 <= n, n < 131072
  PROVE  n % 65536 = n - 65536
OBVIOUS

LEMMA SignedHalf ==
  ASSUME NEW n \in Int, 0 <= n, n < 65536
  PROVE  Int16(n) = IF n < 32768 THEN n ELSE n - 65536
<1>1. CASE n < 32768
  <2>1. (n + 32768) % 65536 = n + 32768
    BY <1>1, Below
  <2> QED BY <1>1, <2>1 DEF Int16
<1>2. CASE ~(n < 32768)
  <2>1. (n + 32768) % 65536 = n - 32768
    BY <1>2, Above
  <2> QED BY <1>2, <2>1 DEF Int16
<1> QED BY <1>1, <1>2

(* A pulse across the wrap of the counter is as long as any other. *)
LEMMA WidthSurvivesTheWrap ==
  ASSUME NEW fall \in Int, 0 <= fall, fall < 65536,
         NEW d \in Int, 0 <= d, d < 32768
  PROVE  PulseDuration(fall, (fall + d) % 65536) = d
<1> DEFINE rise == (fall + d) % 65536
<1>1. /\ rise \in Int /\ 0 <= rise /\ rise < 65536
      /\ rise = fall + d \/ rise = fall + d - 65536
  BY Below, Above
<1> HIDE DEF rise
<1>2. Int16(rise) - Int16(fall) = d \/ Int16(rise) - Int16(fall) = d - 65536
  BY <1>1, SignedHalf
<1>3. Int16(d) = d
  BY SignedHalf
<1>4. Int16(d - 65536) = d
  <2>1. (d - 65536 + 32768) % 65536 = d + 32768
    OBVIOUS
  <2> QED BY <2>1 DEF Int16
<1>5. Magnitude(d) = d
  BY DEF Magnitude
<1>6. PulseDuration(fall, rise) = d
  BY <1>2, <1>3, <1>4, <1>5 DEF PulseDuration
<1> QED BY <1>6 DEF rise

LEMMA TickCounts ==
  /\ Limit["zero"] = 75 /\ Limit["one"] = 175
  /\ Limit["begin"] = 268 /\ Limit["end"] = 310
  /\ Value["zero"] = 100 /\ Value["one"] = 200
  /\ Value["begin"] = 750 /\ Value["end"] = 5000
BY DEF Limit, Value

(* The margins: a pulse that begins at most 7 ticks late is recognised. *)
LEMMA PulseRecognised ==
  ASSUME NEW s \in Symbols,
         NEW d \in Limit[s] - 7 .. Limit[s] + 9
  PROVE  Classify(d) = s
<1>1. CASE s = "zero"
  BY <1>1, TickCounts DEF Classify
<1>2. CASE s = "one"
  BY <1>2, TickCounts DEF Classify
<1>3. CASE s = "begin"
  BY <1>3, TickCounts DEF Classify
<1>4. CASE s = "end"
  BY <1>4, TickCounts DEF Classify
<1> QED BY <1>1, <1>2, <1>3, <1>4 DEF Symbols

(* A begin whose counter was torn is too short for any symbol. *)
LEMMA TornBeginIsNoise ==
  ASSUME NEW d \in 0 .. 21
  PROVE  Classify(d) = "noise"
BY DEF Classify

LEMMA ClassifyPulse ==
  ASSUME NEW d \in Int
  PROVE  Classify(d) \in Pulses
BY DEF Classify, Pulses, Symbols

-----------------------------------------------------------------------------
LEMMA FrameShape ==
  ASSUME NEW byte
  PROVE  /\ Frame(byte) \in Seq(Symbols) /\ Len(Frame(byte)) = 10
         /\ Frame(byte)[1] = "begin"
         /\ \A i \in 2 .. 9 : Frame(byte)[i] \in {"zero", "one"}
         /\ Frame(byte)[10] = "end"
<1> DEFINE bits == [i \in 1 .. 8 |-> IF Bit(byte, i - 1) = 1 THEN "one"
                                                             ELSE "zero"]
<1>1. bits \in Seq(Symbols) /\ Len(bits) = 8
      /\ \A i \in 1 .. 8 : bits[i] \in {"zero", "one"}
  BY DEF Symbols
<1> HIDE DEF bits
<1>2. << "begin" >> \in Seq(Symbols) /\ << "end" >> \in Seq(Symbols)
  BY DEF Symbols
<1> DEFINE head == << "begin" >> \o bits
           all  == head \o << "end" >>
<1>3. /\ head \in Seq(Symbols) /\ Len(head) = 9
      /\ \A i \in 1 .. 9 :
           head[i] = IF i <= 1 THEN << "begin" >>[i] ELSE bits[i - 1]
  <2>1. Len(<< "begin" >>) = 1
    OBVIOUS
  <2>2. /\ head \in Seq(Symbols)
        /\ Len(head) = Len(<< "begin" >>) + Len(bits)
        /\ \A i \in 1 .. Len(<< "begin" >>) + Len(bits) :
             head[i] = IF i <= Len(<< "begin" >>) THEN << "begin" >>[i]
                                 ELSE bits[i - Len(<< "begin" >>)]
    BY <1>1, <1>2, ConcatProperties, Zenon
  <2> QED BY <1>1, <2>1, <2>2
<1>4. head[1] = "begin" /\ \A i \in 2 .. 9 : head[i] \in {"zero", "one"}
  BY <1>1, <1>3
<1> HIDE DEF head
<1>5. /\ all \in Seq(Symbols) /\ Len(all) = 10
      /\ \A i \in 1 .. 10 :
           all[i] = IF i <= 9 THEN head[i] ELSE << "end" >>[i - 9]
  <2>1. Len(<< "end" >>) = 1
    OBVIOUS
  <2>2. /\ all \in Seq(Symbols)
        /\ Len(all) = Len(head) + Len(<< "end" >>)
        /\ \A i \in 1 .. Len(head) + Len(<< "end" >>) :
             all[i] = IF i <= Len(head) THEN head[i]
                                 ELSE << "end" >>[i - Len(head)]
    BY <1>2, <1>3, ConcatProperties, Zenon
  <2> QED BY <1>3, <2>1, <2>2
<1>6. /\ all[1] = "begin" /\ all[10] = "end"
      /\ \A i \in 2 .. 9 : all[i] \in {"zero", "one"}
  BY <1>4, <1>5
<1>7. Frame(byte) = all
  BY DEF Frame, bits, head
<1> HIDE DEF all
<1> QED BY <1>5, <1>6, <1>7

(* The symbol in hand. *)
LEMMA SymbolInHand ==
  ASSUME FrameInv, frame # << >>
  PROVE  /\ Len(frame) = 10
         /\ frame[next] \in Symbols
         /\ next = 1 => frame[next] = "begin"
         /\ next \in 2 .. 9 => frame[next] \in {"zero", "one"}
         /\ next = 10 => frame[next] = "end"
<1>1. PICK c \in Commands : frame = Frame(c)
  BY DEF FrameInv
<1>2. next \in 1 .. 10
  BY DEF FrameInv
<1>3. /\ Len(frame) = 10 /\ frame[1] = "begin" /\ frame[10] = "end"
      /\ \A i \in 2 .. 9 : frame[i] \in {"zero", "one"}
  BY <1>1, FrameShape, Zenon
<1>4. next = 1 \/ next \in 2 .. 9 \/ next = 10
  BY <1>2
<1>5. next \in 2 .. 9 => frame[next] \in {"zero", "one"}
  BY <1>3, Zenon
<1>6. next # 1 \/ frame[next] = "begin"
  BY <1>3, Zenon
<1>7. next # 10 \/ frame[next] = "end"
  BY <1>3, Zenon
<1>8. frame[next] \in Symbols
  BY <1>4, <1>5, <1>6, <1>7, Zenon DEF Symbols
<1> QED BY <1>3, <1>5, <1>6, <1>7, <1>8, Zenon

LEMMA SymbolTicks ==
  ASSUME NEW s \in Symbols
  PROVE  /\ Limit[s] \in Int /\ 75 <= Limit[s] /\ Limit[s] <= 310
         /\ Value[s] \in Int /\ 100 <= Value[s] /\ Value[s] <= 5000
         /\ Limit[s] < Value[s]
BY TickCounts DEF Symbols

LEMMA Margins ==
  /\ MaxLag \in Nat /\ MaxLag <= 2
  /\ Shrink \in Nat /\ Stretch \in Nat /\ Stretch <= 9
  /\ 3 * MaxLag + Shrink <= 7
<1>1. MaxLag \in Nat /\ Shrink \in Nat /\ Stretch \in Nat
  BY TransmitterAssumption DEF TransmitterAssumption
<1>2. 3 * MaxLag + Shrink <= 7 /\ Stretch <= 9
  BY TimingAssumption DEF TimingAssumption
<1>3. MaxLag <= 2
  BY <1>1, <1>2
<1> QED BY <1>1, <1>2, <1>3

LEMMA SendInit == Init => SendInv
<1> SUFFICES ASSUME Init PROVE SendInv
  OBVIOUS
<1>1. FrameInv
  BY DEF Init, FrameInv
<1>2. FlagInv
  BY DEF Init, FlagInv
<1>3. CountInv
  BY Margins DEF Init, CountInv
<1>4. SyncInv
  BY DEF Init, SyncInv
<1> QED BY <1>1, <1>2, <1>3, <1>4 DEF SendInv

-----------------------------------------------------------------------------
(* The two bytes of the counter. *)

LEMMA Bytes ==
  ASSUME NEW n \in Nat, n < 65536
  PROVE  /\ LowByte(n) \in Nat /\ LowByte(n) <= 255 /\ LowByte(n) <= n
         /\ n < 256 => LowByte(n) = n
         /\ 256 <= n /\ n < 512 => LowByte(n) = n - 256
         /\ HighByte(n) \in Nat /\ HighByte(n) < 65536
         /\ HighByte(n) = n - LowByte(n)
         /\ LowByte(HighByte(n)) = 0
BY DEF LowByte, HighByte

LEMMA ByteTick ==
  ASSUME NEW n \in Nat, n < 65536
  PROVE  /\ (n + 1) % 65536 \in Nat /\ (n + 1) % 65536 < 65536
         /\ n < 65535 => (n + 1) % 65536 = n + 1
         /\ LowByte(n) < 255 => LowByte((n + 1) % 65536) = LowByte(n) + 1
BY DEF LowByte

-----------------------------------------------------------------------------
(* The main loop keeps the invariant. *)

LEMMA CommandStep ==
  ASSUME SendInv, NEW command \in Commands, sendCommand(command)
  PROVE  SendInv'
<1> USE DEF sendCommand, SendInv
<1>1. FrameInv'
  BY FrameShape DEF FrameInv
<1>2. FlagInv'
  BY DEF FlagInv
<1>3. CountInv'
  BY Margins DEF CountInv, FlagInv, FrameInv
<1>4. SyncInv'
  BY DEF SyncInv, sync
<1> QED BY <1>1, <1>2, <1>3, <1>4

LEMMA ResetStep ==
  ASSUME SendInv, resetCounter
  PROVE  SendInv'
<1> USE DEF SendInv
<1>1. FrameInv'
  BY DEF FrameInv, FlagInv, resetCounter
<1>2. FlagInv'
  BY DEF FlagInv, resetCounter
<1>3. CountInv'
  <2>1. ~carrier /\ ~carrier'
    BY DEF FlagInv, resetCounter
  <2>2. /\ counter69 \in Nat /\ counter69 < 65536
        /\ lag \in Nat /\ lag <= MaxLag /\ lag' = 0
        /\ next' = next /\ next \in 1 .. 10 /\ width' = width
    BY DEF CountInv, FrameInv, resetCounter
  <2>3. CASE pc = "reset" /\ pc' = "resetLow"
             /\ counter69' = LowByte(counter69)
    <3>1. /\ counter69' \in Nat /\ counter69' <= 255
          /\ next > 1 => counter69' <= 239 + MaxLag + lag
      BY <2>2, <2>3, Bytes DEF CountInv
    <3>2. next > 1 => counter69' <= 239 + 2 * MaxLag + lag'
      BY <2>2, <3>1, Margins
    <3> QED BY <2>1, <2>2, <2>3, <3>1, <3>2, Margins DEF CountInv
  <2>4. CASE pc = "reset" /\ pc' = "resetHigh"
             /\ counter69' = HighByte(counter69)
    BY <2>1, <2>2, <2>4, Bytes, Margins DEF CountInv
  <2>5. CASE pc = "resetLow" /\ pc' = "raise"
             /\ counter69' = HighByte(counter69)
    <3>1. /\ counter69 <= 255 + lag
          /\ next > 1 => counter69 <= 239 + 2 * MaxLag + lag
      BY <2>5 DEF CountInv
    <3>2. counter69' = 0 \/ (next = 1 /\ counter69' = 256)
      <4>1. CASE counter69 < 256
        BY <2>2, <2>5, <4>1, Bytes
      <4>2. CASE 256 <= counter69
        <5>1. counter69 <= 257
          BY <2>2, <3>1, Margins
        <5>2. ~(next > 1)
          BY <2>2, <3>1, <4>2, Margins
        <5>3. LowByte(counter69) = counter69 - 256
          BY <2>2, <4>2, <5>1, Bytes
        <5>4. HighByte(counter69) = 256
          BY <2>2, <5>3, Bytes
        <5> QED BY <2>2, <2>5, <5>2, <5>4
      <4> QED BY <2>2, <4>1, <4>2
    <3> QED BY <2>1, <2>2, <2>5, <3>2, Margins DEF CountInv, Fresh
  <2>6. CASE pc = "resetHigh" /\ pc' = "raise"
             /\ counter69' = LowByte(counter69)
    <3>1. LowByte(counter69) <= lag
      BY <2>6 DEF CountInv
    <3>2. counter69' \in Nat /\ counter69' <= MaxLag
      BY <2>2, <2>6, <3>1, Bytes, Margins
    <3> QED BY <2>1, <2>2, <2>6, <3>2, Margins DEF CountInv, Fresh
  <2> QED BY <2>3, <2>4, <2>5, <2>6 DEF resetCounter
<1>4. SyncInv'
  BY DEF SyncInv, sync, resetCounter
<1> QED BY <1>1, <1>2, <1>3, <1>4

LEMMA RaiseStep ==
  ASSUME SendInv, raiseFlag
  PROVE  SendInv'
<1> USE DEF SendInv, raiseFlag
<1>1. FrameInv'
  BY DEF FrameInv, FlagInv
<1>2. FlagInv'
  BY DEF FlagInv
<1>3. CountInv'
  <2>1. Fresh(counter69, MaxLag + lag) /\ ~carrier
    BY DEF CountInv, FlagInv
  <2> QED BY <2>1, Margins DEF CountInv, Fresh
<1>4. SyncInv'
  BY DEF SyncInv, sync
<1> QED BY <1>1, <1>2, <1>3, <1>4

LEMMA CarrierStep ==
  ASSUME SendInv, carrierOn
  PROVE  SendInv'
<1> USE DEF SendInv, carrierOn
<1>1. FrameInv'
  BY DEF FrameInv, FlagInv
<1>2. FlagInv'
  BY DEF FlagInv
<1>3. CountInv'
  <2>1. Fresh(counter69, 2 * MaxLag + lag) /\ logical = {frame[next]}
    BY DEF CountInv, FlagInv
  <2>2. Fresh(counter69, 3 * MaxLag)
    BY <2>1, Margins DEF Fresh, CountInv
  <2>3. /\ frame[next] \in Symbols
        /\ next = 1 => frame[next] = "begin"
    BY SymbolInHand DEF FrameInv
  <2>4. counter69 < Limit[frame[next]]
    BY <2>2, <2>3, SymbolTicks, TickCounts, Margins DEF Fresh, CountInv
  <2>5. counter69 <= Value[frame[next]]
    BY <2>3, <2>4, SymbolTicks DEF CountInv
  <2>6. counter69 - width' = counter69
    BY DEF CountInv
  <2> QED BY <2>1, <2>2, <2>4, <2>5, <2>6, Margins DEF CountInv, Fresh
<1>4. SyncInv'
  BY DEF SyncInv, sync
<1> QED BY <1>1, <1>2, <1>3, <1>4

LEMMA WaitStep ==
  ASSUME SendInv, waitOver
  PROVE  SendInv'
<1> USE DEF SendInv, waitOver, SymbolOver
<1>1. ~carrier /\ Len(frame) = 10
  BY SymbolInHand DEF FlagInv, FrameInv
<1>2. FrameInv'
  BY <1>1 DEF FrameInv
<1>3. FlagInv'
  BY <1>1 DEF FlagInv
<1>4. CountInv'
  <2>1. CASE next = 10
    BY <1>1, <2>1, Margins DEF CountInv
  <2>2. CASE next # 10
    <3>1. next < 10 /\ next + 1 > 1
      BY <2>2 DEF FrameInv
    <3>2. LowByte(counter69) <= 239 + lag
      BY <3>1 DEF CountInv
    <3>3. LowByte(counter69) <= 239 + MaxLag
      BY <3>2, Bytes, Margins DEF CountInv
    <3> QED BY <1>1, <2>2, <3>1, <3>3, Margins DEF CountInv
  <2> QED BY <2>1, <2>2
<1>5. SyncInv'
  BY DEF SyncInv, sync
<1> QED BY <1>2, <1>3, <1>4, <1>5

LEMMA ResynchroniseStep ==
  ASSUME SendInv, resynchronise
  PROVE  SendInv'
BY DEF SendInv, resynchronise, FrameInv, FlagInv, CountInv, SyncInv, Fresh

-----------------------------------------------------------------------------
(* The interrupt keeps it, and the pulse it ends is the right one. *)

LEMMA TickEffects ==
  ASSUME TIMER0_COMPA, carrier \in BOOLEAN
  PROVE  /\ carrier' \in BOOLEAN
         /\ carrier' <=> carrier /\ ~Off
         /\ ~carrier => width' = 0
         /\ carrier /\ Off => width' = 0
         /\ carrier /\ ~Off => width' = width + 1
         /\ ~carrier => sent' = sent
         /\ ~Off => sent' = sent
<1>1. carrier' = (carrier /\ ~Off)
  BY Zenon DEF TIMER0_COMPA
<1>2. CASE carrier /\ Off
  <2>1. width' = 0
    BY <1>2, Zenon DEF TIMER0_COMPA
  <2> QED BY <1>1, <1>2, <2>1, Zenon
<1>3. CASE ~(carrier /\ Off)
  <2>1. sent' = sent /\ width' = IF carrier THEN width + 1 ELSE 0
    BY <1>3, Zenon DEF TIMER0_COMPA
  <2> QED BY <1>1, <1>3, <2>1, Zenon
<1> QED BY <1>2, <1>3, Zenon

LEMMA PulseLeaves ==
  ASSUME SendInv, TIMER0_COMPA, carrier, Off
  PROVE  \E p \in Pulses : /\ sent' = Append(sent, p)
                           /\ p = frame[next] \/ (next = 1 /\ p = "noise")
<1> DEFINE s  == frame[next]
           c0 == counter69 - width
<1>1. /\ logical = {s} /\ counter69 < Limit[s] /\ counter69 \in Nat
      /\ counter69 < 65536 /\ width \in Nat /\ width <= counter69
      /\ Fresh(c0, 3 * MaxLag)
  BY DEF SendInv, FlagInv, CountInv
<1>2. s \in Symbols /\ (next = 1 => s = "begin")
  BY SymbolInHand DEF SendInv, FlagInv, FrameInv
<1>3. Limit[s] <= Ticks
  <2>1. PICK x \in logical : Ticks >= Limit[x]
    BY DEF Off, CutsCarrier
  <2>2. x = s
    BY <1>1
  <2>3. Ticks \in Int /\ Limit[s] \in Int
    BY <1>1, <1>2, ByteTick, SymbolTicks DEF Ticks
  <2> QED BY <2>1, <2>2, <2>3
<1>4. counter69 + 1 = Limit[s]
  <2>1. counter69 < 65535
    BY <1>1, <1>2, SymbolTicks
  <2>2. Ticks = counter69 + 1
    BY <1>1, <2>1, ByteTick DEF Ticks
  <2> QED BY <1>1, <1>2, <1>3, <2>2, SymbolTicks
<1>5. PICK error \in -Shrink .. Stretch, fall \in Clocks :
        sent' = Append(sent, Received(fall, width + 1 + error))
  BY DEF TIMER0_COMPA
<1> DEFINE d == width + 1 + error
<1>6. /\ error \in Int /\ -Shrink <= error /\ error <= Stretch
      /\ d = Limit[s] - c0 + error
  BY <1>1, <1>2, <1>4, <1>5, Margins, SymbolTicks
<1>7. /\ d \in Int /\ 0 <= d /\ d < 32768
      /\ Classify(d) = s \/ (next = 1 /\ Classify(d) = "noise")
  <2>1. CASE 0 <= c0 /\ c0 <= 3 * MaxLag
    <3>1. Limit[s] - 7 <= d /\ d <= Limit[s] + 9 /\ d \in Int
      BY <1>1, <1>2, <1>6, <2>1, Margins, SymbolTicks
    <3>2. d \in Limit[s] - 7 .. Limit[s] + 9
      BY <1>2, <3>1, SymbolTicks
    <3>3. 0 <= d /\ d < 32768
      BY <1>2, <3>1, SymbolTicks
    <3>4. Classify(d) = s
      BY <1>2, <3>2, PulseRecognised
    <3> QED BY <3>1, <3>3, <3>4
  <2>2. CASE next = 1 /\ 256 <= c0 /\ c0 <= 256 + 3 * MaxLag
    <3>1. Limit[s] = 268
      BY <1>2, <2>2, TickCounts
    <3>2. 0 <= d /\ d <= 21 /\ d \in Int
      BY <1>1, <1>6, <2>2, <3>1, Margins
    <3>3. Classify(d) = "noise"
      BY <3>2, TornBeginIsNoise
    <3> QED BY <2>2, <3>2, <3>3
  <2> QED BY <1>1, <2>1, <2>2 DEF Fresh
<1>8. Received(fall, d) = Classify(d)
  <2>1. fall \in Int /\ 0 <= fall /\ fall < 65536
    BY <1>5, TransmitterAssumption DEF TransmitterAssumption
  <2> HIDE DEF d
  <2>2. PulseDuration(fall, (fall + d) % 65536) = d
    BY <1>7, <2>1, WidthSurvivesTheWrap
  <2> QED BY <2>2 DEF Received
<1>9. Classify(d) \in Pulses
  BY <1>7, ClassifyPulse
<1> QED BY <1>5, <1>7, <1>8, <1>9

(* The pulses of the frame in hand after the interrupt. *)
LEMMA TickKeepsFrame ==
  ASSUME SendInv, TIMER0_COMPA
  PROVE  FrameInv'
<1> USE DEF SendInv
<1>1. CASE carrier /\ Off
  <2>1. PICK p \in Pulses : sent' = Append(sent, p)
    BY <1>1, PulseLeaves
  <2>2. /\ pc = "wait" /\ pc' = pc /\ next' = next /\ frame' = frame
        /\ ~carrier'
    BY <1>1 DEF TIMER0_COMPA, FlagInv
  <2>3. sent \in Seq(Pulses) /\ Len(sent) = next - 1 /\ next \in 1 .. 10
    BY <1>1, <2>2 DEF FrameInv
  <2>4. sent' \in Seq(Pulses) /\ Len(sent') = next
    BY <2>1, <2>3
  <2> QED BY <2>2, <2>4 DEF FrameInv
<1>2. CASE ~(carrier /\ Off)
  <2>1. /\ sent' = sent /\ pc' = pc /\ next' = next /\ frame' = frame
        /\ carrier' = carrier
    <3>1. pc' = pc /\ next' = next /\ frame' = frame
      BY DEF TIMER0_COMPA
    <3>2. carrier \in BOOLEAN
      BY DEF FlagInv
    <3>3. sent' = sent /\ carrier' = carrier
      BY <1>2, <3>2, TickEffects, Zenon
    <3> QED BY <3>1, <3>3
  <2> QED BY <2>1 DEF FrameInv
<1> QED BY <1>1, <1>2

(* The counter and the flags after it. *)
LEMMA TickKeepsCount ==
  ASSUME SendInv, TIMER0_COMPA
  PROVE  FlagInv' /\ CountInv'
<1> USE DEF SendInv
<1>0. /\ counter69 \in Nat /\ counter69 < 65536 /\ lag \in Nat /\ width \in Nat
      /\ lag <= MaxLag /\ next \in 1 .. 10
  BY DEF CountInv, FrameInv
<1>1. /\ counter69' = Ticks /\ pc' = pc /\ next' = next /\ frame' = frame
      /\ logical' = { s \in logical : ~LowersFlag(s, Ticks) }
      /\ lag' = IF Runnable THEN lag + 1 ELSE 0
      /\ Runnable => lag < MaxLag
  BY DEF TIMER0_COMPA
<1>2. Ticks \in Nat /\ Ticks < 65536
  BY <1>0, ByteTick DEF Ticks
<1>3. counter69 < 65535 => Ticks = counter69 + 1
  BY <1>0, ByteTick DEF Ticks
<1>4. LowByte(counter69) < 255 => LowByte(Ticks) = LowByte(counter69) + 1
  BY <1>0, ByteTick DEF Ticks
<1>5. lag' \in Nat /\ lag' <= MaxLag
  BY <1>0, <1>1, Margins
<1>6. CASE pc \in {"idle", "reset", "resetLow", "resetHigh", "raise"}
  <2>1. logical = {} /\ ~carrier /\ logical' = {}
    BY <1>1, <1>6 DEF FlagInv
  <2>2. ~carrier' /\ carrier' \in BOOLEAN /\ width' = 0
    BY <2>1, TickEffects, Zenon DEF FlagInv
  <2>3. FlagInv'
    BY <1>1, <1>6, <2>1, <2>2 DEF FlagInv
  <2>4. CountInv'
    <3>1. CASE pc = "idle"
      BY <1>0, <1>1, <1>2, <1>5, <2>1, <2>2, <3>1 DEF CountInv
    <3>2. CASE pc # "idle"
      <4>1. lag' = lag + 1 /\ lag < MaxLag
        BY <1>1, <1>6, <3>2 DEF Runnable
      <4>2. pc = "reset" /\ next > 1 => LowByte(Ticks) <= 239 + MaxLag + lag'
        <5> SUFFICES ASSUME pc = "reset", next > 1
                     PROVE  LowByte(Ticks) <= 239 + MaxLag + lag'
          OBVIOUS
        <5>1. LowByte(counter69) <= 239 + MaxLag + lag
          BY DEF CountInv
        <5>2. LowByte(counter69) \in Nat
          BY <1>0, Bytes
        <5> QED BY <1>0, <1>4, <4>1, <5>1, <5>2, Margins
      <4>3. pc = "resetLow" => /\ Ticks <= 255 + lag'
                               /\ next > 1 => Ticks <= 239 + 2 * MaxLag + lag'
        BY <1>0, <1>3, <4>1, Margins DEF CountInv
      <4>4. pc = "resetHigh" => LowByte(Ticks) <= lag'
        <5> SUFFICES ASSUME pc = "resetHigh"
                     PROVE  LowByte(Ticks) <= lag'
          OBVIOUS
        <5>1. LowByte(counter69) <= lag
          BY DEF CountInv
        <5>2. LowByte(counter69) \in Nat
          BY <1>0, Bytes
        <5> QED BY <1>0, <1>4, <4>1, <5>1, <5>2, Margins
      <4>5. pc = "raise" => Fresh(Ticks, MaxLag + lag')
        BY <1>0, <1>3, <4>1, Margins DEF CountInv, Fresh
      <4> QED BY <1>1, <1>2, <1>5, <1>6, <2>1, <2>2, <4>2, <4>3, <4>4, <4>5
              DEF CountInv, Fresh
    <3> QED BY <3>1, <3>2
  <2> QED BY <2>3, <2>4
<1>7. CASE pc = "carrier"
  <2>1. logical = {frame[next]} /\ ~carrier /\ frame[next] \in Symbols
    BY <1>7, SymbolInHand DEF FlagInv, FrameInv
  <2>2. ~carrier' /\ carrier' \in BOOLEAN /\ width' = 0
    BY <2>1, TickEffects, Zenon DEF FlagInv
  <2>3. lag' = lag + 1 /\ lag < MaxLag
    BY <1>1, <1>7 DEF Runnable
  <2>4. Fresh(counter69, 2 * MaxLag + lag)
    BY <1>7 DEF CountInv
  <2>5. Fresh(Ticks, 2 * MaxLag + lag')
    BY <1>0, <1>3, <2>3, <2>4, Margins DEF Fresh
  <2>6. ~(Ticks > Value[frame[next]])
    <3>1. next = 1 => Value[frame[next]] = 750
      BY <1>7, SymbolInHand, TickCounts DEF FrameInv
    <3> QED BY <1>0, <1>2, <2>1, <2>3, <2>5, <3>1, SymbolTicks, Margins
            DEF Fresh
  <2>7. logical' = {frame[next]}
    BY <1>1, <2>1, <2>6 DEF LowersFlag
  <2>8. FlagInv'
    BY <1>1, <1>7, <2>2, <2>7 DEF FlagInv
  <2>9. CountInv'
    BY <1>1, <1>2, <1>5, <1>7, <2>2, <2>5 DEF CountInv, Fresh
  <2> QED BY <2>8, <2>9
<1>8. CASE pc = "wait"
  <2>1. /\ logical = {} \/ logical = {frame[next]}
        /\ frame[next] \in Symbols /\ carrier \in BOOLEAN
        /\ carrier => logical = {frame[next]}
    BY <1>8, SymbolInHand DEF FlagInv, FrameInv
  <2>2. CASE logical = {}
    <3>1. ~carrier' /\ carrier' \in BOOLEAN /\ width' = 0 /\ ~carrier
      BY <2>1, <2>2, TickEffects
    <3>2. logical' = {}
      BY <1>1, <2>2
    <3>3. lag' = lag + 1 /\ lag < MaxLag
      BY <1>1, <1>8, <2>2 DEF Runnable, SymbolOver
    <3>4. next < 10 => LowByte(Ticks) <= 239 + lag'
      <4> SUFFICES ASSUME next < 10 PROVE LowByte(Ticks) <= 239 + lag'
        OBVIOUS
      <4>1. LowByte(counter69) <= 239 + lag
        BY <1>8, <2>2 DEF CountInv
      <4>2. LowByte(counter69) \in Nat
        BY <1>0, Bytes
      <4> QED BY <1>0, <1>4, <3>3, <4>1, <4>2, Margins
    <3>5. FlagInv'
      BY <1>1, <1>8, <3>1, <3>2 DEF FlagInv
    <3>6. CountInv'
      BY <1>1, <1>2, <1>5, <1>8, <3>1, <3>2, <3>4 DEF CountInv
    <3> QED BY <3>5, <3>6
  <2>3. CASE logical = {frame[next]}
    <3> DEFINE s == frame[next]
    <3>1. /\ counter69 <= Value[s]
          /\ carrier => /\ counter69 < Limit[s] /\ width <= counter69
                        /\ Fresh(counter69 - width, 3 * MaxLag)
      BY <1>8, <2>3 DEF CountInv
    <3>2. /\ Limit[s] \in Int /\ 75 <= Limit[s] /\ Limit[s] <= 310
          /\ Value[s] \in Int /\ 100 <= Value[s] /\ Value[s] <= 5000
          /\ Limit[s] < Value[s]
      BY <2>1, SymbolTicks
    <3>3. Ticks = counter69 + 1
      BY <1>0, <1>3, <3>1, <3>2
    <3>4. lag' = 0
      BY <1>1, <1>8, <2>3 DEF Runnable, SymbolOver
    <3>5. /\ carrier' \in BOOLEAN
          /\ carrier' => /\ carrier /\ ~Off /\ width' = width + 1
          /\ ~carrier' => width' = 0
      BY <2>1, TickEffects
    <3>6. carrier' => Ticks < Limit[s]
      BY <1>2, <2>3, <3>2, <3>5 DEF Off, CutsCarrier
    <3>7. carrier' => logical' = {s}
      BY <1>1, <1>2, <2>3, <3>2, <3>6 DEF LowersFlag
    <3>8. \/ logical' = {s} /\ Ticks <= Value[s]
          \/ logical' = {} /\ Ticks > Value[s]
      BY <1>1, <1>2, <2>3, <3>2 DEF LowersFlag
    <3>9. logical' = {} /\ next < 10 => LowByte(Ticks) <= 239 + lag'
      <4> SUFFICES ASSUME logical' = {}, next < 10
                   PROVE  LowByte(Ticks) <= 239
        BY <3>4
      <4>1. Ticks = Value[s] + 1
        BY <1>0, <3>1, <3>2, <3>3, <3>8
      <4>2. s \in {"begin", "zero", "one"}
        BY <1>0, <1>8, SymbolInHand DEF FrameInv
      <4>3. Ticks \in {101, 201, 751}
        BY <4>1, <4>2, TickCounts
      <4> QED BY <4>3 DEF LowByte
    <3>10. FlagInv'
      BY <1>1, <1>8, <3>5, <3>7, <3>8 DEF FlagInv
    <3>11. carrier' => /\ width' <= Ticks
                       /\ Ticks - width' = counter69 - width
                       /\ Fresh(Ticks - width', 3 * MaxLag)
      BY <1>0, <3>1, <3>3, <3>5
    <3>12. width' \in Nat
      BY <1>0, <3>5
    <3>13. CountInv'
      <4>1. carrier' => /\ counter69' < Limit[frame'[next']]
                        /\ width' <= counter69'
                        /\ Fresh(counter69 - width, 3 * MaxLag)'
        BY <1>1, <3>6, <3>11 DEF Fresh
      <4>2. pc' = "wait" /\ logical' # {}
              => counter69' <= Value[frame'[next']]
        BY <1>1, <3>8
      <4>3. pc' = "wait" /\ logical' = {} /\ next' < 10
              => LowByte(counter69') <= 239 + lag'
        BY <1>1, <3>9
      <4>4. counter69' \in Nat /\ counter69' < 65536 /\ pc' = "wait"
        BY <1>1, <1>2, <1>8
      <4> QED BY <1>5, <3>12, <4>1, <4>2, <4>3, <4>4 DEF CountInv
    <3> QED BY <3>10, <3>13
  <2> QED BY <2>1, <2>2, <2>3
<1> QED BY <1>6, <1>7, <1>8 DEF FrameInv

-----------------------------------------------------------------------------
(* The theorems. *)

LEMMA TickStep ==
  ASSUME SendInv, TIMER0_COMPA
  PROVE  SendInv'
<1>1. FrameInv'
  BY TickKeepsFrame
<1>2. FlagInv' /\ CountInv'
  BY TickKeepsCount
<1>3. SyncInv'
  BY DEF SendInv, SyncInv, TIMER0_COMPA, sync
<1> QED BY <1>1, <1>2, <1>3 DEF SendInv

LEMMA SendNext == SendInv /\ [Next]_vars => SendInv'
<1> SUFFICES ASSUME SendInv, [Next]_vars PROVE SendInv'
  OBVIOUS
<1>1. ASSUME NEW command \in Commands, sendCommand(command) PROVE SendInv'
  BY <1>1, CommandStep
<1>2. CASE SendStep
  BY <1>2, ResetStep, RaiseStep, CarrierStep, WaitStep DEF SendStep
<1>3. CASE resynchronise
  BY <1>3, ResynchroniseStep
<1>4. CASE TIMER0_COMPA
  BY <1>4, TickStep
<1>5. CASE UNCHANGED vars
  BY <1>5 DEF vars, sync, SendInv, FrameInv, FlagInv, CountInv, SyncInv, Fresh
<1> QED BY <1>1, <1>2, <1>3, <1>4, <1>5 DEF Next

LEMMA Sending == Spec => []SendInv
<1>1. Init => SendInv
  BY SendInit
<1>2. SendInv /\ [Next]_vars => SendInv'
  BY SendNext
<1> QED BY <1>1, <1>2, PTL DEF Spec

(* The types, for every byte, every counter value and every allowed lag. *)
THEOREM TransmitterTypeCorrect == Spec => []TypeOK
<1>1. SendInv => TypeOK
  <2> SUFFICES ASSUME SendInv PROVE TypeOK
    OBVIOUS
  <2>1. Len(frame) \in {0, 10} /\ Len(sent) <= Len(frame)
    <3>1. CASE frame = << >>
      BY <3>1 DEF SendInv, FrameInv
    <3>2. CASE frame # << >>
      BY <3>2, SymbolInHand DEF SendInv, FrameInv
    <3> QED BY <3>1, <3>2
  <2>2. logical \subseteq Symbols
    <3>1. CASE frame = << >>
      BY <3>1 DEF SendInv, FrameInv, FlagInv
    <3>2. CASE frame # << >>
      BY <3>2, SymbolInHand DEF SendInv, FlagInv
    <3> QED BY <3>1, <3>2
  <2>3. /\ counter69 \in Nat /\ counter69 < 65536
        /\ lag \in 0 .. MaxLag /\ width \in Nat
    <3>1. /\ counter69 \in Nat /\ counter69 < 65536
          /\ lag \in Nat /\ lag <= MaxLag /\ width \in Nat
      BY DEF SendInv, CountInv
    <3>2. lag \in 0 .. MaxLag
      BY <3>1, Margins
    <3> QED BY <3>1, <3>2
  <2> QED BY <2>1, <2>2, <2>3 DEF SendInv, FrameInv, FlagInv, SyncInv, TypeOK
<1> QED BY <1>1, Sending, PTL

(***************************************************************************)
(* The LED is never left on: raising the flag before the carrier bit is    *)
(* enough, however the interrupt falls between the statements of sendNEC.  *)
(***************************************************************************)
THEOREM CarrierIsGuarded == Spec => []CarrierGuarded
<1>1. SendInv => CarrierGuarded
  BY DEF SendInv, FlagInv, CountInv, CarrierGuarded
<1> QED BY <1>1, Sending, PTL

(* Every step is one of FrameSender's, or none. *)
LEMMA StepKeepsPromise ==
  SendInv /\ [Next]_vars => [Promise!Next]_(Promise!vars)
<1> SUFFICES ASSUME SendInv, [Next]_vars
             PROVE  Promise!Next \/ UNCHANGED << frame, sent >>
  BY DEF Promise!vars
<1>1. ASSUME NEW command \in Commands, sendCommand(command)
      PROVE  Promise!Next
  <2>1. Promise!StartFrame(command)
    BY <1>1 DEF sendCommand, Promise!StartFrame, SendInv, FrameInv,
                Frame, Promise!Frame, Bit, Promise!Bit
  <2> QED BY <2>1 DEF Promise!Next
<1>2. CASE SendStep \/ resynchronise
  BY <1>2 DEF SendStep, resetCounter, raiseFlag, carrierOn, waitOver,
              resynchronise
<1>3. CASE TIMER0_COMPA
  <2>1. CASE carrier /\ Off
    <3>1. PICK p \in Pulses :
            /\ sent' = Append(sent, p)
            /\ p = frame[next] \/ (next = 1 /\ p = "noise")
      BY <1>3, <2>1, PulseLeaves
    <3>2. /\ sent \in Seq(Pulses) /\ Len(sent) = next - 1
          /\ next \in 1 .. 10 /\ frame # << >> /\ Len(frame) = 10
      BY <2>1, SymbolInHand DEF SendInv, FrameInv, FlagInv
    <3>3. frame' = frame
      BY <1>3 DEF TIMER0_COMPA
    <3>4. CASE p = frame[next]
      <4>1. Promise!EmitPulse
        BY <3>1, <3>2, <3>3, <3>4 DEF Promise!EmitPulse
      <4> QED BY <4>1 DEF Promise!Next
    <3>5. CASE next = 1 /\ p = "noise"
      <4>1. sent = << >>
        BY <3>2, <3>5
      <4>2. sent' = << "noise" >>
        BY <3>1, <3>5, <4>1
      <4>3. Promise!SpoilBegin
        BY <3>2, <3>3, <4>1, <4>2 DEF Promise!SpoilBegin
      <4> QED BY <4>3 DEF Promise!Next
    <3> QED BY <3>1, <3>4, <3>5
  <2>2. CASE ~(carrier /\ Off)
    BY <1>3, <2>2, TickEffects DEF SendInv, FlagInv, TIMER0_COMPA
  <2> QED BY <2>1, <2>2
<1>4. CASE UNCHANGED vars
  BY <1>4 DEF vars
<1> QED BY <1>1, <1>2, <1>3, <1>4 DEF Next

(***************************************************************************)
(* The transmitter implements FrameSender: every pulse but a torn begin    *)
(* leaves with the width of its symbol and is classified as that symbol,   *)
(* also across the wrap of the receiver's counter.                         *)
(***************************************************************************)
THEOREM TransmitterKeepsPromise == Spec => SendsFrames
<1>1. Init => Promise!Init
  BY DEF Init, Promise!Init
<1>2. SendInv /\ [Next]_vars => [Promise!Next]_(Promise!vars)
  BY StepKeepsPromise
<1> QED BY <1>1, <1>2, Sending, PTL DEF Spec, SendsFrames, Promise!Spec

-----------------------------------------------------------------------------
(***************************************************************************)
(* The safety half of CommandCompletes.  LeftToDo counts down to the end   *)
(* of the command: a statement of the main loop lowers it, and so does an  *)
(* interrupt in a busy wait; any other interrupt uses up some of MaxLag.   *)
(***************************************************************************)
SymbolLeft ==
  CASE pc = "reset" -> 5006
    [] pc = "resetLow" \/ pc = "resetHigh" -> 5005
    [] pc = "raise" -> 5004
    [] pc = "carrier" -> 5003
    [] pc = "wait" /\ logical # {} -> 5002 - counter69
    [] OTHER -> 1

LeftToDo == IF pc = "idle" THEN 0 ELSE (10 - next) * 6000 + SymbolLeft

GetsOn == LeftToDo' < LeftToDo \/ (LeftToDo' = LeftToDo /\ lag' > lag)

LEMMA LeftIsCounted ==
  ASSUME SendInv, pc # "idle"
  PROVE  /\ SymbolLeft \in Int /\ 1 <= SymbolLeft /\ SymbolLeft <= 5006
         /\ pc = "wait" /\ logical # {} => 2 <= SymbolLeft
         /\ LeftToDo = (10 - next) * 6000 + SymbolLeft
         /\ LeftToDo \in Nat \ {0}
<1>0. next \in 1 .. 10 /\ counter69 \in Nat
  BY DEF SendInv, FrameInv, CountInv
<1>1. pc = "wait" /\ logical # {} => counter69 <= 5000
  <2> SUFFICES ASSUME pc = "wait", logical # {} PROVE counter69 <= 5000
    OBVIOUS
  <2>1. frame[next] \in Symbols
    BY SymbolInHand DEF SendInv, FrameInv
  <2>2. counter69 <= Value[frame[next]]
    BY DEF SendInv, CountInv
  <2> DEFINE most == Value[frame[next]]
  <2>3. most \in Int /\ most <= 5000
    BY <2>1, SymbolTicks
  <2>4. counter69 <= most
    BY <2>2
  <2> HIDE DEF most
  <2> QED BY <1>0, <2>3, <2>4
<1>2. /\ SymbolLeft \in Int /\ 1 <= SymbolLeft /\ SymbolLeft <= 5006
      /\ pc = "wait" /\ logical # {} => 2 <= SymbolLeft
  <2>1. CASE pc = "wait" /\ logical # {}
    <3>1. SymbolLeft = 5002 - counter69
      BY <2>1 DEF SymbolLeft
    <3> QED BY <1>0, <1>1, <2>1, <3>1
  <2>2. CASE ~(pc = "wait" /\ logical # {})
    <3>1. SymbolLeft \in {5006, 5005, 5004, 5003, 1}
      BY <2>2 DEF SymbolLeft
    <3> QED BY <2>2, <3>1
  <2> QED BY <2>1, <2>2
<1>3. LeftToDo = (10 - next) * 6000 + SymbolLeft
  BY DEF LeftToDo
<1> QED BY <1>0, <1>2, <1>3

LEMMA StatementGetsOn ==
  ASSUME SendInv, SendInv', SendStep
  PROVE  LeftToDo' < LeftToDo
<1>0. next \in 1 .. 10 /\ pc # "idle"
  BY DEF SendInv, FrameInv, SendStep, resetCounter, raiseFlag, carrierOn,
         waitOver
<1>1. /\ SymbolLeft \in Int /\ 1 <= SymbolLeft /\ SymbolLeft <= 5006
      /\ LeftToDo = (10 - next) * 6000 + SymbolLeft
  BY <1>0, LeftIsCounted
<1>2. CASE resetCounter
  BY <1>0, <1>2 DEF resetCounter, LeftToDo, SymbolLeft
<1>3. CASE raiseFlag
  BY <1>0, <1>3 DEF raiseFlag, LeftToDo, SymbolLeft
<1>4. CASE carrierOn
  <2>1. /\ pc = "carrier" /\ pc' = "wait" /\ next' = next
        /\ counter69' = counter69 /\ counter69 \in Nat
    BY <1>4 DEF carrierOn, SendInv, CountInv
  <2>2. LeftToDo = (10 - next) * 6000 + 5003
    BY <2>1 DEF LeftToDo, SymbolLeft
  <2>3. \/ LeftToDo' = (10 - next) * 6000 + 5002 - counter69
        \/ LeftToDo' = (10 - next) * 6000 + 1
    BY <1>0, <2>1 DEF LeftToDo, SymbolLeft
  <2> QED BY <1>0, <2>1, <2>2, <2>3
<1>5. CASE waitOver
  <2>1. Len(frame) = 10
    BY <1>5, SymbolInHand DEF waitOver, SendInv, FrameInv
  <2>2. LeftToDo = (10 - next) * 6000 + 1
    BY <1>5 DEF waitOver, SymbolOver, LeftToDo, SymbolLeft
  <2>3. \/ LeftToDo' = 0
        \/ next' = next + 1 /\ LeftToDo' = (10 - (next + 1)) * 6000 + 5006
    BY <1>5, <2>1 DEF waitOver, LeftToDo, SymbolLeft
  <2> QED BY <1>0, <2>2, <2>3
<1> QED BY <1>2, <1>3, <1>4, <1>5 DEF SendStep

LEMMA TickGetsOn ==
  ASSUME SendInv, TIMER0_COMPA, pc # "idle"
  PROVE  GetsOn
<1>0. /\ next \in 1 .. 10 /\ counter69 \in Nat /\ counter69 < 65536
      /\ lag \in Nat /\ pc' = pc /\ next' = next
  BY DEF SendInv, FrameInv, CountInv, TIMER0_COMPA
<1>1. logical' \subseteq logical
  BY DEF TIMER0_COMPA
<1>2. CASE Runnable
  <2>1. lag' = lag + 1
    BY <1>2 DEF TIMER0_COMPA
  <2>2. LeftToDo' = LeftToDo
    BY <1>0, <1>1, <1>2 DEF Runnable, SymbolOver, LeftToDo, SymbolLeft
  <2> QED BY <1>0, <2>1, <2>2 DEF GetsOn
<1>3. CASE ~Runnable
  <2>1. pc = "wait" /\ logical # {}
    BY <1>3 DEF Runnable, SymbolOver
  <2>2. /\ SymbolLeft \in Int /\ 2 <= SymbolLeft /\ SymbolLeft = 5002 - counter69
        /\ LeftToDo = (10 - next) * 6000 + SymbolLeft
    BY <2>1, LeftIsCounted DEF SymbolLeft
  <2>3. counter69' = counter69 + 1
    <3>1. counter69 + 1 < 65536
      BY <1>0, <2>2
    <3>2. counter69' = (counter69 + 1) % 65536
      BY DEF TIMER0_COMPA, Ticks
    <3> QED BY <1>0, <3>1, <3>2
  <2>4. \/ SymbolLeft' = 5002 - (counter69 + 1)
        \/ SymbolLeft' = 1
    BY <1>0, <2>1, <2>3 DEF SymbolLeft
  <2>5. LeftToDo' = (10 - next) * 6000 + SymbolLeft'
    BY <1>0, <2>1 DEF LeftToDo
  <2> QED BY <1>0, <2>2, <2>4, <2>5 DEF GetsOn
<1> QED BY <1>2, <1>3

NearTheEnd == LeftToDo \in Nat /\ LeftToDo < 60000 /\ lag \in 0 .. MaxLag

(***************************************************************************)
(* No step between the start of a command and its end is idle: each brings *)
(* the end nearer, by a number that begins below 60000, or uses up one of  *)
(* the at most MaxLag interrupts that may come before the next statement.  *)
(***************************************************************************)
THEOREM CommandsGetOn ==
  Spec => /\ []NearTheEnd
          /\ [][pc # "idle" => GetsOn]_vars
<1>1. ASSUME SendInv PROVE NearTheEnd
  <2>1. lag \in 0 .. MaxLag
    BY <1>1, Margins DEF SendInv, CountInv
  <2>2. LeftToDo \in Nat /\ LeftToDo < 60000
    <3>1. CASE pc = "idle"
      BY <3>1 DEF LeftToDo
    <3>2. CASE pc # "idle"
      <4>1. next \in 1 .. 10
        BY <1>1 DEF SendInv, FrameInv
      <4>2. /\ SymbolLeft \in Int /\ 1 <= SymbolLeft /\ SymbolLeft <= 5006
            /\ LeftToDo = (10 - next) * 6000 + SymbolLeft
        BY <1>1, <3>2, LeftIsCounted
      <4> QED BY <4>1, <4>2
    <3> QED BY <3>1, <3>2
  <2> QED BY <2>1, <2>2 DEF NearTheEnd
<1>2. SendInv /\ SendInv' /\ [Next]_vars => [pc # "idle" => GetsOn]_vars
  <2> SUFFICES ASSUME SendInv, SendInv', Next, pc # "idle" PROVE GetsOn
    OBVIOUS
  <2>1. SendStep \/ TIMER0_COMPA
    BY DEF Next, sendCommand, resynchronise
  <2>2. CASE SendStep
    BY <2>2, StatementGetsOn DEF GetsOn
  <2>3. CASE TIMER0_COMPA
    BY <2>3, TickGetsOn
  <2> QED BY <2>1, <2>2, <2>3
<1> QED BY Sending, <1>1, <1>2, PTL DEF Spec
=============================================================================
