---------------------------- MODULE Sound_proofs ----------------------------
(***************************************************************************)
(* The player implements PlayList, for every song.  The step needs TypeOK, *)
(* and that what counts the ticks belongs to the note that sounds.         *)
(***************************************************************************)
EXTENDS Sound, TLAPS

InStep ==
  running => /\ tone = musicCt
             /\ maxDuration = Ticks(tone)

SoundInv == TypeOK /\ InStep

LEMMA TicksAreNatural == ASSUME NEW n \in Index PROVE Ticks(n) \in Nat
<1>1. durations[n] * 125 \in Nat
  BY SoundAssumption
<1>2. \A x \in Nat : x \div 2 \in Nat
  OBVIOUS
<1> QED BY <1>1, <1>2 DEF Ticks

LEMMA NoteBegins ==
  ASSUME NEW n \in Index, BeginNote(n)
  PROVE  /\ musicCt' = n /\ tone' = n /\ duration' = 0
         /\ maxDuration' = Ticks(n) /\ maxDuration' \in Nat
<1>1. musicCt' = n /\ tone' = n /\ duration' = 0 /\ maxDuration' = Ticks(n)
  BY DEF BeginNote, setDuration, Ticks
<1> QED BY <1>1, TicksAreNatural

LEMMA InitSoundInv == Init => SoundInv
<1> SUFFICES ASSUME Init PROVE SoundInv
  OBVIOUS
<1>1. /\ musicCt \in 0 .. length /\ tone \in Index
      /\ maxDuration \in Nat /\ duration \in 0 .. maxDuration
  BY SoundAssumption DEF Init, Index
<1>2. running = FALSE /\ _loop \in BOOLEAN
  BY DEF Init
<1> QED BY <1>1, <1>2 DEF SoundInv, TypeOK, InStep

LEMMA NextSoundInv == SoundInv /\ [Next]_vars => SoundInv'
<1> SUFFICES ASSUME SoundInv, [Next]_vars PROVE SoundInv'
  OBVIOUS
<1> USE DEF SoundInv, TypeOK, InStep
<1>0. length \in 1 .. 255 /\ 0 \in Index
  BY SoundAssumption DEF Index
<1>1. ASSUME NEW n \in Index, BeginNote(n), running', _loop' \in BOOLEAN
      PROVE  SoundInv'
  <2>1. /\ musicCt' = n /\ tone' = n /\ duration' = 0
        /\ maxDuration' = Ticks(n) /\ maxDuration' \in Nat
    BY <1>1, NoteBegins
  <2>2. musicCt' \in 0 .. length /\ duration' \in 0 .. maxDuration'
    BY <1>0, <2>1 DEF Index
  <2>3. InStep'
    BY <2>1 DEF Ticks
  <2>4. running' \in BOOLEAN
    <3>1. running' = running \/ running' \in BOOLEAN
      BY DEF Next, TIMER2_OVF, CountTick, NoteOver, playMusic, stopMusic,
             enableLoop, disableLoop, vars
    <3> QED BY <3>1, Zenon
  <2> QED BY <1>1, <2>1, <2>2, <2>3, <2>4
<1>2. CASE enableLoop \/ disableLoop
  <2>1. _loop' \in BOOLEAN
    BY <1>2 DEF enableLoop, disableLoop
  <2>2. UNCHANGED << running, musicCt, duration, maxDuration, tone >>
    BY <1>2 DEF enableLoop, disableLoop
  <2> QED BY <2>1, <2>2 DEF Ticks
<1>3. CASE playMusic
  <2>1. BeginNote(0) /\ running' /\ _loop' \in BOOLEAN
    BY <1>3 DEF playMusic
  <2> QED BY <1>0, <1>1, <2>1
<1>4. CASE stopMusic
  BY <1>4 DEF stopMusic
<1>5. CASE TIMER2_OVF
  <2>1. running /\ musicCt \in Index /\ _loop' \in BOOLEAN
    BY <1>5 DEF TIMER2_OVF
  <2>2. CASE CountTick
    <3>1. duration' \in 0 .. maxDuration
      BY <2>2 DEF CountTick, IsOver
    <3> QED BY <2>1, <2>2, <3>1 DEF CountTick, IsOver, Ticks
  <2>3. CASE Following <= length - 1 /\ BeginNote(Following) /\ UNCHANGED running
    <3>1. Following \in Index
      BY <1>0, <2>1, <2>3 DEF Following, Index
    <3> QED BY <1>1, <2>1, <2>3, <3>1
  <2>4. CASE BeginNote(0) /\ UNCHANGED running
    BY <1>0, <1>1, <2>1, <2>4
  <2>5. CASE /\ musicCt' = Following /\ duration' = 0 /\ running' = FALSE
             /\ UNCHANGED << maxDuration, tone >>
    <3>1. musicCt' \in 0 .. length /\ duration' \in 0 .. maxDuration'
      BY <1>0, <2>1, <2>5 DEF Following, Index
    <3> QED BY <2>1, <2>5, <3>1
  <2> QED BY <1>5, <2>2, <2>3, <2>4, <2>5 DEF TIMER2_OVF, NoteOver
<1>6. CASE UNCHANGED vars
  BY <1>6 DEF vars, Ticks
<1> QED BY <1>2, <1>3, <1>4, <1>5, <1>6 DEF Next

(* The index stays in the song. *)
THEOREM SoundTypeCorrect == Spec => []TypeOK
<1>1. SoundInv => TypeOK
  BY DEF SoundInv
<1> QED BY InitSoundInv, NextSoundInv, <1>1, PTL DEF Spec

-----------------------------------------------------------------------------
nowNote == IF running THEN tone ELSE -1
nowLeft == IF running THEN maxDuration - duration ELSE 0

(* A step of the player is a step of the play list, or none at all. *)
LEMMA StepOfTheList ==
  SoundInv /\ SoundInv' /\ [Next]_vars => [List!Next]_<< nowNote, nowLeft >>
<1> SUFFICES ASSUME SoundInv, SoundInv', [Next]_vars
             PROVE  [List!Next]_<< nowNote, nowLeft >>
  OBVIOUS
<1> USE DEF SoundInv, TypeOK, InStep
<1>0. length \in 1 .. 255 /\ 0 \in Index
  BY SoundAssumption DEF Index
<1>1. CASE enableLoop \/ disableLoop \/ UNCHANGED vars
  BY <1>1 DEF enableLoop, disableLoop, vars, nowNote, nowLeft
<1>2. CASE playMusic
  <2>1. /\ ~running /\ running' /\ tone' = 0 /\ duration' = 0
        /\ maxDuration' = Ticks(0) /\ maxDuration' \in Nat
    BY <1>0, <1>2, NoteBegins DEF playMusic
  <2>2. nowNote = -1 /\ nowNote' = 0 /\ nowLeft' = Ticks(0)
    BY <2>1 DEF nowNote, nowLeft
  <2>3. List!Begin
    BY <2>2 DEF List!Begin, List!Silence, List!Sound, nowNote, nowLeft
  <2> QED BY <2>3 DEF List!Next
<1>3. CASE stopMusic
  <2>1. List!Fall
    BY <1>3 DEF stopMusic, List!Fall, List!Silence
  <2> QED BY <2>1 DEF List!Next
<1>4. CASE TIMER2_OVF
  <2>1. /\ running /\ musicCt \in Index /\ tone = musicCt /\ tone \in Int
        /\ tone # -1
    BY <1>0, <1>4 DEF TIMER2_OVF, Index
  <2>2. nowNote = tone /\ nowLeft = maxDuration - duration
    BY <2>1 DEF nowNote, nowLeft
  <2>3. CASE CountTick
    <3>1. nowNote' = nowNote /\ nowLeft' = nowLeft - 1 /\ nowLeft > 0
      BY <2>1, <2>2, <2>3 DEF CountTick, IsOver, nowNote, nowLeft
    <3>2. List!Tick
      BY <2>1, <2>2, <3>1 DEF List!Tick, List!Silence, nowNote, nowLeft
    <3> QED BY <3>2 DEF List!Next
  <2>4. CASE NoteOver
    <3>1. nowLeft = 0
      BY <2>2, <2>4 DEF NoteOver, IsOver
    <3>2. CASE Following <= length - 1 /\ BeginNote(Following) /\ UNCHANGED running
      <4>1. Following = tone + 1 /\ Following \in Index /\ tone + 1 < length
        BY <1>0, <2>1, <3>2 DEF Following, Index
      <4>2. nowNote' = tone + 1 /\ nowLeft' = Ticks(tone + 1)
        BY <2>1, <3>2, <4>1, NoteBegins DEF nowNote, nowLeft
      <4>3. List!Tick
        BY <2>1, <2>2, <3>1, <4>1, <4>2
           DEF List!Tick, List!Silence, List!Sound, nowNote, nowLeft
      <4> QED BY <4>3 DEF List!Next
    <3>3. CASE Following > length - 1 /\ BeginNote(0) /\ UNCHANGED running
      <4>1. tone + 1 = length
        BY <1>0, <2>1, <3>3 DEF Following, Index
      <4>2. nowNote' = 0 /\ nowLeft' = Ticks(0)
        BY <1>0, <2>1, <3>3, NoteBegins DEF nowNote, nowLeft
      <4>3. List!Tick
        BY <2>1, <2>2, <3>1, <4>1, <4>2
           DEF List!Tick, List!Silence, List!Sound, nowNote, nowLeft
      <4> QED BY <4>3 DEF List!Next
    <3>4. CASE running' = FALSE
      <4>1. List!Fall
        BY <3>4 DEF List!Fall, List!Silence
      <4> QED BY <4>1 DEF List!Next
    <3> QED BY <2>4, <3>2, <3>3, <3>4 DEF NoteOver
  <2> QED BY <1>4, <2>3, <2>4 DEF TIMER2_OVF
<1> QED BY <1>1, <1>2, <1>3, <1>4 DEF Next

(* Every note in its order and for its own time, for every song. *)
THEOREM PlayerPlaysTheList == Spec => PlaysTheList
<1>1. Init => List!Init
  BY DEF Init, List!Init, List!Silence
<1>2. SoundInv /\ SoundInv' /\ [Next]_vars
        => [List!Next]_<< IF running THEN tone ELSE -1,
                          IF running THEN maxDuration - duration ELSE 0 >>
  BY StepOfTheList DEF nowNote, nowLeft
<1> QED BY InitSoundInv, NextSoundInv, <1>1, <1>2, PTL
        DEF Spec, PlaysTheList, List!Spec
=============================================================================
