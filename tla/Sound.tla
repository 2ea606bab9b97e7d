------------------------------- MODULE Sound -------------------------------
(***************************************************************************)
(* The music player: calls of the main program that start and stop it, and *)
(* the overflow interrupt of timer 2, which counts the ticks of a note and *)
(* goes to the next one.  The interrupt comes only while the timers have   *)
(* their prescalers set, so playMusic, called when there is silence, is    *)
(* not disturbed by it.  main calls enableLoop and playMusic, once.        *)
(***************************************************************************)
EXTENDS Integers

CONSTANTS
  length,       \* the notes of the song that is loaded
  durations     \* for each note, in ms

Index == 0 .. length - 1

(* length is a byte, and so is musicCt, which counts up to it. *)
ASSUME SoundAssumption ==
  length \in 1 .. 255 /\ durations \in [Index -> Nat]

VARIABLES
  running,                  \* the prescalers are set
  musicCt, duration, maxDuration, _loop,
  tone                      \* the note whose frequency is set

vars == << running, musicCt, duration, maxDuration, _loop, tone >>

Init ==
  /\ running = FALSE
  /\ musicCt = 0 /\ duration = 0 /\ maxDuration = 0
  /\ _loop \in BOOLEAN
  /\ tone = 0

(* 62.5 overflows to the millisecond. *)
setDuration(n) ==
  maxDuration' = (durations[n] * 125) \div 2 /\ duration' = 0

LooksUpTooEarly(n) == musicCt' = n /\ tone' = n /\ setDuration(musicCt)
BeginNote(n) == musicCt' = n /\ tone' = n /\ setDuration(n)

-----------------------------------------------------------------------------
enableLoop == _loop' = TRUE /\ UNCHANGED << running, musicCt, duration,
                                            maxDuration, tone >>

disableLoop == _loop' = FALSE /\ UNCHANGED << running, musicCt, duration,
                                              maxDuration, tone >>

playMusic ==
  /\ ~running
  /\ BeginNote(0)
  /\ running' = TRUE
  /\ UNCHANGED _loop

stopMusic ==
  /\ running /\ running' = FALSE
  /\ UNCHANGED << musicCt, duration, maxDuration, _loop, tone >>

-----------------------------------------------------------------------------
(* TIMER2_OVF.  The tick is counted before the look at the limit. *)
CountsAfterLooking == duration > maxDuration
IsOver == duration + 1 > maxDuration

CountTick ==
  /\ ~IsOver
  /\ duration' = duration + 1
  /\ UNCHANGED << running, musicCt, maxDuration, tone >>

SameNote == musicCt
Following == musicCt + 1

(***************************************************************************)
(* The interrupt clears duration itself, which shows at the end of a song  *)
(* only: for another note setDuration clears it once more.                 *)
(***************************************************************************)
NoteOver ==
  /\ IsOver
  /\ \/ Following <= length - 1 /\ BeginNote(Following) /\ UNCHANGED running
     \/ Following > length - 1 /\ _loop /\ BeginNote(0) /\ UNCHANGED running
     \/ /\ Following > length - 1 /\ ~_loop
        /\ musicCt' = Following /\ duration' = 0 /\ running' = FALSE
        /\ UNCHANGED << maxDuration, tone >>

TIMER2_OVF == running /\ (CountTick \/ NoteOver) /\ UNCHANGED _loop

Next == TIMER2_OVF \/ playMusic \/ stopMusic \/ enableLoop \/ disableLoop

Spec == Init /\ [][Next]_vars

(* A timer that is started overflows. *)
FairSpec == Spec /\ WF_vars(TIMER2_OVF)

-----------------------------------------------------------------------------
(* Properties. *)

(* musicCt stays a byte, and no note beyond the song is looked up. *)
TypeOK ==
  /\ running \in BOOLEAN /\ _loop \in BOOLEAN
  /\ musicCt \in 0 .. length
  /\ running => musicCt \in Index
  /\ tone \in Index
  /\ maxDuration \in Nat /\ duration \in 0 .. maxDuration

(***************************************************************************)
(* Every note in its order and for its own time, whatever was stopped or   *)
(* looped before: no note is cut short by ticks counted for another.       *)
(***************************************************************************)
Ticks(n) == (durations[n] * 125) \div 2

List == INSTANCE PlayList
          WITH Notes <- length, Time <- Ticks,
               note <- IF running THEN tone ELSE -1,
               left <- IF running THEN maxDuration - duration ELSE 0

PlaysTheList == List!Spec

(* A song that is begun gets to its last note, unless it is stopped. *)
ReachesLastNote == (running /\ musicCt = 0) ~> (~running \/ musicCt = length - 1)
=============================================================================
