------------------------------ MODULE PlayList ------------------------------
(***************************************************************************)
(* What the music player promises: the notes in their order, each for its  *)
(* time, from the first on; at the end silence, or the first note again.   *)
(***************************************************************************)
EXTENDS Integers

CONSTANTS
  Notes,       \* the number of notes
  Time(_)      \* how many ticks follow the first one of a note

VARIABLES
  note,        \* the note that sounds, or -1
  left         \* the ticks until its last one

Silence == -1

Init == note = Silence /\ left = 0

Sound(n) == note' = n /\ left' = Time(n)

Fall == note' = Silence /\ left' = 0

Begin == note = Silence /\ Sound(0)

Tick ==
  /\ note # Silence
  /\ \/ left > 0 /\ left' = left - 1 /\ note' = note
     \/ left = 0 /\ note + 1 < Notes /\ Sound(note + 1)
     \/ left = 0 /\ note + 1 = Notes /\ (Sound(0) \/ Fall)

Next == Begin \/ Tick \/ Fall

Spec == Init /\ [][Next]_<< note, left >>
=============================================================================
