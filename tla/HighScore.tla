----------------------------- MODULE HighScore -----------------------------
(***************************************************************************)
(* The high scores: ROWS rows of name and points in the EEPROM, and their  *)
(* copy in memory, which is sorted, with the number of the row that each   *)
(* entry came from.  The EEPROM takes one byte at a time; the power may go *)
(* at any moment, and what is left is what the bytes written so far say.   *)
(*                                                                         *)
(* Nothing calls addScore or the page but the main loop, one at a time, in *)
(* whatever order its users play and look.  (Today the one call of         *)
(* addScore, behind level 2, is not reached: see the run level_two.)       *)
(***************************************************************************)
EXTENDS Integers, FiniteSets

CONSTANTS
  ROWS,         \* 10 in the code
  PLAYERNAME,   \* the name every score is stored under
  Scores,       \* the points that can be scored
  Contents,     \* what the EEPROM may hold at first
  MaxAdds, MaxCrashes    \* bounds of the model

Byte == 0 .. 255
Row == 0 .. ROWS - 1
ROW_LENGTH == 10
Address == 0 .. ROWS * ROW_LENGTH - 1

(* A char[6], and a uint32_t with its low byte first. *)
Name == [0 .. 5 -> Byte]
Points == [0 .. 3 -> Byte]

ASSUME HighScoreAssumption ==
  /\ ROWS \in Nat \ {0}
  /\ PLAYERNAME \in Name /\ Scores \subseteq Points
  /\ Contents \subseteq [Address -> Byte]
  /\ MaxAdds \in Nat /\ MaxCrashes \in Nat

Less(a, b) ==
  \/ a[3] < b[3]
  \/ a[3] = b[3] /\ a[2] < b[2]
  \/ a[3] = b[3] /\ a[2] = b[2] /\ a[1] < b[1]
  \/ a[3] = b[3] /\ a[2] = b[2] /\ a[1] = b[1] /\ a[0] < b[0]

VARIABLES
  pc,           \* "off", "sort", "shift", "idle" or "put"
  eeprom,
  nameList, scoreList, posList,
  p, j, temp,   \* of sort: its two indices, and the entry in its hand
  cell,         \* of addScore: the next byte of the row to be put
  (* History. *)
  intent,       \* the entry last meant for each row
  interrupted,  \* the rows whose last put did not come to its end
  dirty,        \* a score came in since the last sort
  adds, crashes

memory == << nameList, scoreList, posList >>
sorting == << p, j, temp >>
history == << intent, interrupted, dirty, adds, crashes >>
vars == << pc, eeprom, memory, sorting, cell, history >>

NameAt(r) == [k \in 0 .. 5 |-> eeprom[r * ROW_LENGTH + k]]
PointsAt(r) == [k \in 0 .. 3 |-> eeprom[r * ROW_LENGTH + 6 + k]]

Nobody == [k \in 0 .. 5 |-> 0]
Zero == [k \in 0 .. 3 |-> 0]

NobodyYet == [r \in Row |-> Nobody]
NothingYet == [r \in Row |-> Zero]
InOrder == [r \in Row |-> r]
NothingInHand == [name |-> Nobody, points |-> Zero, pos |-> 0]

Init ==
  /\ pc = "off" /\ eeprom \in Contents
  /\ nameList = NobodyYet /\ scoreList = NothingYet /\ posList = InOrder
  /\ p = 1 /\ j = 1 /\ temp = NothingInHand
  /\ cell = 0
  /\ intent = [r \in Row |-> [name |-> NameAt(r), points |-> PointsAt(r)]]
  /\ interrupted = {} /\ dirty = FALSE
  /\ adds = 0 /\ crashes = 0

-----------------------------------------------------------------------------
(* getScore, once after a reset: posList must still be as it was set up. *)

beginSort == pc' = "sort" /\ p' = 1 /\ UNCHANGED << j, temp >>

getScore ==
  /\ pc = "off"
  /\ nameList' = [r \in Row |-> NameAt(r)]
  /\ scoreList' = [r \in Row |-> PointsAt(r)]
  /\ beginSort
  /\ UNCHANGED << eeprom, posList, cell, history >>

(* The page sorts before it prints. *)
HighScorePage ==
  /\ pc = "idle"
  /\ beginSort
  /\ UNCHANGED << eeprom, memory, cell, history >>

(***************************************************************************)
(* sort, by insertion: take entry p, shift the greater ones before it one  *)
(* place up, and put it down where they stood.                             *)
(***************************************************************************)
sortTake ==
  /\ pc = "sort" /\ p < ROWS
  /\ temp' = [name |-> nameList[p], points |-> scoreList[p],
              pos |-> posList[p]]
  /\ j' = p
  /\ pc' = "shift"
  /\ UNCHANGED << eeprom, memory, p, cell, history >>

StopsEarly == j > 1 /\ Less(temp.points, scoreList[j - 1])
Greater == j > 0 /\ Less(temp.points, scoreList[j - 1])

ForgetsRows == UNCHANGED posList
MovesRows == posList' = [posList EXCEPT ![j] = posList[j - 1]]

Stands == j' = j
Descends == j' = j - 1

sortShift ==
  /\ pc = "shift" /\ Greater
  /\ scoreList' = [scoreList EXCEPT ![j] = scoreList[j - 1]]
  /\ nameList' = [nameList EXCEPT ![j] = nameList[j - 1]]
  /\ MovesRows
  /\ Descends
  /\ UNCHANGED << pc, eeprom, p, temp, cell, history >>

sortPut ==
  /\ pc = "shift" /\ ~Greater
  /\ scoreList' = [scoreList EXCEPT ![j] = temp.points]
  /\ nameList' = [nameList EXCEPT ![j] = temp.name]
  /\ posList' = [posList EXCEPT ![j] = temp.pos]
  /\ p' = p + 1
  /\ pc' = "sort"
  /\ UNCHANGED << eeprom, j, temp, cell, history >>

sortEnd ==
  /\ pc = "sort" /\ p = ROWS
  /\ pc' = "idle" /\ dirty' = FALSE
  /\ UNCHANGED << eeprom, memory, sorting, cell, intent, interrupted, adds,
                  crashes >>

-----------------------------------------------------------------------------
(***************************************************************************)
(* addScore: the first entry of the list makes room, in memory and, byte   *)
(* by byte, in the row of the EEPROM that it came from.                    *)
(***************************************************************************)
AlwaysIn(points) == TRUE
GetsIn(points) == Less(scoreList[0], points)

addScore(points) ==
  /\ pc = "idle" /\ adds < MaxAdds
  /\ adds' = adds + 1
  /\ IF GetsIn(points)
       THEN /\ scoreList' = [scoreList EXCEPT ![0] = points]
            /\ nameList' = [nameList EXCEPT ![0] = PLAYERNAME]
            /\ pc' = "put" /\ cell' = 0
            /\ dirty' = TRUE
            /\ intent' = [intent EXCEPT ![posList[0]] =
                            [name |-> PLAYERNAME, points |-> points]]
       ELSE UNCHANGED << pc, scoreList, nameList, cell, dirty, intent >>
  /\ UNCHANGED << eeprom, posList, sorting, interrupted, crashes >>

OneTooMany == ROW_LENGTH
LastByte == ROW_LENGTH - 1

TheFirstRow == 0
TheRow == posList[0]

put ==
  /\ pc = "put"
  /\ eeprom' = [eeprom EXCEPT ![TheRow * ROW_LENGTH + cell] =
                  IF cell < 6 THEN nameList[0][cell]
                              ELSE scoreList[0][cell - 6]]
  /\ IF cell < LastByte
       THEN cell' = cell + 1 /\ UNCHANGED << pc, interrupted >>
       ELSE /\ cell' = 0 /\ pc' = "idle"
            /\ interrupted' = interrupted \ {posList[0]}
  /\ UNCHANGED << memory, sorting, intent, dirty, adds, crashes >>

-----------------------------------------------------------------------------
(* The power goes and comes back: only the EEPROM is left. *)
Reset ==
  /\ pc # "off" /\ crashes < MaxCrashes
  /\ pc' = "off" /\ crashes' = crashes + 1
  /\ nameList' = NobodyYet /\ scoreList' = NothingYet /\ posList' = InOrder
  /\ p' = 1 /\ j' = 1 /\ temp' = NothingInHand /\ cell' = 0
  /\ interrupted' = interrupted \cup (IF pc = "put" THEN {posList[0]} ELSE {})
  /\ dirty' = FALSE
  /\ UNCHANGED << eeprom, intent, adds >>

Running == getScore \/ sortTake \/ sortShift \/ sortPut \/ sortEnd \/ put

Next ==
  \/ Running
  \/ HighScorePage
  \/ \E points \in Scores : addScore(points)
  \/ Reset

Spec == Init /\ [][Next]_vars

(* The processor goes on with a call it has begun. *)
FairSpec == Spec /\ WF_vars(Running)

-----------------------------------------------------------------------------
(* Properties. *)

TypeOK ==
  /\ pc \in {"off", "sort", "shift", "idle", "put"}
  /\ eeprom \in [Address -> Byte]
  /\ nameList \in [Row -> Name] /\ scoreList \in [Row -> Points]
  /\ posList \in [Row -> Row]
  /\ p \in 1 .. ROWS /\ j \in 0 .. ROWS
  /\ temp \in [name : Name, points : Points, pos : Row]
  /\ cell \in 0 .. ROW_LENGTH - 1
  /\ intent \in [Row -> [name : Name, points : Points]]
  /\ interrupted \subseteq Row /\ dirty \in BOOLEAN
  /\ adds \in 0 .. MaxAdds /\ crashes \in 0 .. MaxCrashes

(* A list of the memory, with the entry in sort's hand where it belongs. *)
Held(list, entry) == IF pc = "shift" THEN [list EXCEPT ![j] = entry] ELSE list

HeldRow == Held(posList, temp.pos)
HeldName == Held(nameList, temp.name)
HeldPoints == Held(scoreList, temp.points)

(***************************************************************************)
(* Every entry knows its own row, and no two the same: a new score never   *)
(* lands on a row that is not the one it replaces, in the middle of a sort *)
(* or after any number of them.                                            *)
(***************************************************************************)
RowsPermuted ==
  \A a, b \in Row : HeldRow[a] = HeldRow[b] => a = b

(***************************************************************************)
(* Memory and EEPROM hold the same entries: "so you dont have to read all  *)
(* the EEPROM data again" (the comment of addScore).                       *)
(***************************************************************************)
MemoryMatchesEEPROM ==
  \A r \in Row : (pc # "off" /\ ~(pc = "put" /\ r = 0))
    => /\ HeldName[r] = NameAt(HeldRow[r])
       /\ HeldPoints[r] = PointsAt(HeldRow[r])

(* Between a sort and the next new score the list goes up. *)
SortedUntilAdded ==
  (pc = "idle" /\ ~dirty)
    => \A a, b \in Row : a < b => ~Less(scoreList[b], scoreList[a])

(***************************************************************************)
(* A loss of power costs at most the row that was being put: all others    *)
(* hold what was last meant for them, name and points of one entry.        *)
(***************************************************************************)
OneRowAtRisk ==
  \A r \in Row \ interrupted :
    (pc = "put" /\ r = posList[0])
      \/ intent[r] = [name |-> NameAt(r), points |-> PointsAt(r)]

(***************************************************************************)
(* Not even a row with new low and old high bytes claims more points than  *)
(* were ever scored for it.                                                *)
(***************************************************************************)
NothingInflated ==
  \A r \in Row : ~Less(intent[r].points, PointsAt(r))

(* A call comes to its end, the sort above all. *)
CallsReturn == (pc # "idle") ~> (pc = "idle")

(***************************************************************************)
(* "adds a new score to the EEPROM" (the comment of addScore): a score     *)
(* that beats the lowest one gets in, and the lowest one goes.             *)
(***************************************************************************)
IsLowest(r) == \A s \in Row : ~Less(scoreList[s], scoreList[r])

LowestMakesRoom ==
  [][\A points \in Scores : addScore(points) =>
       \A r \in Row : (IsLowest(r) /\ Less(scoreList[r], points))
         => \E low \in Row : /\ IsLowest(low)
                             /\ scoreList' = [scoreList EXCEPT ![low] = points]
    ]_vars
=============================================================================
