-------------------------- MODULE HighScore_proofs --------------------------
(***************************************************************************)
(* What is proved of the high scores, for any number of rows, of scores    *)
(* and of losses of power.  TypeInv bounds the indices of sort by its      *)
(* place in the program; on it rest the invariants of sort (RowsPermuted,  *)
(* Ordered) and of the EEPROM (MemoryMatchesEEPROM, HalfPut, OneRowAtRisk).*)
(***************************************************************************)
EXTENDS HighScore, TLAPS

(* The indices of sort, as each place of it has them. *)
IndicesOK ==
  pc = "shift" => p < ROWS /\ j <= p

TypeInv == TypeOK /\ IndicesOK

-----------------------------------------------------------------------------
LEMMA RowsLieInside ==
  ASSUME NEW r \in Row, NEW k \in 0 .. 9
  PROVE  r * ROW_LENGTH + k \in Address
BY HighScoreAssumption DEF Row, Address, ROW_LENGTH

(* A row read from the EEPROM is a name and points. *)
LEMMA RowsHaveTypes ==
  ASSUME eeprom \in [Address -> Byte], NEW r \in Row
  PROVE  NameAt(r) \in Name /\ PointsAt(r) \in Points
<1>1. \A k \in 0 .. 9 : r * ROW_LENGTH + k \in Address
  BY RowsLieInside
<1>2. \A k \in 0 .. 5 : eeprom[r * ROW_LENGTH + k] \in Byte
  BY <1>1
<1>3. \A k \in 0 .. 3 : eeprom[r * ROW_LENGTH + 6 + k] \in Byte
  <2> TAKE k \in 0 .. 3
  <2>1. r * ROW_LENGTH + 6 + k = r * ROW_LENGTH + (6 + k) /\ 6 + k \in 0 .. 9
    BY DEF Row, ROW_LENGTH
  <2> QED BY <1>1, <2>1
<1> QED BY <1>2, <1>3 DEF NameAt, PointsAt, Name, Points

LEMMA InitTypeInv == Init => TypeInv
<1> SUFFICES ASSUME Init PROVE TypeInv
  OBVIOUS
<1>1. eeprom \in [Address -> Byte]
  BY HighScoreAssumption DEF Init
<1>2. 0 \in Row /\ 1 \in 1 .. ROWS /\ 1 \in 0 .. ROWS
  BY HighScoreAssumption DEF Row
<1>3. Nobody \in Name /\ Zero \in Points
  BY DEF Nobody, Zero, Name, Points, Byte
<1>4. temp \in [name : Name, points : Points, pos : Row]
  BY <1>2, <1>3 DEF Init, NothingInHand
<1>5. intent \in [Row -> [name : Name, points : Points]]
  <2>1. \A r \in Row : NameAt(r) \in Name /\ PointsAt(r) \in Points
    BY <1>1, RowsHaveTypes
  <2> QED BY <2>1 DEF Init
<1>6. /\ nameList \in [Row -> Name] /\ scoreList \in [Row -> Points]
      /\ posList \in [Row -> Row]
  BY <1>3 DEF Init, NobodyYet, NothingYet, InOrder
<1>7. adds \in 0 .. MaxAdds /\ crashes \in 0 .. MaxCrashes
  BY HighScoreAssumption DEF Init
<1>8. pc = "off" /\ p = 1 /\ j = 1 /\ cell = 0 /\ interrupted = {}
      /\ dirty = FALSE
  BY DEF Init
<1>9. p \in 1 .. ROWS /\ j \in 0 .. ROWS /\ cell \in 0 .. ROW_LENGTH - 1
  BY <1>2, <1>8 DEF ROW_LENGTH
<1>10. interrupted \subseteq Row /\ dirty \in BOOLEAN
  BY <1>8
<1>11. IndicesOK
  BY <1>8 DEF IndicesOK
<1>12. pc \in {"off", "sort", "shift", "idle", "put"}
  BY <1>8
<1> QED BY <1>1, <1>4, <1>5, <1>6, <1>7, <1>9, <1>10, <1>11, <1>12, Zenon
        DEF TypeInv, TypeOK

LEMMA NextTypeInv == TypeInv /\ [Next]_vars => TypeInv'
<1> SUFFICES ASSUME TypeInv, [Next]_vars PROVE TypeInv'
  OBVIOUS
<1> USE DEF TypeInv, TypeOK, IndicesOK
<1>0. ROWS \in Nat \ {0} /\ 0 \in Row
  BY HighScoreAssumption DEF Row
<1>1. CASE getScore
  <2>1. \A r \in Row : NameAt(r) \in Name /\ PointsAt(r) \in Points
    BY RowsHaveTypes
  <2> QED BY <1>0, <1>1, <2>1 DEF getScore, beginSort, history
<1>2. CASE HighScorePage
  BY <1>0, <1>2 DEF HighScorePage, beginSort, memory, history
<1>3. CASE sortTake
  <2>1. p \in Row /\ p \in 0 .. ROWS
    BY <1>0, <1>3 DEF sortTake, Row
  <2> QED BY <1>0, <1>3, <2>1 DEF sortTake, memory, history
<1>4. CASE sortShift
  <2>1. j \in Row /\ j - 1 \in Row /\ j - 1 \in 0 .. ROWS /\ j - 1 <= p
    BY <1>0, <1>4 DEF sortShift, Greater, Row
  <2>2. /\ nameList' \in [Row -> Name] /\ scoreList' \in [Row -> Points]
        /\ posList' \in [Row -> Row]
    BY <1>4, <2>1 DEF sortShift, MovesRows
  <2> QED BY <1>0, <1>4, <2>1, <2>2 DEF sortShift, Descends, history
<1>5. CASE sortPut
  <2>1. j \in Row /\ p + 1 \in 1 .. ROWS
    BY <1>0, <1>5 DEF sortPut, Row
  <2>2. /\ nameList' \in [Row -> Name] /\ scoreList' \in [Row -> Points]
        /\ posList' \in [Row -> Row]
    BY <1>5, <2>1 DEF sortPut
  <2> QED BY <1>0, <1>5, <2>1, <2>2 DEF sortPut, history
<1>6. CASE sortEnd
  BY <1>6 DEF sortEnd, memory, sorting
<1>7. ASSUME NEW points \in Scores, addScore(points) PROVE TypeInv'
  <2>1. points \in Points /\ PLAYERNAME \in Name
    BY HighScoreAssumption
  <2>2. adds + 1 \in 0 .. MaxAdds
    BY <1>7, HighScoreAssumption DEF addScore
  <2>3. /\ nameList' \in [Row -> Name] /\ scoreList' \in [Row -> Points]
        /\ intent' \in [Row -> [name : Name, points : Points]]
    BY <1>0, <1>7, <2>1 DEF addScore
  <2>4. dirty' \in BOOLEAN
    BY <1>7 DEF addScore
  <2>5. pc' \in {"idle", "put"} /\ cell' \in 0 .. ROW_LENGTH - 1
    BY <1>7 DEF addScore, ROW_LENGTH
  <2>6. UNCHANGED << eeprom, posList, sorting, interrupted, crashes >>
        /\ adds' = adds + 1
    BY <1>7 DEF addScore
  <2> QED BY <2>2, <2>3, <2>4, <2>5, <2>6 DEF sorting
<1>8. CASE put
  <2>1. posList[0] \in Row
    BY <1>0
  <2>2. posList[0] * ROW_LENGTH + cell \in Address
    <3>1. cell \in 0 .. 9
      BY DEF ROW_LENGTH
    <3> QED BY <2>1, <3>1, RowsLieInside
  <2>3. (IF cell < 6 THEN nameList[0][cell] ELSE scoreList[0][cell - 6]) \in Byte
    <3>1. CASE cell < 6
      BY <1>0, <3>1 DEF Name, ROW_LENGTH
    <3>2. CASE ~(cell < 6)
      <4>1. cell - 6 \in 0 .. 3
        BY <3>2 DEF ROW_LENGTH
      <4> QED BY <1>0, <3>2, <4>1 DEF Points
    <3> QED BY <3>1, <3>2
  <2>4. eeprom' \in [Address -> Byte]
    BY <1>8, <2>2, <2>3 DEF put, TheRow
  <2>5. /\ pc' \in {"idle", "put"} /\ cell' \in 0 .. ROW_LENGTH - 1
        /\ interrupted' \subseteq Row
    BY <1>8 DEF put, LastByte, ROW_LENGTH
  <2> QED BY <1>8, <2>4, <2>5 DEF put, memory, sorting
<1>9. CASE Reset
  <2>1. Nobody \in Name /\ Zero \in Points
    BY DEF Nobody, Zero, Name, Points, Byte
  <2>2. NothingInHand \in [name : Name, points : Points, pos : Row]
    BY <1>0, <2>1 DEF NothingInHand
  <2>3. /\ NobodyYet \in [Row -> Name] /\ NothingYet \in [Row -> Points]
        /\ InOrder \in [Row -> Row]
    BY <2>1 DEF NobodyYet, NothingYet, InOrder
  <2>4. interrupted' \subseteq Row
    <3>1. posList[0] \in Row
      BY <1>0
    <3> QED BY <1>9, <3>1 DEF Reset
  <2>5. crashes' \in 0 .. MaxCrashes
    BY <1>9, HighScoreAssumption DEF Reset
  <2>6. 1 \in 1 .. ROWS /\ 1 \in 0 .. ROWS /\ 0 \in 0 .. ROW_LENGTH - 1
    BY <1>0 DEF ROW_LENGTH
  <2>7. /\ pc' = "off" /\ p' = 1 /\ j' = 1 /\ cell' = 0 /\ dirty' = FALSE
        /\ nameList' = NobodyYet /\ scoreList' = NothingYet
        /\ posList' = InOrder /\ temp' = NothingInHand
        /\ UNCHANGED << eeprom, intent, adds >>
    BY <1>9 DEF Reset
  <2> QED BY <2>2, <2>3, <2>4, <2>5, <2>6, <2>7
<1>10. CASE UNCHANGED vars
  BY <1>10 DEF vars, memory, sorting, history
<1> QED BY <1>1, <1>2, <1>3, <1>4, <1>5, <1>6, <1>7, <1>8, <1>9, <1>10
        DEF Next, Running

(* Every index of sort stays in the lists, every put in its row. *)
THEOREM ScoresTypeCorrect == Spec => []TypeOK
<1>1. TypeInv => TypeOK
  BY DEF TypeInv
<1> QED BY InitTypeInv, NextTypeInv, <1>1, PTL DEF Spec
-----------------------------------------------------------------------------
(* Where sort reads and writes lies in the lists. *)
LEMMA IndicesInRows ==
  ASSUME TypeInv
  PROVE  /\ 0 \in Row
         /\ p < ROWS => p \in Row
         /\ pc = "shift" => j \in Row /\ p \in Row
         /\ pc = "shift" /\ j > 0 => j - 1 \in Row
<1>1. ROWS \in Nat \ {0} /\ p \in 1 .. ROWS /\ j \in 0 .. ROWS
  BY HighScoreAssumption DEF TypeInv, TypeOK
<1>2. pc = "shift" => p < ROWS /\ j <= p
  BY DEF TypeInv, IndicesOK
<1> QED BY <1>1, <1>2 DEF Row

(***************************************************************************)
(* What sort does to the three lists, the entry in its hand included: to   *)
(* take an entry and to put it down changes nothing, and to shift swaps    *)
(* two neighbours.                                                         *)
(***************************************************************************)
Swapped(new, old, a, b) ==
  /\ new[a] = old[b] /\ new[b] = old[a]
  /\ \A r \in Row \ {a, b} : new[r] = old[r]

LEMMA TakeKeeps ==
  ASSUME TypeInv, sortTake
  PROVE  HeldRow' = HeldRow /\ HeldName' = HeldName /\ HeldPoints' = HeldPoints
<1>1. /\ p \in Row /\ posList \in [Row -> Row] /\ nameList \in [Row -> Name]
      /\ scoreList \in [Row -> Points]
  BY IndicesInRows DEF sortTake, TypeInv, TypeOK
<1>2. /\ pc = "sort" /\ pc' = "shift" /\ j' = p /\ UNCHANGED memory
      /\ temp' = [name |-> nameList[p], points |-> scoreList[p],
                  pos |-> posList[p]]
  BY DEF sortTake
<1>3. [posList EXCEPT ![p] = posList[p]] = posList
      /\ [nameList EXCEPT ![p] = nameList[p]] = nameList
      /\ [scoreList EXCEPT ![p] = scoreList[p]] = scoreList
  BY <1>1
<1> QED BY <1>2, <1>3 DEF memory, HeldRow, HeldName, HeldPoints, Held

LEMMA PutDownKeeps ==
  ASSUME TypeInv, sortPut
  PROVE  HeldRow' = HeldRow /\ HeldName' = HeldName /\ HeldPoints' = HeldPoints
BY DEF sortPut, HeldRow, HeldName, HeldPoints, Held

LEMMA ShiftSwaps ==
  ASSUME TypeInv, sortShift
  PROVE  /\ j \in Row /\ j - 1 \in Row /\ j # j - 1
         /\ Swapped(HeldRow', HeldRow, j, j - 1)
         /\ Swapped(HeldName', HeldName, j, j - 1)
         /\ Swapped(HeldPoints', HeldPoints, j, j - 1)
<1>1. j > 0 /\ j \in 0 .. ROWS /\ pc = "shift" /\ pc' = "shift"
      /\ j' = j - 1 /\ temp' = temp
  BY DEF sortShift, Greater, Descends, TypeInv, TypeOK
<1>2. j # j - 1
  BY <1>1
<1>3. /\ j \in Row /\ j - 1 \in Row
      /\ posList \in [Row -> Row] /\ nameList \in [Row -> Name]
      /\ scoreList \in [Row -> Points]
  BY <1>1, IndicesInRows DEF TypeInv, TypeOK
<1>4. /\ HeldRow = [posList EXCEPT ![j] = temp.pos]
      /\ HeldRow' = [[posList EXCEPT ![j] = posList[j - 1]]
                       EXCEPT ![j - 1] = temp.pos]
  BY <1>1 DEF sortShift, MovesRows, HeldRow, Held
<1>5. /\ HeldName = [nameList EXCEPT ![j] = temp.name]
      /\ HeldName' = [[nameList EXCEPT ![j] = nameList[j - 1]]
                        EXCEPT ![j - 1] = temp.name]
  BY <1>1 DEF sortShift, HeldName, Held
<1>6. /\ HeldPoints = [scoreList EXCEPT ![j] = temp.points]
      /\ HeldPoints' = [[scoreList EXCEPT ![j] = scoreList[j - 1]]
                          EXCEPT ![j - 1] = temp.points]
  BY <1>1 DEF sortShift, HeldPoints, Held
<1>7. Swapped(HeldRow', HeldRow, j, j - 1)
  BY <1>2, <1>3, <1>4 DEF Swapped
<1>8. Swapped(HeldName', HeldName, j, j - 1)
  BY <1>2, <1>3, <1>5 DEF Swapped
<1>9. Swapped(HeldPoints', HeldPoints, j, j - 1)
  BY <1>2, <1>3, <1>6 DEF Swapped
<1> QED BY <1>2, <1>3, <1>7, <1>8, <1>9

LEMMA InitRowsPermuted == Init => RowsPermuted
<1> SUFFICES ASSUME Init PROVE RowsPermuted
  OBVIOUS
<1>1. pc = "off" /\ posList = [r \in Row |-> r]
  BY DEF Init, InOrder
<1> QED BY <1>1 DEF RowsPermuted, HeldRow, Held

LEMMA NextRowsPermuted ==
  TypeInv /\ RowsPermuted /\ [Next]_vars => RowsPermuted'
<1> SUFFICES ASSUME TypeInv, RowsPermuted, [Next]_vars PROVE RowsPermuted'
  OBVIOUS
<1>1. CASE getScore \/ HighScorePage \/ sortEnd \/ put \/ UNCHANGED vars
  <2>1. HeldRow' = HeldRow
    BY <1>1 DEF getScore, HighScorePage, sortEnd, put, beginSort, memory,
                sorting, vars, HeldRow, Held
  <2> QED BY <2>1 DEF RowsPermuted
<1>2. ASSUME NEW points \in Scores, addScore(points) PROVE RowsPermuted'
  <2>1. HeldRow' = HeldRow
    BY <1>2 DEF addScore, sorting, HeldRow, Held
  <2> QED BY <2>1 DEF RowsPermuted
<1>3. CASE sortTake \/ sortPut
  <2>1. HeldRow' = HeldRow
    BY <1>3, TakeKeeps, PutDownKeeps
  <2> QED BY <2>1 DEF RowsPermuted
<1>4. CASE sortShift
  <2>1. j \in Row /\ j - 1 \in Row /\ Swapped(HeldRow', HeldRow, j, j - 1)
    BY <1>4, ShiftSwaps
  <2>2. RowsPermuted' = (\A a, b \in Row : HeldRow'[a] = HeldRow'[b] => a = b)
    BY DEF RowsPermuted, Row
  <2> QED BY <2>1, <2>2 DEF RowsPermuted, Swapped
<1>6. CASE Reset
  <2>1. HeldRow' = [r \in Row |-> r]
    BY <1>6 DEF Reset, InOrder, HeldRow, Held
  <2> QED BY <2>1 DEF RowsPermuted
<1> QED BY <1>1, <1>2, <1>3, <1>4, <1>6 DEF Next, Running

(* No two entries ever claim one row of the EEPROM. *)
THEOREM RowsStayApart == Spec => []RowsPermuted
BY InitTypeInv, NextTypeInv, InitRowsPermuted, NextRowsPermuted, PTL DEF Spec
-----------------------------------------------------------------------------
(* The bytes of the row being put that are already there. *)
HalfPut ==
  pc = "put" =>
    \A c \in 0 .. 9 : c < cell =>
      eeprom[posList[0] * ROW_LENGTH + c] =
        IF c < 6 THEN nameList[0][c] ELSE scoreList[0][c - 6]

(* A put leaves the other rows alone. *)
LEMMA PutElsewhere ==
  ASSUME TypeInv, put, NEW r \in Row, r # posList[0]
  PROVE  NameAt(r)' = NameAt(r) /\ PointsAt(r)' = PointsAt(r)
<1> DEFINE q == posList[0]
<1>1. q \in Row /\ cell \in 0 .. 9
  BY IndicesInRows DEF TypeInv, TypeOK, ROW_LENGTH
<1>2. r \in Int /\ q \in Int /\ r # q
  BY <1>1 DEF Row
<1> HIDE DEF q
<1>3. \A k \in 0 .. 9 : r * ROW_LENGTH + k # q * ROW_LENGTH + cell
  BY <1>1, <1>2 DEF ROW_LENGTH
<1>4. \A a \in Address : a # q * ROW_LENGTH + cell => eeprom'[a] = eeprom[a]
  BY DEF put, TheRow, TypeInv, TypeOK, q
<1>5. \A k \in 0 .. 9 : eeprom'[r * ROW_LENGTH + k] = eeprom[r * ROW_LENGTH + k]
  BY <1>3, <1>4, RowsLieInside
<1>6. \A k \in 0 .. 3 : 6 + k \in 0 .. 9
                       /\ r * ROW_LENGTH + 6 + k = r * ROW_LENGTH + (6 + k)
  BY <1>2 DEF ROW_LENGTH
<1>7. \A k \in 0 .. 3 : eeprom'[r * ROW_LENGTH + 6 + k]
                         = eeprom[r * ROW_LENGTH + 6 + k]
  BY <1>5, <1>6
<1> QED BY <1>5, <1>7 DEF NameAt, PointsAt

(* A put adds one byte to those that are there. *)
LEMMA PutHere ==
  ASSUME TypeInv, HalfPut, put
  PROVE  \A c \in 0 .. 9 : c <= cell =>
           eeprom'[posList[0] * ROW_LENGTH + c] =
             IF c < 6 THEN nameList[0][c] ELSE scoreList[0][c - 6]
<1> DEFINE q == posList[0]
           byte(c) == IF c < 6 THEN nameList[0][c] ELSE scoreList[0][c - 6]
<1>1. q \in Row /\ cell \in 0 .. 9 /\ eeprom \in [Address -> Byte]
  BY IndicesInRows DEF TypeInv, TypeOK, ROW_LENGTH
<1>2. q \in Int
  BY <1>1 DEF Row
<1>3. eeprom' = [eeprom EXCEPT ![q * ROW_LENGTH + cell] = byte(cell)]
  BY DEF put, TheRow
<1>4. \A c \in 0 .. 9 : c < cell => eeprom[q * ROW_LENGTH + c] = byte(c)
  BY DEF HalfPut, put
<1> HIDE DEF q, byte
<1>5. \A c \in 0 .. 9 : q * ROW_LENGTH + c \in Address
  BY <1>1, RowsLieInside
<1>6. \A c \in 0 .. 9 : c < cell => q * ROW_LENGTH + c # q * ROW_LENGTH + cell
  BY <1>1, <1>2 DEF ROW_LENGTH
<1>7. \A c \in 0 .. 9 : c <= cell => eeprom'[q * ROW_LENGTH + c] = byte(c)
  <2> SUFFICES ASSUME NEW c \in 0 .. 9, c <= cell
               PROVE  eeprom'[q * ROW_LENGTH + c] = byte(c)
    OBVIOUS
  <2>1. CASE c = cell
    BY <1>1, <1>3, <1>5, <2>1
  <2>2. CASE c < cell
    BY <1>1, <1>3, <1>4, <1>5, <1>6, <2>2
  <2> QED BY <1>1, <2>1, <2>2
<1> QED BY <1>7 DEF q, byte

(* With its last byte a row holds the entry that it was meant to hold. *)
LEMMA PutDone ==
  ASSUME TypeInv, HalfPut, put, cell = LastByte
  PROVE  /\ NameAt(posList[0])' = nameList[0]
         /\ PointsAt(posList[0])' = scoreList[0]
<1> DEFINE q == posList[0]
<1>1. /\ q \in Row /\ nameList[0] \in Name /\ scoreList[0] \in Points
      /\ UNCHANGED posList
  BY IndicesInRows DEF TypeInv, TypeOK, put, memory
<1>2. \A c \in 0 .. 9 : eeprom'[q * ROW_LENGTH + c] =
                           IF c < 6 THEN nameList[0][c] ELSE scoreList[0][c - 6]
  BY PutHere DEF LastByte, ROW_LENGTH
<1> HIDE DEF q
<1>3. q \in Int
  BY <1>1 DEF Row
<1>4. \A k \in 0 .. 5 : eeprom'[q * ROW_LENGTH + k] = nameList[0][k]
  BY <1>2
<1>5. \A k \in 0 .. 3 : eeprom'[q * ROW_LENGTH + 6 + k] = scoreList[0][k]
  <2> TAKE k \in 0 .. 3
  <2>1. /\ 6 + k \in 0 .. 9 /\ ~(6 + k < 6) /\ (6 + k) - 6 = k
        /\ q * ROW_LENGTH + 6 + k = q * ROW_LENGTH + (6 + k)
    BY <1>3 DEF ROW_LENGTH
  <2> QED BY <1>2, <2>1
<1>6. /\ nameList[0] = [k \in 0 .. 5 |-> nameList[0][k]]
      /\ scoreList[0] = [k \in 0 .. 3 |-> scoreList[0][k]]
  BY <1>1 DEF Name, Points
<1>7. /\ [k \in 0 .. 5 |-> eeprom'[q * ROW_LENGTH + k]] = nameList[0]
      /\ [k \in 0 .. 3 |-> eeprom'[q * ROW_LENGTH + 6 + k]] = scoreList[0]
  BY <1>4, <1>5, <1>6
<1> QED BY <1>1, <1>7 DEF NameAt, PointsAt, q
-----------------------------------------------------------------------------
(* Memory and EEPROM. *)
RowsInOrderAtFirst == pc = "off" => posList = InOrder

MatchInv ==
  RowsInOrderAtFirst /\ RowsPermuted /\ MemoryMatchesEEPROM /\ HalfPut

LEMMA NextRowsInOrder == RowsInOrderAtFirst /\ [Next]_vars => RowsInOrderAtFirst'
BY DEF RowsInOrderAtFirst, Next, Running, getScore, HighScorePage, beginSort,
       sortTake, sortShift, sortPut, sortEnd, addScore, put, Reset, vars,
       memory, InOrder, Row

LEMMA NextHalfPut == TypeInv /\ HalfPut /\ [Next]_vars => HalfPut'
<1> SUFFICES ASSUME TypeInv, HalfPut, [Next]_vars PROVE HalfPut'
  OBVIOUS
<1>1. CASE put
  <2>1. UNCHANGED << posList, nameList, scoreList >>
        /\ (pc' = "put" => cell' = cell + 1)
    BY <1>1 DEF put, memory
  <2>2. cell \in 0 .. 9
    BY DEF TypeInv, TypeOK, ROW_LENGTH
  <2>3. \A c \in 0 .. 9 : c < cell + 1 => c <= cell
    BY <2>2
  <2> QED BY <1>1, <2>1, <2>3, PutHere DEF HalfPut
<1>2. ASSUME NEW points \in Scores, addScore(points) PROVE HalfPut'
  <2>1. pc' = "put" => cell' = 0
    BY <1>2 DEF addScore
  <2> QED BY <2>1 DEF HalfPut
<1>3. CASE getScore \/ HighScorePage \/ sortTake \/ sortShift \/ sortPut
           \/ sortEnd \/ Reset
  <2>1. pc' # "put"
    BY <1>3 DEF getScore, HighScorePage, beginSort, sortTake, sortShift,
                sortPut, sortEnd, Reset
  <2> QED BY <2>1 DEF HalfPut
<1>4. CASE UNCHANGED vars
  BY <1>4 DEF vars, memory, HalfPut
<1> QED BY <1>1, <1>2, <1>3, <1>4 DEF Next, Running

(***************************************************************************)
(* sort carries an entry's number with it, so what matched still matches;  *)
(* addScore changes the first entry, and a put the row of that entry only, *)
(* until its last byte makes the two match again.                          *)
(***************************************************************************)
LEMMA NextMatches ==
  TypeInv /\ MatchInv /\ [Next]_vars => MemoryMatchesEEPROM'
<1> SUFFICES ASSUME TypeInv, MatchInv, [Next]_vars PROVE MemoryMatchesEEPROM'
  OBVIOUS
<1> DEFINE Match(r) == HeldName[r] = NameAt(HeldRow[r])
                       /\ HeldPoints[r] = PointsAt(HeldRow[r])
<1>1. CASE getScore
  <2>1. /\ HeldName' = [r \in Row |-> NameAt(r)]
        /\ HeldPoints' = [r \in Row |-> PointsAt(r)]
        /\ HeldRow' = posList /\ UNCHANGED eeprom
    BY <1>1 DEF getScore, beginSort, HeldName, HeldPoints, HeldRow, Held
  <2>2. posList = [r \in Row |-> r]
    BY <1>1 DEF getScore, MatchInv, RowsInOrderAtFirst, InOrder
  <2> QED BY <2>1, <2>2 DEF MemoryMatchesEEPROM, NameAt, PointsAt
<1>2. CASE HighScorePage \/ sortTake \/ sortPut \/ sortEnd \/ UNCHANGED vars
  <2>1. UNCHANGED << HeldRow, HeldName, HeldPoints, eeprom >>
    BY <1>2, TakeKeeps, PutDownKeeps
       DEF HighScorePage, beginSort, sortTake, sortPut, sortEnd, vars, memory,
           sorting, HeldRow, HeldName, HeldPoints, Held
  <2>2. (pc' # "off" => pc # "off") /\ (pc = "put" => pc' = "put")
    BY <1>2 DEF HighScorePage, beginSort, sortTake, sortPut, sortEnd, vars
  <2> QED BY <2>1, <2>2 DEF MatchInv, MemoryMatchesEEPROM, NameAt, PointsAt
<1>3. CASE sortShift
  <2>1. /\ j \in Row /\ j - 1 \in Row
        /\ Swapped(HeldRow', HeldRow, j, j - 1)
        /\ Swapped(HeldName', HeldName, j, j - 1)
        /\ Swapped(HeldPoints', HeldPoints, j, j - 1)
        /\ UNCHANGED eeprom
    BY <1>3, ShiftSwaps DEF sortShift
  <2>2. \A r \in Row : Match(r)
    BY <1>3 DEF sortShift, MatchInv, MemoryMatchesEEPROM
  <2>3. \A r \in Row : Match(r)'
    BY <2>1, <2>2 DEF Swapped, NameAt, PointsAt
  <2> QED BY <2>3 DEF MemoryMatchesEEPROM
<1>4. ASSUME NEW points \in Scores, addScore(points)
      PROVE  MemoryMatchesEEPROM'
  <2>1. pc = "idle" /\ pc' \in {"idle", "put"} /\ UNCHANGED << eeprom, posList >>
    BY <1>4 DEF addScore
  <2>2. /\ HeldRow = posList /\ HeldName = nameList /\ HeldPoints = scoreList
        /\ HeldRow' = posList' /\ HeldName' = nameList'
        /\ HeldPoints' = scoreList'
    BY <2>1 DEF HeldRow, HeldName, HeldPoints, Held
  <2>3. \A r \in Row : Match(r)
    BY <2>1 DEF MatchInv, MemoryMatchesEEPROM
  <2>4. CASE pc' = "put"
    <3>1. \A r \in Row \ {0} : /\ nameList'[r] = nameList[r]
                               /\ scoreList'[r] = scoreList[r]
      BY <1>4, <2>1, <2>4 DEF addScore, TypeInv, TypeOK
    <3>2. \A r \in Row \ {0} : Match(r)'
      BY <2>1, <2>2, <2>3, <3>1 DEF NameAt, PointsAt
    <3> QED BY <2>4, <3>2 DEF MemoryMatchesEEPROM
  <2>5. CASE pc' = "idle"
    <3>1. UNCHANGED << nameList, scoreList >>
      BY <1>4, <2>1, <2>5 DEF addScore
    <3>2. \A r \in Row : Match(r)'
      BY <2>1, <2>2, <2>3, <3>1 DEF NameAt, PointsAt
    <3> QED BY <3>2 DEF MemoryMatchesEEPROM
  <2> QED BY <2>1, <2>4, <2>5
<1>5. CASE put
  <2>1. pc = "put" /\ pc' \in {"put", "idle"} /\ UNCHANGED memory
    BY <1>5 DEF put
  <2>2. /\ HeldRow = posList /\ HeldName = nameList /\ HeldPoints = scoreList
        /\ UNCHANGED << HeldRow, HeldName, HeldPoints >>
    BY <2>1 DEF memory, HeldRow, HeldName, HeldPoints, Held
  <2>3. \A r \in Row \ {0} : Match(r)
    BY <2>1 DEF MatchInv, MemoryMatchesEEPROM
  <2>4. 0 \in Row /\ posList \in [Row -> Row]
    BY IndicesInRows DEF TypeInv, TypeOK
  <2>5. \A r \in Row \ {0} : HeldRow[r] \in Row /\ HeldRow[r] # posList[0]
    BY <2>2, <2>4 DEF MatchInv, RowsPermuted
  <2>6. \A r \in Row \ {0} : Match(r)'
    <3> TAKE r \in Row \ {0}
    <3> DEFINE q == HeldRow[r]
    <3>1. q \in Row /\ q # posList[0] /\ q' = q
      BY <2>2, <2>5
    <3> HIDE DEF q
    <3>2. NameAt(q)' = NameAt(q) /\ PointsAt(q)' = PointsAt(q)
      BY <1>5, <3>1, PutElsewhere
    <3>3. HeldName[r] = NameAt(q) /\ HeldPoints[r] = PointsAt(q)
      BY <2>3 DEF q
    <3>4. HeldName'[r] = NameAt(q)' /\ HeldPoints'[r] = PointsAt(q)'
      BY <2>2, <3>2, <3>3
    <3> QED BY <3>4 DEF q
  <2>7. pc' = "idle" => Match(0)'
    <3> SUFFICES ASSUME pc' = "idle" PROVE Match(0)'
      OBVIOUS
    <3>1. cell = LastByte
      <4>1. cell \in 0 .. 9
        BY DEF TypeInv, TypeOK, ROW_LENGTH
      <4>2. cell < LastByte => pc' = pc
        BY <1>5 DEF put
      <4>3. ~(cell < LastByte)
        BY <2>1, <4>2
      <4> QED BY <4>1, <4>3 DEF LastByte, ROW_LENGTH
    <3>2. NameAt(posList[0])' = nameList[0] /\ PointsAt(posList[0])' = scoreList[0]
      BY <1>5, <3>1, PutDone DEF MatchInv
    <3> QED BY <2>1, <2>2, <3>2 DEF memory, NameAt, PointsAt
  <2> QED BY <2>1, <2>6, <2>7 DEF MemoryMatchesEEPROM
<1>6. CASE Reset
  BY <1>6 DEF Reset, MemoryMatchesEEPROM
<1> QED BY <1>1, <1>2, <1>3, <1>4, <1>5, <1>6 DEF Next, Running

(* Memory and EEPROM agree, but for the row that is being put. *)
THEOREM MemoryAgrees == Spec => []MemoryMatchesEEPROM
<1>1. Init => RowsInOrderAtFirst /\ MemoryMatchesEEPROM /\ HalfPut
  BY DEF Init, RowsInOrderAtFirst, MemoryMatchesEEPROM, HalfPut
<1>2. TypeInv /\ MatchInv /\ [Next]_vars => MatchInv'
  BY NextRowsInOrder, NextRowsPermuted, NextMatches, NextHalfPut DEF MatchInv
<1>3. Init => MatchInv
  BY <1>1, InitRowsPermuted DEF MatchInv
<1>4. MatchInv => MemoryMatchesEEPROM
  BY DEF MatchInv
<1> QED BY InitTypeInv, NextTypeInv, <1>2, <1>3, <1>4, PTL DEF Spec
-----------------------------------------------------------------------------
(* The EEPROM after a loss of power. *)
IntentPut ==
  pc = "put" =>
    intent[posList[0]] = [name |-> nameList[0], points |-> scoreList[0]]

LEMMA NextIntentPut == TypeInv /\ IntentPut /\ [Next]_vars => IntentPut'
<1> SUFFICES ASSUME TypeInv, IntentPut, [Next]_vars PROVE IntentPut'
  OBVIOUS
<1>1. ASSUME NEW points \in Scores, addScore(points), pc' = "put"
      PROVE  IntentPut'
  <2>1. /\ 0 \in Row /\ posList \in [Row -> Row] /\ nameList \in [Row -> Name]
        /\ scoreList \in [Row -> Points]
        /\ intent \in [Row -> [name : Name, points : Points]]
    BY IndicesInRows DEF TypeInv, TypeOK
  <2>2. /\ scoreList' = [scoreList EXCEPT ![0] = points]
        /\ nameList' = [nameList EXCEPT ![0] = PLAYERNAME]
        /\ posList' = posList
        /\ intent' = [intent EXCEPT ![posList[0]] =
                         [name |-> PLAYERNAME, points |-> points]]
    BY <1>1 DEF addScore
  <2> QED BY <2>1, <2>2 DEF IntentPut
<1>2. CASE put \/ UNCHANGED vars
  BY <1>2 DEF put, vars, memory, history, IntentPut
<1>3. CASE pc' # "put"
  BY <1>3 DEF IntentPut
<1>4. CASE getScore \/ HighScorePage \/ sortTake \/ sortShift \/ sortPut
           \/ sortEnd \/ Reset
  <2>1. pc' # "put"
    BY <1>4 DEF getScore, HighScorePage, beginSort, sortTake, sortShift,
                sortPut, sortEnd, Reset
  <2> QED BY <1>3, <2>1
<1> QED BY <1>1, <1>2, <1>3, <1>4 DEF Next, Running

LEMMA NextOneRowAtRisk ==
  TypeInv /\ HalfPut /\ IntentPut /\ OneRowAtRisk /\ [Next]_vars
    => OneRowAtRisk'
<1> SUFFICES ASSUME TypeInv, HalfPut, IntentPut, OneRowAtRisk, [Next]_vars
             PROVE  OneRowAtRisk'
  OBVIOUS
<1> DEFINE Whole(r) == intent[r] = [name |-> NameAt(r), points |-> PointsAt(r)]
<1>0. /\ 0 \in Row /\ posList[0] \in Row
      /\ intent \in [Row -> [name : Name, points : Points]]
  BY IndicesInRows DEF TypeInv, TypeOK
<1>1. CASE getScore \/ HighScorePage \/ sortTake \/ sortShift \/ sortPut
           \/ sortEnd \/ UNCHANGED vars
  <2>1. /\ UNCHANGED << eeprom, intent, interrupted >>
        /\ pc = "put" => pc' = "put" /\ posList' = posList
    BY <1>1 DEF getScore, HighScorePage, beginSort, sortTake, sortShift,
                sortPut, sortEnd, vars, memory, history
  <2> QED BY <2>1 DEF OneRowAtRisk, NameAt, PointsAt
<1>2. ASSUME NEW points \in Scores, addScore(points) PROVE OneRowAtRisk'
  <2>1. pc = "idle" /\ UNCHANGED << eeprom, posList, interrupted >>
    BY <1>2 DEF addScore
  <2>2. \A r \in Row \ interrupted : Whole(r)
    BY <2>1 DEF OneRowAtRisk
  <2>3. \A r \in Row : intent'[r] = intent[r] \/ (pc' = "put" /\ r = posList[0])
    BY <1>0, <1>2 DEF addScore
  <2> QED BY <2>1, <2>2, <2>3 DEF OneRowAtRisk, NameAt, PointsAt
<1>3. CASE put
  <2>1. pc = "put" /\ UNCHANGED << memory, intent >>
    BY <1>3 DEF put
  <2>2. /\ pc' = "put" /\ interrupted' = interrupted
        \/ /\ cell = LastByte /\ interrupted' = interrupted \ {posList[0]}
    <3>1. cell \in 0 .. 9
      BY DEF TypeInv, TypeOK, ROW_LENGTH
    <3>2. CASE cell < LastByte
      BY <1>3, <2>1, <3>2 DEF put
    <3>3. CASE ~(cell < LastByte)
      <4>1. cell = LastByte
        BY <3>1, <3>3 DEF LastByte, ROW_LENGTH
      <4> QED BY <1>3, <3>3, <4>1 DEF put
    <3> QED BY <3>2, <3>3
  <2>3. \A r \in Row : r # posList[0] =>
          NameAt(r)' = NameAt(r) /\ PointsAt(r)' = PointsAt(r)
    BY <1>3, PutElsewhere
  <2>4. \A r \in Row \ interrupted : r # posList[0] => Whole(r)'
    BY <2>1, <2>3 DEF OneRowAtRisk
  <2>5. CASE pc' = "put" /\ interrupted' = interrupted
    BY <2>1, <2>4, <2>5 DEF OneRowAtRisk, memory
  <2>6. CASE cell = LastByte /\ interrupted' = interrupted \ {posList[0]}
    <3>1. NameAt(posList[0])' = nameList[0] /\ PointsAt(posList[0])' = scoreList[0]
      BY <1>3, <2>6, PutDone
    <3>2. \A r \in Row : r = posList[0] => Whole(r)'
      BY <2>1, <3>1 DEF IntentPut, memory, NameAt, PointsAt
    <3>3. \A r \in Row \ interrupted' : Whole(r)'
      BY <2>4, <2>6, <3>2
    <3> QED BY <3>3 DEF OneRowAtRisk
  <2> QED BY <2>2, <2>5, <2>6
<1>4. CASE Reset
  <2>1. /\ UNCHANGED << eeprom, intent >>
        /\ interrupted \subseteq interrupted'
        /\ pc = "put" => posList[0] \in interrupted'
    BY <1>4 DEF Reset
  <2> QED BY <2>1 DEF OneRowAtRisk, NameAt, PointsAt
<1> QED BY <1>1, <1>2, <1>3, <1>4 DEF Next, Running

(* Losses of power cost the rows that were being put, and no other. *)
THEOREM OthersSurvive == Spec => []OneRowAtRisk
<1>1. Init => HalfPut /\ IntentPut /\ OneRowAtRisk
  <2> SUFFICES ASSUME Init PROVE HalfPut /\ IntentPut /\ OneRowAtRisk
    OBVIOUS
  <2>1. pc = "off"
        /\ intent = [r \in Row |-> [name |-> NameAt(r), points |-> PointsAt(r)]]
    BY DEF Init
  <2> QED BY <2>1 DEF HalfPut, IntentPut, OneRowAtRisk
<1> QED BY InitTypeInv, NextTypeInv, NextHalfPut, NextIntentPut,
           NextOneRowAtRisk, <1>1, PTL DEF Spec
-----------------------------------------------------------------------------
(* sort sorts. *)
LEMMA LessIsStrict ==
  ASSUME NEW a \in Points, NEW b \in Points, Less(a, b)
  PROVE  ~Less(b, a)
<1>1. \A k \in 0 .. 3 : a[k] \in Int /\ b[k] \in Int
  BY DEF Points, Byte
<1> QED BY <1>1 DEF Less

LEMMA NotLessIsTransitive ==
  ASSUME NEW a \in Points, NEW b \in Points, NEW c \in Points,
         ~Less(b, a), ~Less(c, b)
  PROVE  ~Less(c, a)
<1>1. \A k \in 0 .. 3 : a[k] \in Int /\ b[k] \in Int /\ c[k] \in Int
  BY DEF Points, Byte
<1> QED BY <1>1 DEF Less

(* The entries up to a place, but for the one in the hand, go up. *)
UpTo(last, hole) ==
  \A a, b \in Row : (a < b /\ b <= last /\ a # hole /\ b # hole)
    => ~Less(scoreList[b], scoreList[a])

Ordered ==
  /\ pc = "sort" => UpTo(p - 1, -1)
  /\ pc = "shift" =>
       /\ UpTo(p, j)
       /\ \A b \in Row : (j < b /\ b <= p) => Less(temp.points, scoreList[b])
  /\ pc = "put" => dirty
  /\ SortedUntilAdded

LEMMA NextOrdered == TypeInv /\ Ordered /\ [Next]_vars => Ordered'
<1> SUFFICES ASSUME TypeInv, Ordered, [Next]_vars PROVE Ordered'
  OBVIOUS
<1>0. /\ p \in Int /\ j \in Int /\ Row \subseteq Int
      /\ \A r \in Row : 0 <= r /\ r <= ROWS - 1
      /\ scoreList \in [Row -> Points] /\ temp.points \in Points
  BY HighScoreAssumption DEF TypeInv, TypeOK, Row
<1>1. CASE getScore \/ HighScorePage
  <2>1. pc' = "sort" /\ p' = 1
    BY <1>1 DEF getScore, HighScorePage, beginSort
  <2>2. UpTo(p - 1, -1)'
    BY <1>0, <2>1 DEF UpTo, Row
  <2> QED BY <2>1, <2>2 DEF Ordered, SortedUntilAdded
<1>2. CASE sortTake
  <2>1. pc = "sort" /\ pc' = "shift" /\ j' = p /\ p' = p /\ scoreList' = scoreList
    BY <1>2 DEF sortTake, memory
  <2>2. UpTo(p, j)'
    BY <1>0, <2>1 DEF Ordered, UpTo
  <2>3. \A b \in Row : ~(j' < b /\ b <= p')
    BY <1>0, <2>1
  <2>4. Ordered' = (UpTo(p, j)' /\ \A b \in Row : (j' < b /\ b <= p')
                                     => Less(temp'.points, scoreList'[b]))
    BY <2>1 DEF Ordered, SortedUntilAdded, Row
  <2> QED BY <2>2, <2>3, <2>4
<1>3. CASE sortShift
  <2>1. /\ pc = "shift" /\ pc' = "shift" /\ j' = j - 1 /\ p' = p
        /\ temp' = temp /\ j \in Row /\ j - 1 \in Row
        /\ Less(temp.points, scoreList[j - 1])
        /\ scoreList' = [scoreList EXCEPT ![j] = scoreList[j - 1]]
    BY <1>3, ShiftSwaps DEF sortShift, Descends, Greater
  <2>2. /\ scoreList'[j] = scoreList[j - 1]
        /\ \A r \in Row \ {j} : scoreList'[r] = scoreList[r]
    BY <1>0, <2>1
  <2>3. j <= p
    BY <2>1 DEF TypeInv, IndicesOK
  <2>4. UpTo(p, j) /\ \A b \in Row : (j < b /\ b <= p)
                                     => Less(temp.points, scoreList[b])
    BY <2>1 DEF Ordered
  <2>5. UpTo(p, j)'
    <3> SUFFICES ASSUME NEW a \in Row, NEW b \in Row,
                        a < b, b <= p, a # j - 1, b # j - 1
                 PROVE  ~Less(scoreList'[b], scoreList'[a])
      BY <2>1 DEF UpTo, Row
    <3>1. CASE b = j
      BY <1>0, <2>1, <2>2, <2>3, <2>4, <3>1 DEF UpTo
    <3>2. CASE a = j
      BY <1>0, <2>1, <2>2, <2>4, <3>2 DEF UpTo
    <3>3. CASE a # j /\ b # j
      BY <1>0, <2>2, <2>4, <3>3 DEF UpTo
    <3> QED BY <3>1, <3>2, <3>3
  <2>6. \A b \in Row : (j' < b /\ b <= p') => Less(temp'.points, scoreList'[b])
    <3> SUFFICES ASSUME NEW b \in Row, j - 1 < b, b <= p
                 PROVE  Less(temp.points, scoreList'[b])
      BY <2>1
    <3>1. CASE b = j
      BY <2>1, <2>2, <3>1
    <3>2. CASE b # j
      BY <1>0, <2>2, <2>4, <3>2
    <3> QED BY <3>1, <3>2
  <2>7. Ordered' = (UpTo(p, j)' /\ \A b \in Row : (j' < b /\ b <= p')
                                     => Less(temp'.points, scoreList'[b]))
    BY <2>1 DEF Ordered, SortedUntilAdded, Row
  <2> QED BY <2>5, <2>6, <2>7
<1>4. CASE sortPut
  <2>1. /\ pc = "shift" /\ pc' = "sort" /\ p' = p + 1
        /\ scoreList' = [scoreList EXCEPT ![j] = temp.points]
        /\ ~(j > 0 /\ Less(temp.points, scoreList[j - 1]))
    BY <1>4 DEF sortPut, Greater
  <2>2. j \in Row /\ j <= p /\ (j > 0 => j - 1 \in Row)
    BY <2>1, IndicesInRows DEF TypeInv, IndicesOK
  <2>3. /\ scoreList'[j] = temp.points
        /\ \A r \in Row \ {j} : scoreList'[r] = scoreList[r]
    BY <1>0, <2>1, <2>2
  <2>4. UpTo(p, j) /\ \A b \in Row : (j < b /\ b <= p)
                                     => Less(temp.points, scoreList[b])
    BY <2>1 DEF Ordered
  <2>5. UpTo(p - 1, -1)'
    <3> SUFFICES ASSUME NEW a \in Row, NEW b \in Row, a < b, b <= p
                 PROVE  ~Less(scoreList'[b], scoreList'[a])
      BY <1>0, <2>1 DEF UpTo, Row
    <3>1. CASE a = j
      BY <1>0, <2>3, <2>4, <3>1, LessIsStrict
    <3>2. CASE b = j
      <4>1. j > 0 /\ j - 1 \in Row /\ ~Less(temp.points, scoreList[j - 1])
        BY <1>0, <2>1, <2>2, <3>2
      <4>2. CASE a = j - 1
        BY <1>0, <2>3, <3>2, <4>1, <4>2
      <4>3. CASE a < j - 1
        <5>1. ~Less(scoreList[j - 1], scoreList[a])
          BY <1>0, <2>2, <2>4, <4>1, <4>3 DEF UpTo
        <5>2. ~Less(temp.points, scoreList[a])
          BY <1>0, <4>1, <5>1, NotLessIsTransitive
        <5> QED BY <1>0, <2>3, <3>2, <5>2
      <4> QED BY <1>0, <3>2, <4>2, <4>3
    <3>3. CASE a # j /\ b # j
      BY <1>0, <2>3, <2>4, <3>3 DEF UpTo
    <3> QED BY <3>1, <3>2, <3>3
  <2> QED BY <2>1, <2>5 DEF Ordered, SortedUntilAdded
<1>5. CASE sortEnd
  <2>1. pc = "sort" /\ p = ROWS /\ pc' = "idle" /\ UNCHANGED scoreList
    BY <1>5 DEF sortEnd, memory
  <2>2. \A a, b \in Row : a < b => ~Less(scoreList[b], scoreList[a])
    BY <1>0, <2>1 DEF Ordered, UpTo
  <2> QED BY <2>1, <2>2 DEF Ordered, SortedUntilAdded, Row
<1>6. ASSUME NEW points \in Scores, addScore(points) PROVE Ordered'
  <2>1. CASE GetsIn(points)
    BY <1>6, <2>1 DEF addScore, Ordered, SortedUntilAdded
  <2>2. CASE ~GetsIn(points)
    BY <1>6, <2>2 DEF addScore, Ordered, SortedUntilAdded, Row
  <2> QED BY <2>1, <2>2
<1>7. CASE put
  <2>1. pc = "put" /\ pc' \in {"put", "idle"}
    BY <1>7 DEF put
  <2>2. dirty' = dirty
    BY <1>7 DEF put
  <2>3. dirty'
    BY <2>1, <2>2 DEF Ordered
  <2> QED BY <2>1, <2>3 DEF Ordered, SortedUntilAdded
<1>8. CASE Reset
  BY <1>8 DEF Reset, Ordered, SortedUntilAdded
<1>9. CASE UNCHANGED vars
  BY <1>9 DEF vars, memory, sorting, history, Ordered, UpTo, SortedUntilAdded,
              Row
<1> QED BY <1>1, <1>2, <1>3, <1>4, <1>5, <1>6, <1>7, <1>8, <1>9
        DEF Next, Running

(* After a sort, and until a score comes in, the list goes up. *)
THEOREM SortSorts == Spec => []SortedUntilAdded
<1>1. Init => Ordered
  BY DEF Init, Ordered, SortedUntilAdded
<1>2. Ordered => SortedUntilAdded
  BY DEF Ordered
<1> QED BY InitTypeInv, NextTypeInv, NextOrdered, <1>1, <1>2, PTL DEF Spec
-----------------------------------------------------------------------------
(***************************************************************************)
(* What a row claims.  The bytes of the points go in from the lowest up,   *)
(* so that all below the next one already agree with what is meant.        *)
(***************************************************************************)
LEMMA CatchingUp ==
  ASSUME NEW old \in Points, NEW new \in Points, NEW meant \in Points,
         NEW k \in 0 .. 3,
         \A i \in 0 .. 3 : i < k => old[i] = meant[i],
         new[k] = meant[k],
         \A i \in 0 .. 3 : i # k => new[i] = old[i],
         ~Less(meant, old)
  PROVE  ~Less(meant, new)
<1>1. \A i \in 0 .. 3 : old[i] \in Int /\ new[i] \in Int /\ meant[i] \in Int
  BY DEF Points, Byte
<1>2. CASE k = 0
  BY <1>1, <1>2 DEF Less
<1>3. CASE k = 1
  BY <1>1, <1>3 DEF Less
<1>4. CASE k = 2
  BY <1>1, <1>4 DEF Less
<1>5. CASE k = 3
  BY <1>1, <1>5 DEF Less
<1> QED BY <1>2, <1>3, <1>4, <1>5

(* What one put does to the points of its row. *)
LEMMA PutOneByte ==
  ASSUME TypeInv, put, cell >= 6
  PROVE  LET old == PointsAt(posList[0])
             new == PointsAt(posList[0])'
         IN  /\ cell - 6 \in 0 .. 3
             /\ new[cell - 6] = scoreList[0][cell - 6]
             /\ \A i \in 0 .. 3 : i # cell - 6 => new[i] = old[i]
<1> DEFINE q == posList[0]
<1>1. /\ q \in Row /\ cell \in 0 .. 9 /\ eeprom \in [Address -> Byte]
      /\ UNCHANGED posList
  BY IndicesInRows DEF TypeInv, TypeOK, ROW_LENGTH, put, memory
<1>2. q \in Int
  BY <1>1 DEF Row
<1>3. eeprom' = [eeprom EXCEPT ![q * ROW_LENGTH + cell] =
                    scoreList[0][cell - 6]]
  <2>1. ~(cell < 6)
    BY <1>1
  <2> QED BY <2>1 DEF put, TheRow
<1> HIDE DEF q
<1>4. \A i \in 0 .. 3 : q * ROW_LENGTH + 6 + i \in Address
  <2> TAKE i \in 0 .. 3
  <2>1. 6 + i \in 0 .. 9 /\ q * ROW_LENGTH + 6 + i = q * ROW_LENGTH + (6 + i)
    BY <1>2 DEF ROW_LENGTH
  <2> QED BY <1>1, <2>1, RowsLieInside
<1>5. cell - 6 \in 0 .. 3
      /\ q * ROW_LENGTH + 6 + (cell - 6) = q * ROW_LENGTH + cell
  BY <1>1, <1>2 DEF ROW_LENGTH
<1>6. \A i \in 0 .. 3 : i # cell - 6
        => q * ROW_LENGTH + 6 + i # q * ROW_LENGTH + cell
  BY <1>1, <1>2 DEF ROW_LENGTH
<1>7. eeprom'[q * ROW_LENGTH + 6 + (cell - 6)] = scoreList[0][cell - 6]
  BY <1>1, <1>3, <1>4, <1>5
<1>8. \A i \in 0 .. 3 : i # cell - 6
        => eeprom'[q * ROW_LENGTH + 6 + i] = eeprom[q * ROW_LENGTH + 6 + i]
  BY <1>1, <1>3, <1>4, <1>6
<1> QED BY <1>1, <1>5, <1>7, <1>8 DEF PointsAt, q

(* The bytes of a name are none of the points. *)
LEMMA PutNameByte ==
  ASSUME TypeInv, put, cell < 6, NEW r \in Row
  PROVE  PointsAt(r)' = PointsAt(r)
<1> DEFINE q == posList[0]
<1>1. /\ q \in Row /\ cell \in 0 .. 5 /\ eeprom \in [Address -> Byte]
  BY IndicesInRows DEF TypeInv, TypeOK, ROW_LENGTH
<1>2. r \in Int /\ q \in Int
  BY <1>1 DEF Row
<1>3. \A a \in Address : a # q * ROW_LENGTH + cell => eeprom'[a] = eeprom[a]
  BY DEF put, TheRow, TypeInv, TypeOK
<1> HIDE DEF q
<1>4. ASSUME NEW k \in 0 .. 3
      PROVE  eeprom'[r * ROW_LENGTH + 6 + k] = eeprom[r * ROW_LENGTH + 6 + k]
  <2>1. 6 + k \in 0 .. 9 /\ r * ROW_LENGTH + 6 + k = r * ROW_LENGTH + (6 + k)
    BY <1>2 DEF ROW_LENGTH
  <2>2. r * ROW_LENGTH + 6 + k \in Address
    BY <2>1, RowsLieInside
  <2>3. r * ROW_LENGTH + 6 + k # q * ROW_LENGTH + cell
    BY <1>1, <1>2 DEF ROW_LENGTH
  <2> QED BY <1>3, <2>2, <2>3
<1> QED BY <1>4 DEF PointsAt

LEMMA NextNothingInflated ==
  TypeInv /\ MatchInv /\ IntentPut /\ NothingInflated /\ [Next]_vars
    => NothingInflated'
<1> SUFFICES ASSUME TypeInv, MatchInv, IntentPut, NothingInflated,
                    [Next]_vars
             PROVE  NothingInflated'
  OBVIOUS
<1>0. /\ 0 \in Row /\ posList[0] \in Row /\ posList \in [Row -> Row]
      /\ scoreList \in [Row -> Points] /\ scoreList[0] \in Points
      /\ intent \in [Row -> [name : Name, points : Points]]
      /\ eeprom \in [Address -> Byte]
  BY IndicesInRows DEF TypeInv, TypeOK
<1>1. CASE getScore \/ HighScorePage \/ sortTake \/ sortShift \/ sortPut
           \/ sortEnd \/ Reset \/ UNCHANGED vars
  <2>1. UNCHANGED << eeprom, intent >>
    BY <1>1 DEF getScore, HighScorePage, beginSort, sortTake, sortShift,
                sortPut, sortEnd, Reset, vars, history
  <2> QED BY <2>1 DEF NothingInflated, PointsAt
<1>2. ASSUME NEW points \in Scores, addScore(points)
      PROVE  NothingInflated'
  <2>1. pc = "idle" /\ UNCHANGED eeprom /\ points \in Points
    BY <1>2, HighScoreAssumption DEF addScore
  <2>2. \A r \in Row : PointsAt(r)' = PointsAt(r)
    BY <2>1 DEF PointsAt
  <2>3. CASE GetsIn(points)
    <3>1. PointsAt(posList[0]) = scoreList[0]
      BY <1>0, <2>1
         DEF MatchInv, MemoryMatchesEEPROM, HeldRow, HeldPoints, Held
    <3>2. ~Less(points, PointsAt(posList[0]))
      BY <1>0, <2>1, <2>3, <3>1, LessIsStrict DEF GetsIn
    <3>3. intent' = [intent EXCEPT ![posList[0]] =
                        [name |-> PLAYERNAME, points |-> points]]
      BY <1>2, <2>3 DEF addScore
    <3>4. ASSUME NEW r \in Row
          PROVE  ~Less(intent'[r].points, PointsAt(r)')
      <4>1. CASE r = posList[0]
        <5>1. intent'[r].points = points
          BY <1>0, <3>3, <4>1
        <5> QED BY <2>2, <3>2, <4>1, <5>1
      <4>2. CASE r # posList[0]
        <5>1. intent'[r] = intent[r]
          BY <1>0, <3>3, <4>2
        <5> QED BY <2>2, <5>1 DEF NothingInflated
      <4> QED BY <4>1, <4>2
    <3> QED BY <3>4 DEF NothingInflated
  <2>4. CASE ~GetsIn(points)
    <3>1. intent' = intent
      BY <1>2, <2>4 DEF addScore
    <3> QED BY <2>2, <3>1 DEF NothingInflated
  <2> QED BY <2>3, <2>4
<1>3. CASE put
  <2>1. pc = "put" /\ intent' = intent /\ cell \in 0 .. 9
    BY <1>3 DEF put, TypeInv, TypeOK, ROW_LENGTH
  <2>2. ASSUME NEW r \in Row
        PROVE  ~Less(intent[r].points, PointsAt(r)')
    <3>1. CASE r # posList[0]
      BY <1>3, <3>1, PutElsewhere DEF NothingInflated
    <3>2. CASE cell < 6
      BY <1>3, <3>2, PutNameByte DEF NothingInflated
    <3>3. CASE r = posList[0] /\ cell >= 6
      <4> DEFINE q == posList[0]
                 old == PointsAt(q)
                 new == PointsAt(q)'
                 meant == scoreList[0]
      <4>1. intent[q].points = meant
        BY <2>1 DEF IntentPut
      <4>2. /\ cell - 6 \in 0 .. 3
            /\ new[cell - 6] = meant[cell - 6]
            /\ \A i \in 0 .. 3 : i # cell - 6 => new[i] = old[i]
        BY <1>3, <3>3, PutOneByte
      <4>3. \A i \in 0 .. 3 : i < cell - 6 => old[i] = meant[i]
        <5> SUFFICES ASSUME NEW i \in 0 .. 3, i < cell - 6
                     PROVE  old[i] = meant[i]
          OBVIOUS
        <5>1. /\ 6 + i \in 0 .. 9 /\ 6 + i < cell /\ ~(6 + i < 6)
              /\ (6 + i) - 6 = i
          BY <2>1
        <5>2. eeprom[q * ROW_LENGTH + (6 + i)] = meant[i]
          BY <2>1, <5>1 DEF MatchInv, HalfPut
        <5>3. q * ROW_LENGTH + 6 + i = q * ROW_LENGTH + (6 + i)
          BY <1>0 DEF Row, ROW_LENGTH
        <5> QED BY <5>2, <5>3 DEF PointsAt
      <4>4. eeprom' \in [Address -> Byte]
        BY <1>3, NextTypeInv DEF TypeInv, TypeOK
      <4>5. old \in Points
        BY <1>0, RowsHaveTypes
      <4>6. new \in Points
        <5>1. \A i \in 0 .. 3 : new[i] \in Byte
          BY <1>0, <4>2, <4>5 DEF Points
        <5>2. new = [i \in 0 .. 3 |-> new[i]]
          BY DEF PointsAt
        <5> QED BY <5>1, <5>2 DEF Points
      <4>7. ~Less(meant, old)
        BY <1>0, <4>1 DEF NothingInflated
      <4> HIDE DEF old, new, meant
      <4>8. ~Less(meant, new)
        BY <4>2, <4>3, <4>5, <4>6, <4>7, <1>0, CatchingUp DEF meant
      <4>9. new = PointsAt(r)'
        <5>1. posList' = posList
          BY <1>3 DEF put, memory
        <5> QED BY <3>3, <5>1 DEF new, PointsAt
      <4> QED BY <3>3, <4>1, <4>8, <4>9
    <3> QED BY <2>1, <3>1, <3>2, <3>3
  <2> QED BY <2>1, <2>2 DEF NothingInflated
<1> QED BY <1>1, <1>2, <1>3 DEF Next, Running

(***************************************************************************)
(* At no moment, and after no loss of power, does a row claim more points  *)
(* than were scored for it.                                                *)
(***************************************************************************)
THEOREM NothingIsInflated == Spec => []NothingInflated
<1>1. Init => MatchInv /\ IntentPut
  BY InitRowsPermuted
     DEF Init, MatchInv, RowsInOrderAtFirst, MemoryMatchesEEPROM, HalfPut,
         IntentPut
<1>2. Init => NothingInflated
  <2> SUFFICES ASSUME Init, NEW r \in Row
               PROVE  ~Less(intent[r].points, PointsAt(r))
    BY DEF NothingInflated
  <2>1. intent[r].points = PointsAt(r)
    BY DEF Init
  <2>2. PointsAt(r) \in Points
    BY RowsHaveTypes, HighScoreAssumption DEF Init
  <2> QED BY <2>1, <2>2, LessIsStrict
<1>3. TypeInv /\ MatchInv /\ [Next]_vars => MatchInv'
  BY NextRowsInOrder, NextRowsPermuted, NextMatches, NextHalfPut DEF MatchInv
<1> QED BY InitTypeInv, NextTypeInv, NextIntentPut, NextNothingInflated,
           <1>1, <1>2, <1>3, PTL DEF Spec
-----------------------------------------------------------------------------
(***************************************************************************)
(* How many steps a call has left at most: of a put its bytes, of the sort *)
(* a round of shifts for each entry.                                       *)
(***************************************************************************)
RoundsLeft(rounds) == rounds * (ROWS + 2) + 1

StepsLeft ==
  CASE pc = "off"   -> RoundsLeft(ROWS)
    [] pc = "sort"  -> RoundsLeft(ROWS - p)
    [] pc = "shift" -> RoundsLeft(ROWS - p - 1) + j + 1
    [] pc = "idle"  -> 0
    [] pc = "put"   -> ROW_LENGTH - cell

LEMMA ARoundLess ==
  ASSUME NEW rounds \in Int
  PROVE  RoundsLeft(rounds) = RoundsLeft(rounds - 1) + ROWS + 2
BY HighScoreAssumption DEF RoundsLeft

LEMMA RoundsArePositive ==
  ASSUME NEW rounds \in Nat
  PROVE  RoundsLeft(rounds) \in Nat \ {0}
BY HighScoreAssumption DEF RoundsLeft

(***************************************************************************)
(* What CallsReturn comes down to besides the processor's going on: every  *)
(* step of a call brings it nearer to its end, and at zero it has returned.*)
(***************************************************************************)
THEOREM CallsGetShorter ==
  Spec => /\ [](StepsLeft \in Nat /\ (StepsLeft = 0 <=> pc = "idle"))
          /\ [][Running => StepsLeft' < StepsLeft]_vars
<1>0. TypeInv => /\ ROWS \in Nat \ {0} /\ p \in 1 .. ROWS /\ j \in 0 .. ROWS
                 /\ cell \in 0 .. 9
                 /\ (pc = "shift" => p < ROWS /\ j <= p)
                 /\ pc \in {"off", "sort", "shift", "idle", "put"}
  BY HighScoreAssumption DEF TypeInv, TypeOK, IndicesOK, ROW_LENGTH
<1>1. TypeInv => StepsLeft \in Nat /\ (StepsLeft = 0 <=> pc = "idle")
  <2> SUFFICES ASSUME TypeInv
               PROVE  StepsLeft \in Nat /\ (StepsLeft = 0 <=> pc = "idle")
    OBVIOUS
  <2>1. CASE pc = "off" \/ pc = "sort"
    <3>1. ROWS \in Nat /\ ROWS - p \in Nat
      BY <1>0
    <3> QED BY <2>1, <3>1, RoundsArePositive DEF StepsLeft
  <2>2. CASE pc = "shift"
    <3>1. ROWS - p - 1 \in Nat /\ j \in Nat
      BY <1>0, <2>2
    <3>2. RoundsLeft(ROWS - p - 1) \in Nat \ {0}
      BY <3>1, RoundsArePositive
    <3> QED BY <2>2, <3>1, <3>2 DEF StepsLeft
  <2>3. CASE pc = "idle" \/ pc = "put"
    BY <1>0, <2>3 DEF StepsLeft, ROW_LENGTH
  <2> QED BY <1>0, <2>1, <2>2, <2>3
<1>2. TypeInv /\ TypeInv' /\ [Next]_vars
        => [Running => StepsLeft' < StepsLeft]_vars
  <2> SUFFICES ASSUME TypeInv, TypeInv', Running
               PROVE  StepsLeft' < StepsLeft
    OBVIOUS
  <2>0. ROWS \in Nat /\ p \in 1 .. ROWS /\ j \in 0 .. ROWS /\ cell \in 0 .. 9
    BY <1>0
  <2>1. CASE getScore
    <3>1. pc = "off" /\ pc' = "sort" /\ p' = 1
      BY <2>1 DEF getScore, beginSort
    <3>2. RoundsLeft(ROWS) = RoundsLeft(ROWS - 1) + ROWS + 2
      BY <2>0, ARoundLess
    <3>3. RoundsLeft(ROWS - 1) \in Nat
      BY <2>0, RoundsArePositive
    <3> QED BY <2>0, <3>1, <3>2, <3>3 DEF StepsLeft
  <2>2. CASE sortTake
    <3>1. pc = "sort" /\ pc' = "shift" /\ j' = p /\ p' = p /\ p < ROWS
      BY <2>2 DEF sortTake
    <3>2. RoundsLeft(ROWS - p) = RoundsLeft(ROWS - p - 1) + ROWS + 2
      BY <2>0, ARoundLess
    <3>3. RoundsLeft(ROWS - p - 1) \in Nat
      BY <2>0, <3>1, RoundsArePositive
    <3> QED BY <2>0, <3>1, <3>2, <3>3 DEF StepsLeft
  <2>3. CASE sortShift
    <3>1. pc = "shift" /\ pc' = "shift" /\ j' = j - 1 /\ p' = p
      BY <2>3 DEF sortShift, Descends
    <3>2. RoundsLeft(ROWS - p - 1) \in Nat
      BY <1>0, <3>1, RoundsArePositive
    <3> QED BY <2>0, <3>1, <3>2 DEF StepsLeft
  <2>4. CASE sortPut
    <3>1. pc = "shift" /\ pc' = "sort" /\ p' = p + 1
      BY <2>4 DEF sortPut
    <3>2. RoundsLeft(ROWS - p - 1) \in Nat /\ ROWS - (p + 1) = ROWS - p - 1
      BY <1>0, <3>1, RoundsArePositive
    <3> QED BY <2>0, <3>1, <3>2 DEF StepsLeft
  <2>5. CASE sortEnd
    <3>1. pc = "sort" /\ pc' = "idle" /\ p = ROWS
      BY <2>5 DEF sortEnd
    <3>2. RoundsLeft(ROWS - p) \in Nat \ {0}
      BY <2>0, RoundsArePositive
    <3> QED BY <3>1, <3>2 DEF StepsLeft
  <2>6. CASE put
    BY <2>0, <2>6 DEF put, LastByte, ROW_LENGTH, StepsLeft
  <2> QED BY <2>1, <2>2, <2>3, <2>4, <2>5, <2>6 DEF Running
<1> QED BY <1>1, <1>2, InitTypeInv, NextTypeInv, PTL DEF Spec
=============================================================================
