---------------------------- MODULE Game_proofs ----------------------------
(***************************************************************************)
(* Theorems about one game board, for every field, every set of coins,     *)
(* every start and every behaviour of the receiving interrupt; MCLevel1 is *)
(* extended for the one theorem about the field of level 1.                *)
(***************************************************************************)
EXTENDS MCLevel1, FiniteSetTheorems, TLAPS

-----------------------------------------------------------------------------
(* The position byte. *)

(***************************************************************************)
(* encodeGridPosition is injective on the cells inside the outer wall,     *)
(* and decodeGridPosition is its inverse there; the byte is neither a      *)
(* command nor the end signal.                                             *)
(***************************************************************************)
LEMMA PositionByte ==
  ASSUME NEW x \in 1 .. 14, NEW y \in 1 .. 14
  PROVE  /\ encodeGridPosition(<<x, y>>) \in 17 .. 238
         /\ decodeGridPosition(encodeGridPosition(<<x, y>>)) = <<x, y>>
<1> DEFINE b == 16 * x + y
<1>1. (x * 16) % 256 = 16 * x
  OBVIOUS
<1>2. y % 16 = y
  OBVIOUS
<1>3. encodeGridPosition(<<x, y>>) = b
  BY <1>1, <1>2 DEF encodeGridPosition
<1>4. b \in 17 .. 238
  OBVIOUS
<1>5. b % 256 = b
  OBVIOUS
<1>6. b \div 16 = x
  OBVIOUS
<1>7. b % 16 = y
  OBVIOUS
<1>8. decodeGridPosition(b) = <<x, y>>
  BY <1>5, <1>6, <1>7 DEF decodeGridPosition
<1> HIDE DEF b
<1> QED
  BY <1>3, <1>4, <1>8

-----------------------------------------------------------------------------
(* Lemmas about the players' moves. *)

(* No wall of the outer ring is missing, so the floor lies inside it. *)
LEMMA FloorInside == Floor \subseteq Grid
BY FloorAssumption DEF FloorAssumption, Grid

(* walkTo never leaves the floor, wherever the target lies. *)
LEMMA WalkStaysOnFloor ==
  ASSUME NEW from \in Floor, NEW to
  PROVE  walkTo(from, to) \in Floor
BY DEF walkTo

(* A player's cell is sent as a byte that means that cell and nothing else. *)
LEMMA CellByte ==
  ASSUME NEW cell \in Floor
  PROVE  /\ encodeGridPosition(cell) \in 17 .. 238
         /\ decodeGridPosition(encodeGridPosition(cell)) = cell
<1>1. PICK x \in 1 .. 14, y \in 1 .. 14 : cell = <<x, y>>
  BY FloorAssumption DEF FloorAssumption
<1> QED
  BY <1>1, PositionByte

-----------------------------------------------------------------------------
(* The players never stand in a wall. *)

Positions == players \in [Players -> Floor]

(***************************************************************************)
(* Type correctness with the players on the floor, the inductive form.     *)
(***************************************************************************)
TypeInv == TypeOK /\ Positions

LEMMA TypeInit == Init => TypeInv
<1> SUFFICES ASSUME Init PROVE TypeInv
  OBVIOUS
<1>1. Positions
  BY GameAssumption DEF Init, Positions, GameAssumption
<1>2. players \in [Players -> Grid]
  BY <1>1, FloorInside DEF Positions
<1> QED
  BY <1>1, <1>2 DEF Init, TypeInv, TypeOK, lives, _LEVEL1, _LEVEL2

-----------------------------------------------------------------------------
(* Lemmas about the coins. *)

(* What a player takes in a pass: at most one coin, and none twice. *)
LEMMA TakenIsNew ==
  ASSUME NEW p \in Players
  PROVE  /\ TakenBy(p) \subseteq CoinCells \ coinsCatched
         /\ IsFiniteSet(TakenBy(p))
         /\ Cardinality(TakenBy(p)) \in Nat
<1>1. TakenBy(p) \subseteq {players[p]} /\ TakenBy(p) \subseteq CoinCells \ coinsCatched
  BY DEF TakenBy, Players
<1>2. IsFiniteSet({players[p]})
  BY FS_Singleton
<1>3. IsFiniteSet(TakenBy(p))
  BY <1>1, <1>2, FS_Subset
<1> QED
  BY <1>1, <1>3, FS_CardinalityType

(* Two players on one cell do not both take its coin. *)
LEMMA TakenOnce == TakenBy(0) \cap TakenBy(1) = {}
BY DEF TakenBy

(* The size of a union of disjoint finite sets. *)
LEMMA DisjointUnion ==
  ASSUME NEW S, NEW T, IsFiniteSet(S), IsFiniteSet(T), S \cap T = {}
  PROVE  /\ IsFiniteSet(S \cup T)
         /\ Cardinality(S \cup T) = Cardinality(S) + Cardinality(T)
<1>1. Cardinality(S) \in Nat /\ Cardinality(T) \in Nat
  BY FS_CardinalityType
<1>2. Cardinality(S \cap T) = 0
  BY FS_EmptySet
<1>3. /\ IsFiniteSet(S \cup T)
      /\ Cardinality(S \cup T)
           = Cardinality(S) + Cardinality(T) - Cardinality(S \cap T)
  BY FS_Union
<1> QED
  BY <1>1, <1>2, <1>3

-----------------------------------------------------------------------------
LEMMA TypeNext == TypeInv /\ [Next]_vars => TypeInv'
<1> SUFFICES ASSUME TypeInv, [Next]_vars PROVE TypeInv'
  OBVIOUS
<1> USE DEF TypeInv, TypeOK, Positions, screenVars, levelVars, scoreVars,
            irVars, history
<1>1. ASSUME moveOverIR_lower PROVE TypeInv'
  BY <1>1 DEF moveOverIR_lower, Goto
<1>2. ASSUME moveOverIR_upper PROVE TypeInv'
  BY <1>2 DEF moveOverIR_upper, Goto
<1>3. ASSUME moveOverIR_sync PROVE TypeInv'
  <2>1. walkTo(players[1], decodeGridPosition(buffer)) \in Floor
    BY WalkStaysOnFloor DEF Players
  <2>2. players' \in [Players -> Floor]
    BY <1>3, <2>1 DEF moveOverIR_sync
  <2> QED
    BY <1>3, <2>2, FloorInside DEF moveOverIR_sync, Goto
<1>4. ASSUME NEW d \in Directions, movePlayerNunchuk(d) PROVE TypeInv'
  <2>1. walkTo(players[0], Neighbour(players[0], d)) \in Floor
    BY WalkStaysOnFloor DEF Players
  <2>2. players' \in [Players -> Floor]
    BY <1>4, <2>1 DEF movePlayerNunchuk
  <2>3. out' \in Nat
    BY <1>4, <2>2, CellByte DEF movePlayerNunchuk, Players
  <2> QED
    BY <1>4, <2>2, <2>3, FloorInside DEF movePlayerNunchuk, Goto
<1>5. ASSUME checkEndSignal PROVE TypeInv'
  BY <1>5 DEF checkEndSignal, HonourEndSignal, Goto, LeaveGame
<1>6. ASSUME collideAndEnd PROVE TypeInv'
  <2>1. playerResult' \in [Players -> Nat]
    BY <1>6, TakenIsNew DEF collideAndEnd, collision
  <2>2. coinsCatched' \subseteq CoinCells
    BY <1>6, TakenIsNew DEF collideAndEnd, collision, Players
  <2> QED
    BY <1>6, <2>1, <2>2 DEF collideAndEnd, Goto
<1>7. ASSUME winScreen PROVE TypeInv'
  <2>1. /\ UNCHANGED << levelSelect, noCoins, noGhost, players, playerResult,
                        playerLives, coinsCatched, buffer, synchroon,
                        synchroniseer, games, banked >>
        /\ pc' = "loop" /\ runGame' = FALSE /\ controlState' = "_MENU"
        /\ nScreen' = "LOADING_SCREEN" /\ out' = 255
    BY <1>7 DEF winScreen, Goto, LeaveGame, ENDGAMEVALUE
  <2>2. runGame' \in BOOLEAN
    BY <2>1, Zenon
  <2> QED
    BY <2>1, <2>2
<1>8. ASSUME Button PROVE TypeInv'
  BY <1>8 DEF Button, BTNpressTooStart, BTNselectLevels, BTNseeHighscores,
              BTNreturn, GoTo
<1>9. ASSUME NEW level \in {_LEVEL1, _LEVEL2}, BTNlvl(level) PROVE TypeInv'
  <2>1. Cardinality(coinsCatched) \in Nat
    BY FS_Subset, FS_CardinalityType, GameAssumption DEF GameAssumption
  <2>2. banked' \in Nat
    BY <1>9, <2>1 DEF BTNlvl
  <2>3. playerLives' \in [PlayerSlots -> Nat]
    BY <1>9 DEF BTNlvl, ResetLives, lives
  <2> QED
    BY <1>9, <2>2, <2>3
       DEF BTNlvl, SelectedLevel, SelectedNoCoins, SelectedNoGhost
<1>10. ASSUME NEW v \in BufferValues, Receive(v) PROVE TypeInv'
  BY <1>10, GameAssumption DEF Receive, GameAssumption
<1>11. ASSUME Synchronise PROVE TypeInv'
  BY <1>11 DEF Synchronise
<1>12. ASSUME UNCHANGED vars PROVE TypeInv'
  BY <1>12 DEF vars
<1> QED
  BY <1>1, <1>2, <1>3, <1>4, <1>5, <1>6, <1>7, <1>8, <1>9, <1>10, <1>11,
     <1>12 DEF Next, MainStep

LEMMA TypeInvariance == Spec => []TypeInv
<1> QED
  BY TypeInit, TypeNext, PTL DEF Spec

(***************************************************************************)
(* Every variable of the board keeps its type.                             *)
(***************************************************************************)
THEOREM TypeCorrect == Spec => []TypeOK
<1>1. TypeInv => TypeOK
  BY DEF TypeInv
<1> QED
  BY <1>1, TypeInvariance, PTL

(***************************************************************************)
(* No player ever stands in a wall, whatever the interrupt leaves in       *)
(* `buffer' between the reads of moveOverIR.                               *)
(***************************************************************************)
THEOREM NobodyInAWall == Spec => []PlayersOnFloor
<1>1. TypeInv => PlayersOnFloor
  BY DEF TypeInv, Positions, PlayersOnFloor
<1> QED
  BY <1>1, TypeInvariance, PTL

(***************************************************************************)
(* Every position a board sends is read by the peer as that position.      *)
(***************************************************************************)
THEOREM PositionsSurvive == Spec => []PositionSurvivesTheLink
<1>1. TypeInv => PositionSurvivesTheLink
  <2> SUFFICES ASSUME players \in [Players -> Floor], NEW p \in Players
               PROVE  LET b == encodeGridPosition(players[p])
                      IN  /\ b > BUFFERIRBEGIN /\ b < BUFFERIREND
                          /\ b # ENDGAMEVALUE
                          /\ decodeGridPosition(b) = players[p]
    BY DEF TypeInv, Positions, PositionSurvivesTheLink
  <2>1. players[p] \in Floor
    OBVIOUS
  <2> QED
    BY <2>1, CellByte DEF BUFFERIRBEGIN, BUFFERIREND, ENDGAMEVALUE
<1> QED
  BY <1>1, TypeInvariance, PTL

-----------------------------------------------------------------------------
(* The coins. *)

LEMMA LedgerInit == Init => CoinLedger
<1> SUFFICES ASSUME Init PROVE CoinLedger
  OBVIOUS
<1>1. Cardinality({}) = 0
  BY FS_EmptySet
<1> QED
  BY <1>1 DEF Init, CoinLedger, Players

LEMMA LedgerNext == TypeInv /\ CoinLedger /\ [Next]_vars => CoinLedger'
<1> SUFFICES ASSUME TypeInv, CoinLedger, [Next]_vars PROVE CoinLedger'
  OBVIOUS
<1> USE DEF scoreVars, history
<1>1. /\ IsFiniteSet(coinsCatched)
      /\ Cardinality(coinsCatched) \in Nat
  BY FS_Subset, FS_CardinalityType, GameAssumption
     DEF GameAssumption, TypeInv, TypeOK
<1>2. /\ playerResult \in [Players -> Nat]
      /\ banked \in Nat
  BY DEF TypeInv, TypeOK
<1>3. ASSUME collideAndEnd PROVE CoinLedger'
  <2>1. \A p \in Players : /\ IsFiniteSet(TakenBy(p))
                           /\ Cardinality(TakenBy(p)) \in Nat
                           /\ TakenBy(p) \cap coinsCatched = {}
    BY TakenIsNew
  <2>2. /\ IsFiniteSet(coinsCatched \cup TakenBy(0))
        /\ Cardinality(coinsCatched \cup TakenBy(0))
             = Cardinality(coinsCatched) + Cardinality(TakenBy(0))
    <3>1. coinsCatched \cap TakenBy(0) = {} /\ IsFiniteSet(TakenBy(0))
      BY <2>1 DEF Players
    <3> QED
      BY <1>1, <3>1, DisjointUnion
  <2>3. Cardinality(coinsCatched')
          = Cardinality(coinsCatched) + Cardinality(TakenBy(0))
              + Cardinality(TakenBy(1))
    <3>1. /\ (coinsCatched \cup TakenBy(0)) \cap TakenBy(1) = {}
          /\ IsFiniteSet(TakenBy(1))
      BY <2>1, TakenOnce DEF Players
    <3>2. Cardinality((coinsCatched \cup TakenBy(0)) \cup TakenBy(1))
            = Cardinality(coinsCatched \cup TakenBy(0))
                + Cardinality(TakenBy(1))
      BY <2>2, <3>1, DisjointUnion
    <3>3. coinsCatched' = (coinsCatched \cup TakenBy(0)) \cup TakenBy(1)
      BY <1>3 DEF collideAndEnd, collision
    <3> QED
      BY <2>2, <3>2, <3>3
  <2>4. /\ playerResult'[0] = playerResult[0] + Cardinality(TakenBy(0))
        /\ playerResult'[1] = playerResult[1] + Cardinality(TakenBy(1))
        /\ banked' = banked
    BY <1>3 DEF collideAndEnd, collision, Players
  <2>5. /\ Cardinality(TakenBy(0)) \in Nat
        /\ Cardinality(TakenBy(1)) \in Nat
        /\ playerResult[0] \in Nat /\ playerResult[1] \in Nat
    BY <1>2, <2>1 DEF Players
  <2> QED
    BY <1>1, <1>2, <2>3, <2>4, <2>5 DEF CoinLedger
<1>4. ASSUME NEW level \in {_LEVEL1, _LEVEL2}, BTNlvl(level)
      PROVE  CoinLedger'
  <2>1. Cardinality({}) = 0
    BY FS_EmptySet
  <2> QED
    BY <1>1, <1>2, <1>4, <2>1 DEF BTNlvl, CoinLedger, Players
<1>5. CASE UNCHANGED << playerResult, coinsCatched, banked >>
  BY <1>5 DEF CoinLedger
<1>6. ASSUME \/ moveOverIR_lower \/ moveOverIR_upper \/ moveOverIR_sync
             \/ \E d \in Directions : movePlayerNunchuk(d)
             \/ checkEndSignal \/ winScreen \/ Button
             \/ \E v \in BufferValues : Receive(v)
             \/ Synchronise \/ UNCHANGED vars
      PROVE  UNCHANGED << playerResult, coinsCatched, banked >>
  BY <1>6 DEF moveOverIR_lower, moveOverIR_upper, moveOverIR_sync,
              movePlayerNunchuk, checkEndSignal, winScreen, Button,
              BTNpressTooStart, BTNselectLevels, BTNseeHighscores, BTNreturn,
              GoTo, Receive, Synchronise, vars
<1> QED
  BY <1>3, <1>4, <1>5, <1>6 DEF Next, MainStep

(***************************************************************************)
(* Every coin taken since power-up is credited to exactly one player.      *)
(***************************************************************************)
THEOREM NoCoinTwice == Spec => []CoinLedger
<1> QED
  BY LedgerInit, LedgerNext, TypeInvariance, PTL DEF Spec

-----------------------------------------------------------------------------
(* The end of a game. *)

HonestInv == LevelOneOnly /\ LivesInPlay /\ WonByCoins

LEMMA HonestInit == Init => HonestInv
BY DEF Init, HonestInv, LevelOneOnly, LivesInPlay, InPlay, WonByCoins

(* With all lives and level 1 selected, only the last coin ends a game. *)
LEMMA OverByCoins ==
  ASSUME LevelOneOnly, LivesInPlay, InPlay, NEW caught, GameOver(caught)
  PROVE  caught = CoinCells
<1>1. \A p \in PlayerSlots : playerLives[p] = 3
  BY DEF LivesInPlay, ResetLives, lives
<1>2. ~ \E p \in PlayerSlots : playerLives[p] <= 0
  BY <1>1
<1> QED
  BY <1>2 DEF GameOver, LevelOneOnly

LEMMA HonestNext == HonestInv /\ [Next]_vars => HonestInv'
<1> SUFFICES ASSUME HonestInv, [Next]_vars PROVE HonestInv'
  OBVIOUS
<1> USE DEF HonestInv, LevelOneOnly, LivesInPlay, InPlay, WonByCoins,
            ResetLives, screenVars, levelVars, scoreVars, irVars, history
<1>1. ASSUME moveOverIR_lower PROVE HonestInv'
  BY <1>1 DEF moveOverIR_lower, Goto
<1>2. ASSUME moveOverIR_upper PROVE HonestInv'
  BY <1>2 DEF moveOverIR_upper, Goto
<1>3. ASSUME moveOverIR_sync PROVE HonestInv'
  BY <1>3 DEF moveOverIR_sync, Goto
<1>4. ASSUME NEW d \in Directions, movePlayerNunchuk(d) PROVE HonestInv'
  BY <1>4 DEF movePlayerNunchuk, Goto
<1>5. ASSUME checkEndSignal PROVE HonestInv'
  BY <1>5 DEF checkEndSignal, HonourEndSignal, Goto, LeaveGame
<1>6. ASSUME collideAndEnd PROVE HonestInv'
  <2>1. InPlay
    BY <1>6 DEF collideAndEnd, Goto
  <2>2. GameOver(coinsCatched') => coinsCatched' = CoinCells
    BY <2>1, OverByCoins
  <2> QED
    BY <1>6, <2>2 DEF collideAndEnd, Goto
<1>7. ASSUME winScreen PROVE HonestInv'
  BY <1>7 DEF winScreen, Goto, LeaveGame
<1>8. ASSUME Button PROVE HonestInv'
  <2>1. UNCHANGED << pc, controlState, levelVars, scoreVars >>
    BY <1>8 DEF Button, BTNpressTooStart, BTNselectLevels, BTNseeHighscores,
                BTNreturn, GoTo
  <2> QED
    BY <2>1
<1>9. ASSUME NEW level \in {_LEVEL1, _LEVEL2}, BTNlvl(level) PROVE HonestInv'
  <2>1. levelSelect' = _LEVEL1
    BY <1>9 DEF BTNlvl, SelectedLevel
  <2>2. ~noCoins' /\ noGhost'
    <3>1. /\ noCoins' = SelectedNoCoins(_LEVEL1)
          /\ noGhost' = SelectedNoGhost(_LEVEL1)
      BY <1>9 DEF BTNlvl, SelectedLevel
    <3>2. SelectedNoCoins(_LEVEL1) = FALSE /\ SelectedNoGhost(_LEVEL1) = TRUE
      BY DEF SelectedNoCoins, SelectedNoGhost, _LEVEL1, _LEVEL2
    <3> QED
      BY <3>1, <3>2, Zenon
  <2>3. playerLives' = ResetLives /\ pc' = "loop"
    BY <1>9 DEF BTNlvl, InMenu
  <2> QED
    BY <2>1, <2>2, <2>3
<1>10. ASSUME NEW v \in BufferValues, Receive(v) PROVE HonestInv'
  BY <1>10 DEF Receive
<1>11. ASSUME Synchronise PROVE HonestInv'
  BY <1>11 DEF Synchronise
<1>12. ASSUME UNCHANGED vars PROVE HonestInv'
  BY <1>12 DEF vars
<1> QED
  BY <1>1, <1>2, <1>3, <1>4, <1>5, <1>6, <1>7, <1>8, <1>9, <1>10, <1>11,
     <1>12 DEF Next, MainStep

(* The only step that sends the end signal is the one off the win screen. *)
LEMMA EndSentFromWinScreen ==
  TypeInv /\ HonestInv /\ [Next]_vars
    => [out' = ENDGAMEVALUE => coinsCatched = CoinCells]_out
<1> SUFFICES ASSUME TypeInv, HonestInv, [Next]_vars,
                    out' # out, out' = ENDGAMEVALUE
             PROVE  coinsCatched = CoinCells
  OBVIOUS
<1>1. ASSUME NEW d \in Directions, movePlayerNunchuk(d) PROVE FALSE
  <2>1. players' \in [Players -> Floor]
    BY TypeNext DEF TypeInv, Positions
  <2>2. out' \in 17 .. 238
    BY <1>1, <2>1, CellByte DEF movePlayerNunchuk, Players
  <2> QED
    BY <2>2 DEF ENDGAMEVALUE
<1>2. CASE winScreen
  BY <1>2 DEF winScreen, Goto, HonestInv, WonByCoins
<1>3. ASSUME \/ moveOverIR_lower \/ moveOverIR_upper \/ moveOverIR_sync
             \/ checkEndSignal \/ collideAndEnd \/ Button
             \/ \E level \in {_LEVEL1, _LEVEL2} : BTNlvl(level)
             \/ \E v \in BufferValues : Receive(v)
             \/ Synchronise \/ UNCHANGED vars
      PROVE  FALSE
  BY <1>3 DEF moveOverIR_lower, moveOverIR_upper, moveOverIR_sync,
              checkEndSignal, collideAndEnd, Button, BTNlvl,
              BTNpressTooStart, BTNselectLevels, BTNseeHighscores, BTNreturn,
              GoTo, Receive, Synchronise, vars, history
<1> QED
  BY <1>1, <1>2, <1>3 DEF Next, MainStep

(***************************************************************************)
(* A board tells its peer the game is over only with its last coin taken.  *)
(***************************************************************************)
THEOREM EndIsHonest == Spec => EndAnnouncedHonestly
<1> QED
  BY HonestInit, HonestNext, EndSentFromWinScreen, TypeInvariance, PTL
     DEF Spec, EndAnnouncedHonestly

(***************************************************************************)
(* Behind LastCoinEndsGame: collision and endGame run in one pass, so a    *)
(* board in a game never goes on with its last coin gone, not for a step.  *)
(***************************************************************************)
LastCoinInv == (controlState = "_GAME" /\ coinsCatched = CoinCells) => pc = "winScreen"

LEMMA LastCoinNext ==
  ASSUME CoinCells # {}, TypeInv, HonestInv, LastCoinInv, [Next]_vars
  PROVE  LastCoinInv'
<1> USE DEF LastCoinInv, screenVars, levelVars, scoreVars, irVars, history
<1>1. CASE collideAndEnd
  <2>1. ~noCoins
    BY DEF HonestInv, LevelOneOnly
  <2>2. coinsCatched' = CoinCells => GameOver(coinsCatched')
    BY <2>1 DEF GameOver
  <2> QED BY <1>1, <2>2 DEF collideAndEnd, Goto
<1>2. ASSUME NEW level \in {_LEVEL1, _LEVEL2}, BTNlvl(level) PROVE LastCoinInv'
  BY <1>2 DEF BTNlvl
<1>3. CASE winScreen \/ checkEndSignal
  BY <1>3 DEF winScreen, checkEndSignal, HonourEndSignal, LeaveGame, Goto
<1>4. ASSUME \/ moveOverIR_lower \/ moveOverIR_upper \/ moveOverIR_sync
             \/ \E d \in Directions : movePlayerNunchuk(d)
      PROVE  LastCoinInv'
  BY <1>4 DEF moveOverIR_lower, moveOverIR_upper, moveOverIR_sync,
              movePlayerNunchuk, Goto
<1>5. ASSUME Button \/ (\E v \in BufferValues : Receive(v)) \/ Synchronise
               \/ UNCHANGED vars
      PROVE  LastCoinInv'
  BY <1>5 DEF Button, BTNpressTooStart, BTNselectLevels, BTNseeHighscores,
              BTNreturn, GoTo, Receive, Synchronise, vars
<1> QED BY <1>1, <1>2, <1>3, <1>4, <1>5 DEF Next, MainStep

(***************************************************************************)
(* On a field with a coin the last coin ends the game at once, and so      *)
(* without any fairness.                                                   *)
(***************************************************************************)
THEOREM LastCoinEnds ==
  ASSUME CoinCells # {}
  PROVE  Spec => LastCoinEndsGame
<1>1. Init => LastCoinInv
  BY DEF Init, LastCoinInv
<1>2. TypeInv /\ HonestInv /\ LastCoinInv /\ [Next]_vars => LastCoinInv'
  BY LastCoinNext
<1>3. LastCoinInv
        => ((controlState = "_GAME" /\ coinsCatched = CoinCells)
              => (pc = "winScreen" \/ controlState = "_MENU"))
  BY DEF LastCoinInv
<1> QED BY HonestInit, HonestNext, TypeInvariance, <1>1, <1>2, <1>3, PTL
        DEF Spec, LastCoinEndsGame

-----------------------------------------------------------------------------
(***************************************************************************)
(* Where the local player can get to, and what it tells the peer.          *)
(***************************************************************************)
WalksOneCell ==
  \/ UNCHANGED << players[0], out >>
  \/ out' = ENDGAMEVALUE /\ UNCHANGED players[0]
  \/ \E d \in Directions :
       /\ players'[0] = walkTo(players[0], Neighbour(players[0], d))
       /\ out' = encodeGridPosition(players'[0])

LEMMA OneCellAStep ==
  ASSUME TypeInv, [Next]_vars
  PROVE  WalksOneCell
<1> USE DEF WalksOneCell, history
<1>0. players \in [Players -> Floor] /\ 0 \in Players /\ 0 # 1
  BY DEF TypeInv, Positions, Players
<1>1. ASSUME NEW d \in Directions, movePlayerNunchuk(d) PROVE WalksOneCell
  BY <1>0, <1>1 DEF movePlayerNunchuk
<1>2. CASE moveOverIR_sync
  <2>1. players'[0] = players[0] /\ out' = out
    BY <1>0, <1>2 DEF moveOverIR_sync
  <2> QED BY <2>1
<1>3. CASE winScreen
  BY <1>3 DEF winScreen
<1>4. ASSUME \/ moveOverIR_lower \/ moveOverIR_upper \/ checkEndSignal
             \/ collideAndEnd \/ Button
             \/ \E level \in {_LEVEL1, _LEVEL2} : BTNlvl(level)
             \/ \E v \in BufferValues : Receive(v)
             \/ Synchronise \/ UNCHANGED vars
      PROVE  UNCHANGED << players, out >>
  BY <1>4 DEF moveOverIR_lower, moveOverIR_upper, checkEndSignal,
              collideAndEnd, Button, BTNpressTooStart, BTNselectLevels,
              BTNseeHighscores, BTNreturn, GoTo, BTNlvl, Receive, Synchronise,
              vars
<1> QED BY <1>1, <1>2, <1>3, <1>4 DEF Next, MainStep

Closed(Part) ==
  \A cell \in Part, d \in Directions : walkTo(cell, Neighbour(cell, d)) \in Part

LEMMA StepStaysInPart ==
  ASSUME NEW Part, Closed(Part), TypeInv, players[0] \in Part, [Next]_vars
  PROVE  players'[0] \in Part
BY OneCellAStep DEF WalksOneCell, Closed

(***************************************************************************)
(* The local player stays in every part of the field that is closed under  *)
(* its moves and that it started in: no stray byte of the link, no game    *)
(* started anew and no end takes it out.                                   *)
(***************************************************************************)
THEOREM StaysInItsPart ==
  ASSUME NEW Part, StartCells[0] \in Part, Closed(Part)
  PROVE  Spec => [](players[0] \in Part)
<1>1. Init => players[0] \in Part
  BY DEF Init
<1>2. TypeInv /\ players[0] \in Part /\ [Next]_vars => (players[0] \in Part)'
  BY StepStaysInPart
<1> QED BY <1>1, <1>2, TypeInvariance, PTL DEF Spec

(***************************************************************************)
(* Level 1 can be won from wherever the local player has got to, in any    *)
(* game and after any bytes of the link.  What its tables say, that no     *)
(* step leads out of the region (HomeIsClosed) and that the coins lie in   *)
(* it, are facts TLC evaluates.                                            *)
(***************************************************************************)
THEOREM LevelOneStaysWinnable ==
  ASSUME Floor = FloorCells, StartCells = startCells, coins \subseteq HomeRegion
  PROVE  Spec => []CoinsStayReachable
<1>1. Init => players[0] \in HomeRegion
  BY HomeIsClosed DEF Init
<1>2. Closed(HomeRegion)
  <2> SUFFICES ASSUME NEW cell \in HomeRegion, NEW d \in Directions
               PROVE  walkTo(cell, Neighbour(cell, d)) \in HomeRegion
    BY DEF Closed
  <2>1. Neighbour(cell, d) \in Adjacent(cell) \cup {cell}
    BY DEF Neighbour, Adjacent
  <2>2. Adjacent(cell) \cap Floor \subseteq HomeRegion
    BY HomeIsClosed
  <2> QED BY <2>1, <2>2 DEF walkTo
<1>3. TypeInv /\ players[0] \in HomeRegion /\ [Next]_vars
        => (players[0] \in HomeRegion)'
  BY <1>2, StepStaysInPart
<1>4. players[0] \in HomeRegion => CoinsStayReachable
  BY DEF CoinsStayReachable
<1> QED BY <1>1, <1>3, <1>4, TypeInvariance, PTL DEF Spec

(***************************************************************************)
(* What a board sends one after the other: a position, then the one next   *)
(* to it, until it announces an end.  IrLink takes its commands so         *)
(* (Follows); the receiver's word can mix two of them, and these differ by *)
(* one step.                                                               *)
(***************************************************************************)
SendsAWalk ==
  [][\/ out \in {0, ENDGAMEVALUE} \/ out' = ENDGAMEVALUE
     \/ \E d \in Directions :
          decodeGridPosition(out') = Neighbour(decodeGridPosition(out), d)]_out

SentIsHere == out \in {0, ENDGAMEVALUE} \/ out = encodeGridPosition(players[0])

THEOREM PositionsFormAWalk == Spec => SendsAWalk
<1>1. Init => SentIsHere
  BY DEF Init, SentIsHere
<1>2. TypeInv /\ SentIsHere /\ [Next]_vars => SentIsHere'
  BY OneCellAStep DEF WalksOneCell, SentIsHere
<1>3. TypeInv /\ TypeInv' /\ SentIsHere /\ [Next]_vars
        => [\/ out \in {0, ENDGAMEVALUE} \/ out' = ENDGAMEVALUE
            \/ \E d \in Directions :
                 decodeGridPosition(out') = Neighbour(decodeGridPosition(out), d)]_out
  <2> SUFFICES ASSUME TypeInv, TypeInv', SentIsHere, [Next]_vars, out' # out,
                      out \notin {0, ENDGAMEVALUE}, out' # ENDGAMEVALUE
               PROVE  \E d \in Directions :
                        decodeGridPosition(out')
                          = Neighbour(decodeGridPosition(out), d)
    OBVIOUS
  <2>1. PICK d \in Directions :
          /\ players'[0] = walkTo(players[0], Neighbour(players[0], d))
          /\ out' = encodeGridPosition(players'[0])
    BY OneCellAStep DEF WalksOneCell
  <2>2. out = encodeGridPosition(players[0])
    BY DEF SentIsHere
  <2>3. players[0] \in Floor /\ players'[0] \in Floor
    BY DEF TypeInv, Positions, Players
  <2>4. players'[0] = Neighbour(players[0], d)
    BY <2>1, <2>2 DEF walkTo
  <2>5. /\ decodeGridPosition(out) = players[0]
        /\ decodeGridPosition(out') = players'[0]
    BY <2>1, <2>2, <2>3, CellByte
  <2> QED BY <2>4, <2>5
<1> QED BY <1>1, <1>2, <1>3, TypeInvariance, PTL DEF Spec, SendsAWalk

-----------------------------------------------------------------------------
(***************************************************************************)
(* The safety half of EndSignalHonoured: how far a board in a game is from *)
(* its look at the end signal.                                             *)
(***************************************************************************)
StepsToCheck ==
  CASE pc = "collide"  -> 5
    [] pc = "loop"     -> 4
    [] pc = "irUpper"  -> 3
    [] pc = "irMove"   -> 2
    [] pc = "move"     -> 1
    [] OTHER           -> 0

EndIsNear ==
  [][(controlState = "_GAME" /\ buffer = ENDGAMEVALUE) =>
       \/ controlState' = "_MENU" \/ buffer' # ENDGAMEVALUE
       \/ pc' = "winScreen"
       \/ StepsToCheck' < StepsToCheck
       \/ ~MainStep /\ StepsToCheck' = StepsToCheck]_vars

(***************************************************************************)
(* While the end signal stays in the word, every step of the loop brings a *)
(* board nearer to its look at it, from which it leaves its game, and      *)
(* nothing else takes it away from there: the pass has no way around.      *)
(***************************************************************************)
THEOREM EndIsWithinAPass == Spec => EndIsNear
<1>1. TypeInv /\ [Next]_vars
        => [(controlState = "_GAME" /\ buffer = ENDGAMEVALUE) =>
              \/ controlState' = "_MENU" \/ buffer' # ENDGAMEVALUE
              \/ pc' = "winScreen"
              \/ StepsToCheck' < StepsToCheck
              \/ ~MainStep /\ StepsToCheck' = StepsToCheck]_vars
  <2> SUFFICES ASSUME TypeInv, Next, controlState = "_GAME",
                      buffer = ENDGAMEVALUE, controlState' # "_MENU",
                      pc' # "winScreen"
               PROVE  \/ StepsToCheck' < StepsToCheck
                      \/ ~MainStep /\ StepsToCheck' = StepsToCheck
    OBVIOUS
  <2>1. CASE MainStep
    <3>1. ASSUME moveOverIR_lower \/ moveOverIR_upper \/ moveOverIR_sync
                   \/ (\E d \in Directions : movePlayerNunchuk(d))
          PROVE  StepsToCheck' < StepsToCheck
      BY <3>1 DEF moveOverIR_lower, moveOverIR_upper, moveOverIR_sync,
                  movePlayerNunchuk, Goto, StepsToCheck
    <3>2. ~checkEndSignal
      BY DEF checkEndSignal, HonourEndSignal, LeaveGame
    <3>3. ASSUME collideAndEnd PROVE StepsToCheck' < StepsToCheck
      <4>1. pc = "collide" /\ pc' = "loop"
        BY <3>3 DEF collideAndEnd, Goto
      <4> QED BY <4>1 DEF StepsToCheck
    <3> QED BY <2>1, <3>1, <3>2, <3>3 DEF MainStep
  <2>2. CASE ~MainStep
    <3>1. ~winScreen
      BY DEF winScreen, LeaveGame
    <3>2. ~Button /\ \A level \in {_LEVEL1, _LEVEL2} : ~BTNlvl(level)
      BY DEF Button, BTNpressTooStart, BTNselectLevels, BTNseeHighscores,
             BTNreturn, BTNlvl, InMenu
    <3>3. pc' = pc
      BY <2>2, <3>1, <3>2 DEF Next, Receive, Synchronise
    <3> QED BY <2>2, <3>3 DEF StepsToCheck
  <2> QED BY <2>1, <2>2
<1> QED BY <1>1, TypeInvariance, PTL DEF Spec, EndIsNear

-----------------------------------------------------------------------------
(* The roads of Navigation. *)

nowAt == IF controlState = "_GAME" THEN "GAME" ELSE nScreen

(* A pass that finds the game left finishes at the loading screen. *)
RoadInv == (controlState = "_MENU" /\ pc # "loop") => nScreen = "LOADING_SCREEN"

LEMMA LeavesForLoading ==
  ASSUME LeaveGame, controlState \in {"_GAME", "_MENU"}, RoadInv, pc # "loop"
  PROVE  /\ controlState' = "_MENU" /\ nScreen' = "LOADING_SCREEN"
         /\ << nowAt, nowAt' >> \in Map!Roads \/ UNCHANGED nowAt
<1>1. controlState' = "_MENU" /\ nScreen' = "LOADING_SCREEN"
      /\ nowAt' = "LOADING_SCREEN"
  BY DEF LeaveGame, nowAt
<1>2. nowAt = "GAME" \/ nowAt = "LOADING_SCREEN"
  BY DEF nowAt, RoadInv
<1> QED BY <1>1, <1>2 DEF Map!Roads

LEMMA RoadStep ==
  TypeInv /\ RoadInv /\ [Next]_vars
    => RoadInv' /\ [(<< nowAt, nowAt' >> \in Map!Roads)]_nowAt
<1> SUFFICES ASSUME TypeInv, RoadInv, [Next]_vars
             PROVE  /\ RoadInv'
                    /\ << nowAt, nowAt' >> \in Map!Roads \/ UNCHANGED nowAt
  OBVIOUS
<1> DEFINE Goal == /\ RoadInv'
                   /\ << nowAt, nowAt' >> \in Map!Roads \/ UNCHANGED nowAt
<1>0. controlState \in {"_GAME", "_MENU"}
  BY DEF TypeInv, TypeOK
<1>1. ASSUME UNCHANGED << controlState, nScreen >>,
             pc # "loop" \/ controlState = "_GAME" \/ UNCHANGED pc
      PROVE  Goal
  BY <1>1 DEF RoadInv, nowAt
<1>2. ASSUME \/ moveOverIR_lower \/ moveOverIR_upper \/ moveOverIR_sync
             \/ \E d \in Directions : movePlayerNunchuk(d)
             \/ collideAndEnd
             \/ \E v \in BufferValues : Receive(v)
             \/ Synchronise \/ UNCHANGED vars
      PROVE  Goal
  BY <1>1, <1>2 DEF moveOverIR_lower, moveOverIR_upper, moveOverIR_sync,
              movePlayerNunchuk, collideAndEnd, Receive, Synchronise, vars,
              screenVars, Goto
<1>3. CASE checkEndSignal
  <2>1. pc = "endCheck" /\ (LeaveGame \/ UNCHANGED << controlState, nScreen >>)
    BY <1>3 DEF checkEndSignal, HonourEndSignal, Goto, screenVars
  <2>2. CASE LeaveGame
    BY <1>0, <2>1, <2>2, LeavesForLoading DEF RoadInv
  <2> QED BY <1>1, <2>1, <2>2
<1>4. CASE winScreen
  <2>1. pc = "winScreen" /\ LeaveGame
    BY <1>4 DEF winScreen, Goto
  <2> QED BY <1>0, <2>1, LeavesForLoading DEF RoadInv
<1>5. ASSUME NEW screen, GoTo(screen), << nScreen, screen >> \in Map!Roads, InMenu
      PROVE  Goal
  <2>1. nowAt = nScreen /\ nowAt' = screen /\ pc' = "loop"
    BY <1>5 DEF GoTo, nowAt, InMenu
  <2> QED BY <1>5, <2>1 DEF RoadInv
<1>6. CASE Button
  <2>1. PICK screen : GoTo(screen) /\ << nScreen, screen >> \in Map!Roads
    BY <1>6 DEF Button, BTNpressTooStart, BTNselectLevels, BTNseeHighscores,
                BTNreturn, Map!Roads
  <2>2. InMenu
    BY <1>6 DEF Button, BTNpressTooStart, BTNselectLevels, BTNseeHighscores,
                BTNreturn
  <2> QED BY <1>5, <2>1, <2>2
<1>7. ASSUME NEW level \in {_LEVEL1, _LEVEL2}, BTNlvl(level) PROVE Goal
  <2>1. nowAt = "LEVEL_SCREEN" /\ nowAt' = "GAME" /\ pc' = "loop"
    BY <1>7 DEF BTNlvl, InMenu, nowAt
  <2> QED BY <2>1 DEF RoadInv, Map!Roads
<1> QED BY <1>2, <1>3, <1>4, <1>6, <1>7 DEF Next, MainStep

(***************************************************************************)
(* The game implements the map of screens that the menu implements too.    *)
(***************************************************************************)
THEOREM GameKeepsToTheRoads == Spec => KeepsToTheRoads
<1>1. Init => Map!Init /\ RoadInv
  BY DEF Init, Map!Init, RoadInv
<1>2. TypeInv /\ RoadInv /\ [Next]_vars
        => RoadInv' /\ [Map!Go]_(IF controlState = "_GAME" THEN "GAME" ELSE nScreen)
  BY RoadStep DEF nowAt, Map!Go
<1> QED BY <1>1, <1>2, TypeInvariance, PTL DEF Spec, KeepsToTheRoads, Map!Spec
=============================================================================
