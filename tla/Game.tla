------------------------------- MODULE Game -------------------------------
(***************************************************************************)
(* One game board: the main loop of main.cpp with the game it plays        *)
(* (notMain) and the buttons that start it (screens.cpp).                  *)
(*                                                                         *)
(* The loop is cut where the infrared interrupt can be noticed: between    *)
(* two reads of the shared word `buffer'.  The interrupt itself is the     *)
(* action Receive, which may store any value at any time; what the link    *)
(* can really produce is the subject of IrLink.                            *)
(*                                                                         *)
(* Player 0 is steered by the local Nunchuk, player 1 is the replica of    *)
(* the peer's player.  A coin is named by its cell: the table has no two   *)
(* coins on one cell.                                                      *)
(***************************************************************************)
EXTENDS Maze, FiniteSets

CONSTANTS
  CoinCells,      \* coins[]: the cells that hold a coin
  StartCells,     \* players[0] and players[1] at power-up
  BufferValues,   \* the values the receiver may leave in `buffer'
  MaxGames        \* bound: games started since power-up

Players == {0, 1}                   \* numPlayers = 2
PlayerSlots == 0 .. 5               \* PLAYER_LENGTH = 6
lives == 3

ASSUME GameAssumption ==
  /\ IsFiniteSet(CoinCells)
  /\ StartCells \in [Players -> Floor]
  /\ BufferValues \subseteq Nat
  /\ MaxGames \in Nat

_LEVEL1 == 0
_LEVEL2 == 1

VARIABLES
  pc,             \* where the loop stands, see the actions
  controlState,   \* "_GAME", "_MENU" or "_PLAYERMENU"
  nScreen,        \* the menu screen to show
  levelSelect, noCoins, noGhost, runGame,
  players,        \* cell of either player
  playerResult, playerLives,
  coinsCatched,   \* the coins taken in this game
  buffer,         \* the last byte received, written by the interrupt
  synchroon, synchroniseer,
  out,            \* the last command handed to sendCommand (history)
  games,          \* games started so far (history)
  banked          \* coins taken in the games before this one (history)

levelVars  == << levelSelect, noCoins, noGhost, runGame >>
screenVars == << controlState, nScreen >>
scoreVars  == << playerResult, playerLives, coinsCatched >>
irVars     == << buffer, synchroon, synchroniseer >>
history    == << out, games, banked >>
vars == << pc, screenVars, levelVars, players, scoreVars, irVars, history >>

(***************************************************************************)
(* Power-up: the globals' initial values, then selectLevel(0) and          *)
(* switchControlState(_MENU) as main does before its loop.                 *)
(***************************************************************************)
Init ==
  /\ pc = "loop"
  /\ controlState = "_MENU" /\ nScreen = "LOADING_SCREEN"
  /\ levelSelect = _LEVEL1 /\ noCoins = FALSE /\ noGhost = TRUE
  /\ runGame = FALSE
  /\ players = StartCells
  /\ playerResult = [p \in Players |-> 0]
  /\ playerLives = [p \in PlayerSlots |-> 0]
  /\ coinsCatched = {}
  /\ buffer = 0 /\ synchroon = TRUE /\ synchroniseer = FALSE
  /\ out = 0 /\ games = 0 /\ banked = 0

-----------------------------------------------------------------------------
(* Interrupts. *)

(***************************************************************************)
(* INT0: the receiver changes the shared word, at any moment.              *)
(***************************************************************************)
Receive(v) ==
  /\ buffer' = v
  /\ UNCHANGED << pc, screenVars, levelVars, players, scoreVars,
                  synchroon, synchroniseer, history >>

(***************************************************************************)
(* TIMER0: 5000 ticks after the last transmission the link counts as       *)
(* synchronised.  Nothing ever clears synchroniseer again.                 *)
(***************************************************************************)
Synchronise ==
  /\ synchroon
  /\ synchroniseer' = TRUE /\ synchroon' = FALSE
  /\ UNCHANGED << pc, screenVars, levelVars, players, scoreVars, buffer,
                  history >>

-----------------------------------------------------------------------------
(* The menu, as far as its buttons' actions go. *)

InMenu == pc = "loop" /\ controlState = "_MENU"

GoTo(screen) ==
  /\ nScreen' = screen
  /\ UNCHANGED << pc, controlState, levelVars, players, scoreVars, irVars,
                  history >>

BTNpressTooStart ==
  InMenu /\ nScreen = "LOADING_SCREEN" /\ GoTo("MENU_SCREEN")

BTNselectLevels ==
  InMenu /\ nScreen = "MENU_SCREEN" /\ GoTo("LEVEL_SCREEN")

BTNseeHighscores ==
  InMenu /\ nScreen = "MENU_SCREEN" /\ GoTo("HIGHSCORE_SCREEN")

BTNreturn ==
  /\ InMenu
  /\ \/ nScreen = "MENU_SCREEN" /\ GoTo("LOADING_SCREEN")
     \/ nScreen \in {"LEVEL_SCREEN", "HIGHSCORE_SCREEN"} /\ GoTo("MENU_SCREEN")

(***************************************************************************)
(* selectLevel: levelSelect is _LEVEL1 for BOTH arguments.                 *)
(***************************************************************************)
SelectedLevel(level)   == _LEVEL1
CoinsOff(level)        == level = _LEVEL1
SelectedNoCoins(level) == level = _LEVEL2
SelectedNoGhost(level) == level = _LEVEL1

(***************************************************************************)
(* resetGame: every slot gets its lives back, every coin is put back.      *)
(* The results are not cleared and the players stay where they are.        *)
(***************************************************************************)
ForgetTheSpareSlots == [p \in PlayerSlots |-> IF p < 2 THEN lives ELSE 0]
ResetLives == [p \in PlayerSlots |-> lives]

(***************************************************************************)
(* BTNlvl1 and BTNlvl2: selectLevel(level), then switchControlState(_GAME) *)
(* and in it setupGame, which calls selectLevel(levelSelect) once more.    *)
(* The branch of switchControlState for levelSelect = _LEVEL2 can never be *)
(* taken (LevelOneOnly), so the game below is that of level 1.             *)
(***************************************************************************)
BTNlvl(level) ==
  /\ InMenu /\ nScreen = "LEVEL_SCREEN"
  /\ games < MaxGames
  /\ LET selected == SelectedLevel(level)
     IN  /\ levelSelect' = SelectedLevel(selected)
         /\ noCoins' = SelectedNoCoins(selected)
         /\ noGhost' = SelectedNoGhost(selected)
  /\ playerLives' = ResetLives
  /\ coinsCatched' = {}
  /\ runGame' = TRUE
  /\ controlState' = "_GAME"
  /\ games' = games + 1
  /\ banked' = banked + Cardinality(coinsCatched)
  /\ UNCHANGED << pc, nScreen, players, playerResult, irVars, out >>

-----------------------------------------------------------------------------
(* One pass of the loop in _GAME. *)

Goto(from, to) == pc = from /\ pc' = to

(***************************************************************************)
(* moveOverIR reads the shared word three times: twice in its condition,   *)
(* once more for the position it acts on.                                  *)
(***************************************************************************)
moveOverIR_lower ==
  /\ controlState = "_GAME"
  /\ Goto("loop", IF buffer > BUFFERIRBEGIN THEN "irUpper" ELSE "move")
  /\ UNCHANGED << screenVars, levelVars, players, scoreVars, irVars, history >>

moveOverIR_upper ==
  /\ Goto("irUpper",
          IF buffer < BUFFERIREND /\ synchroniseer THEN "irMove" ELSE "move")
  /\ UNCHANGED << screenVars, levelVars, players, scoreVars, irVars, history >>

(* syncPlayerLocation(decodeGridPosition(buffer), 1) *)
moveOverIR_sync ==
  /\ Goto("irMove", "move")
  /\ players' = [players EXCEPT ![1] = walkTo(@, decodeGridPosition(buffer))]
  /\ synchroon' = TRUE
  /\ UNCHANGED << screenVars, levelVars, scoreVars, buffer, synchroniseer,
                  history >>

(***************************************************************************)
(* movePlayerNunchuk(0), then sendCommand of the cell now stood on.  The   *)
(* stick's direction d is any: a failed read repeats the last one.         *)
(***************************************************************************)
movePlayerNunchuk(d) ==
  /\ Goto("move", "endCheck")
  /\ players' = [players EXCEPT ![0] = walkTo(@, Neighbour(@, d))]
  /\ out' = encodeGridPosition(players'[0])
  /\ UNCHANGED << screenVars, levelVars, scoreVars, irVars, games, banked >>

StaysAtItsLevel ==
  /\ runGame' = FALSE
  /\ controlState' = "_MENU"
  /\ UNCHANGED nScreen
LeaveGame ==
  /\ runGame' = FALSE
  /\ controlState' = "_MENU"
  /\ nScreen' = "LOADING_SCREEN"

(***************************************************************************)
(* buffer == ENDGAMEVALUE: the peer says the game is over.  The pass goes  *)
(* on with collision and endGame all the same, and buffer is not cleared.  *)
(***************************************************************************)
DropEndSignal == Goto("endCheck", "collide") /\ UNCHANGED << screenVars, runGame >>
HonourEndSignal ==
  /\ Goto("endCheck", "collide")
  /\ IF buffer = ENDGAMEVALUE
       THEN LeaveGame
       ELSE UNCHANGED << screenVars, runGame >>

checkEndSignal ==
  /\ HonourEndSignal
  /\ UNCHANGED << levelSelect, noCoins, noGhost, players, scoreVars, irVars,
                  history >>

(***************************************************************************)
(* collision: player 0 takes the coin it stands on before player 1 does.   *)
(***************************************************************************)
CountTwice(p) == ({players[p]} \cap CoinCells) \ coinsCatched
TakenBy(p) ==
  LET open(q) == ({players[q]} \cap CoinCells) \ coinsCatched
  IN  IF p = 0 THEN open(0) ELSE open(1) \ open(0)

(***************************************************************************)
(* endGame of level 1, which has no ghosts.                                *)
(***************************************************************************)
GameOver(caught) ==
  \/ ~(noCoins \/ caught # CoinCells)
  \/ ~noGhost
  \/ \E p \in PlayerSlots : playerLives[p] <= 0

collision ==
  /\ coinsCatched' = coinsCatched \cup TakenBy(0) \cup TakenBy(1)
  /\ playerResult' = [p \in Players |->
                        playerResult[p] + Cardinality(TakenBy(p))]

collideAndEnd ==
  /\ collision
  /\ Goto("collide", IF GameOver(coinsCatched') THEN "winScreen" ELSE "loop")
  /\ UNCHANGED << screenVars, levelVars, players, playerLives, irVars,
                  history >>

(***************************************************************************)
(* winScreen spins until the Nunchuk reports button C; only then is the    *)
(* game left and the peer told, by sendCommand(EMPTY, ENDGAMEVALUE).       *)
(***************************************************************************)
winScreen ==
  /\ Goto("winScreen", "loop")
  /\ LeaveGame
  /\ out' = ENDGAMEVALUE
  /\ UNCHANGED << levelSelect, noCoins, noGhost, players, scoreVars, irVars,
                  games, banked >>

-----------------------------------------------------------------------------
Button == BTNpressTooStart \/ BTNselectLevels \/ BTNseeHighscores \/ BTNreturn

(* What the processor does by itself, without a user or an interrupt. *)
MainStep ==
  \/ moveOverIR_lower
  \/ moveOverIR_upper
  \/ moveOverIR_sync
  \/ \E d \in Directions : movePlayerNunchuk(d)
  \/ checkEndSignal
  \/ collideAndEnd

Next ==
  \/ MainStep
  \/ winScreen
  \/ Button
  \/ \E level \in {_LEVEL1, _LEVEL2} : BTNlvl(level)
  \/ \E v \in BufferValues : Receive(v)
  \/ Synchronise

Spec == Init /\ [][Next]_vars

(***************************************************************************)
(* The loop never blocks outside winScreen, so the processor keeps taking  *)
(* its steps; the user owes nothing.                                       *)
(***************************************************************************)
FairSpec == Spec /\ WF_vars(MainStep)

-----------------------------------------------------------------------------
(* Properties. *)

TypeOK ==
  /\ pc \in {"loop", "irUpper", "irMove", "move", "endCheck", "collide",
             "winScreen"}
  /\ controlState \in {"_GAME", "_MENU"}
  /\ nScreen \in {"LOADING_SCREEN", "MENU_SCREEN", "LEVEL_SCREEN",
                  "HIGHSCORE_SCREEN"}
  /\ levelSelect \in {_LEVEL1, _LEVEL2}
  /\ noCoins \in BOOLEAN /\ noGhost \in BOOLEAN /\ runGame \in BOOLEAN
  /\ players \in [Players -> Grid]
  /\ playerResult \in [Players -> Nat]
  /\ playerLives \in [PlayerSlots -> Nat]
  /\ coinsCatched \subseteq CoinCells
  /\ buffer \in Nat
  /\ synchroon \in BOOLEAN /\ synchroniseer \in BOOLEAN
  /\ out \in Nat /\ games \in Nat /\ banked \in Nat

(***************************************************************************)
(* Whatever the interrupt stores between the three reads of moveOverIR,    *)
(* a half received byte or noise, neither player ever stands in a wall.    *)
(***************************************************************************)
PlayersOnFloor == \A p \in Players : players[p] \in Floor

(***************************************************************************)
(* Every cell a player can stand on is sent as a byte the peer takes for   *)
(* a position and not for the end of the game, and decodes to that cell.   *)
(***************************************************************************)
PositionSurvivesTheLink ==
  \A p \in Players :
    LET b == encodeGridPosition(players[p])
    IN  /\ b > BUFFERIRBEGIN /\ b < BUFFERIREND /\ b # ENDGAMEVALUE
        /\ decodeGridPosition(b) = players[p]

(***************************************************************************)
(* No coin is credited twice or to nobody: since power-up the two results  *)
(* add up to the coins taken, also when both players stand on one coin,    *)
(* and over games, as resetGame puts the coins back but keeps the results. *)
(***************************************************************************)
CoinLedger ==
  playerResult[0] + playerResult[1] = banked + Cardinality(coinsCatched)

(***************************************************************************)
(* A board tells its peer the game is over only when every coin has been   *)
(* taken on this board: in level 1 no life is ever lost.                   *)
(***************************************************************************)
EndAnnouncedHonestly ==
  [][out' = ENDGAMEVALUE => coinsCatched = CoinCells]_out

(***************************************************************************)
(* An end signal that stays in the buffer takes the board out of the game. *)
(***************************************************************************)
EndSignalHonoured ==
  (controlState = "_GAME" /\ buffer = ENDGAMEVALUE)
    ~> (controlState = "_MENU" \/ buffer # ENDGAMEVALUE \/ pc = "winScreen")

(***************************************************************************)
(* Once the last coin is gone the game ends: the board shows its win       *)
(* screen or is back in the menu.                                          *)
(***************************************************************************)
LastCoinEndsGame ==
  (controlState = "_GAME" /\ coinsCatched = CoinCells)
    ~> (pc = "winScreen" \/ controlState = "_MENU")

(***************************************************************************)
(* The game is entered from its screen alone and left for the loading      *)
(* screen alone, by whichever of its two ends comes first: the roads of    *)
(* Navigation, to which Menu keeps as well.                                *)
(***************************************************************************)
Map == INSTANCE Navigation
         WITH place <- IF controlState = "_GAME" THEN "GAME" ELSE nScreen

KeepsToTheRoads == Map!Spec

(***************************************************************************)
(* What makes the end of a game honest, by induction: selectLevel selects  *)
(* level 1 whatever the button, so a game ends by its coins alone; every   *)
(* slot has its lives while a game is on; the win screen is reached with   *)
(* the last coin.                                                          *)
(***************************************************************************)
LevelOneOnly == levelSelect = _LEVEL1 /\ ~noCoins /\ noGhost

InPlay == pc # "loop" \/ controlState = "_GAME"

LivesInPlay == InPlay => playerLives = ResetLives

WonByCoins == pc = "winScreen" => coinsCatched = CoinCells

(***************************************************************************)
(* The button of level 2 starts level 2, as its comment has it.            *)
(***************************************************************************)
LevelTwoStarts ==
  [][BTNlvl(_LEVEL2) => levelSelect' = _LEVEL2]_vars
=============================================================================
