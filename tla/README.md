# TLA+ models of the two-board Pacman

Two Arduino boards, each with a display, a Nunchuk and an infrared LED and
receiver, play Pacman on the same field.  Each board moves its own player by the
Nunchuk, sends the cell the player stands on as an infrared frame, and shows the
peer's player where the frames it receives put it.  This directory holds models
of that program, the TLC runs that check them and the TLAPS proofs about them.

Paths below are relative to the repository: `src/notMain` is the file that
`src/main.cpp` includes, and holds most of the program.

## 1. Inventory

| component | state | operations | talks to |
|---|---|---|---|
| main loop, `src/main.cpp` | `controlState`, `nScreen`, `action` | one pass per state: `_GAME`, `_PLAYERMENU`, `_MENU` | everything below, by calls |
| game, `src/notMain` | `players`, `playerResult`, `playerLives`, `coinsCatched`, `levelSelect`, `noCoins`, `noGhost`, `runGame` | `moveOverIR`, `movePlayerNunchuk`, `collision`, `endGame`, `resetGame`, `selectLevel`, `setupGame`, `winScreen` | the shared word `buffer`; `sendCommand` |
| field, `src/notMain` | constant tables | `getTileAt`, `walkTo`, `encodeGridPosition`, `decodeGridPosition` | |
| transmitter, `src/notMain` | `counter69`, `logicalone` .. `logicalend`, the bit `COM0A0` | `sendCommand`, `sendBegin`, `sendByte`, `sendNEC`, `sendEnd`; `TIMER0_COMPA` | shares its state with the interrupt, without a lock |
| receiver, `src/notMain` | `buffer`, `bufferIndex`, `end`, `prevCounterValue` | `INT0` | the main loop reads `buffer` |
| menu, `src/screens.cpp` | `nScreen`, `cScreen`, `activeButton`, the touch point | `handle...Screen`, the buttons' lambdas | `selectLevel`, `switchControlState` |
| player menu, `src/main.cpp` | `GhostOfPacman`, `nunchukIsGhost`, `IrIsGhost`, last button states | the role messages 204, 51, 240 | the link; never entered, see finding 1 |
| level 2, `src/notMain` | `ghosts2`, `playerLives2`, `score` | `collectGhost`, `moveGhostNunchuk`, `WDT_vect` | never entered |
| high scores, `src/score.cpp` | `nameList`, `scoreList`, `posList`, the EEPROM | `getScore`, `sort`, `addScore`, `setupScore` | `endGame` (level 2), score screen |
| music, `lib/sound` | `musicCt`, `duration`, `maxDuration`, `_loop` | `playMusic`, `stopMusic`, `TIMER2_OVF` | steals time from the link's interrupts |
| Nunchuk, `lib/Nunchuk` | `state`, `NunChuckPosition` | `begin`, `getState`, `getNunchukPosition`, `nunchuckWrap` | I2C |
| drawing, seven segments, `util/gridMaker.py`, vendored libraries | none the game reads | | |

What is hard here:

* the interrupts and the main loop share words wider than the processor's bytes,
  with no lock (`buffer`, `counter69`), and the loop reads one word several times
  where it means one value;
* the loop acts on `buffer` while a frame is still coming in: the flag `end` is
  written and never read;
* the link loses pulses, has no acknowledgement and no retry, and the end of a
  game travels over it once;
* the transmitter's busy waits end only by the interrupt;
* results, positions and the received byte outlive a game, while coins and lives
  are reset;
* a pass of the menu either draws or acts, Z is not debounced, and the index of the
  active button is compared once as it is and once as a remainder;
* `addScore` puts a row into the EEPROM a byte at a time, at a row number that `sort`
  has moved along; the power may go between any two bytes;
* a short answer of the Nunchuk overwrites the first bytes of the buffer the next
  answer is decoded from;
* the two boards each keep both players and agree only as far as frames arrive.

What each component has to do for the program to be right:

* game: nobody in a wall; every coin credited once; a game ends with its last
  coin or by the peer's signal, and announces its end only when it is over;
* field: a position survives its byte; every coin can be reached;
* transmitter: pulses of the right widths in the right order, the LED never left
  on, every command completes;
* receiver: resynchronises at every begin; never takes positions for the end;
* menu: a new screen gets drawn, screens change along the map, the highlighted button
  is the one that acts;
* high scores: memory and EEPROM hold the same entries after any calls, and a loss of
  power costs one at most;
* music: every note is played for its duration, the index stays in the table;
* Nunchuk: what is decoded is one whole reading, and the game goes by it.

`PROJECT.json` lists the components with their status, and every hazard at the
line where it bites with the properties that would catch it.

## 2. Modules

An arrow reads "is extended by"; `=>` reads "implements".

    Maze <- Game <- MCGame, MCLevel1 (with Levels)      Game, Menu    => Navigation
    Maze <- Duel <- MCDuel                              IrTransmitter => FrameSender
    IrCode <- FrameSender                               Sound         => PlayList
    IrCode <- IrTransmitter <- MCIrTransmitter
    IrLink <- MCIrLink          Menu <- MCMenu          HighScore <- MCHighScore
    Sound <- MCSound            Nunchuk <- MCNunchuk

Game, IrTransmitter, IrLink, Duel, Menu, HighScore, Sound and Nunchuk each have a
module of proofs, `<module>_proofs`, that extends them.

**Maze** has the pure functions every move goes through.  The program keeps
pixels, but every coordinate it stores is a multiple of `BLOCK_SIZE`, on which the
float division and `revRound` of `walkTo` are exact, so a position is a cell.  The
joystick's axes are modelled byte by byte: the directions a player can move in
are what `nunchuckWrap` makes of any two bytes, the y axis negated in eight bits as
`getNunchukPosition` does.  (The comments in `movePlayerNunchuk` call bit 3 left
and bit 2 right; the code adds to x for bit 3.)

**Game** is one board: the loop's `_GAME` case, the buttons that lead to it, the
receiving interrupt as a store of any value of `BufferValues` at any time.  A pass
is cut exactly where the interrupt can be noticed, that is between reads of
`buffer`: `moveOverIR` compares it with 10 (`moveOverIR_lower`), with 256
(`moveOverIR_upper`) and decodes it (`moveOverIR_sync`), the loop compares it with
255 (`checkEndSignal`).  What lies between two reads is one action:
`movePlayerNunchuk` with the `sendCommand` that follows, `collideAndEnd` (collision
and `endGame`).  `winScreen` is the return from the wait for button C together with
what the loop does then.

| state or action | code |
|---|---|
| `pc` | the place in the pass, `"loop"` before the next one |
| `players[0]`, `players[1]` | `players[playerId]` and `players[IrId]`; the ids are 0 and 1 as long as the player menu is never entered |
| `coinsCatched` | the set of cells whose flag is set |
| `out`, `games`, `banked` | history: the last byte sent, games begun, coins taken in earlier games |
| `BTNlvl` | the lambda of a level button, with `selectLevel`, `switchControlState`, `setupGame`, `resetGame` |
| `LeaveGame` | `runGame = false; switchControlState(_MENU); nScreen = LOADING_SCREEN` |

**Navigation** is the map of screens a user is promised: which screen leads to which,
that a game begins at the level screen and ends at the loading screen.  Game, which
knows the buttons by name only, and Menu, which knows how they are chosen, both
implement it (`KeepsToTheRoads`, in each with a refinement mapping of its own), and it
is where the two meet.

**Levels** holds the tables of level 1 and `getTileAt`, which reads them, and the part of
the field the local player starts in (`HomeRegion`).  That no step leads out of it
(`HomeIsClosed`) is a fact of the tables, which TLC evaluates.

**IrCode** has the pulse code, from the sender's limits to the receiver's windows, with
the receiver's subtraction in 16 bits with a sign (`PulseDuration`).  **IrTransmitter** is
the sender at the level of its statements and of single timer ticks, **FrameSender** what
it promises.  `counter69 = NULL` is two stores, in either order, and the tick interrupt
may come between any two statements.  A pulse that has left is classified as a receiver
would classify it, whose own counter may show any value of `Clocks` when the pulse begins.

**IrLink** has the receiver at the level of pulses: `INT0` as three cases over the
symbol the pulse is taken for, and an air that swallows a pulse or makes it a width of
no symbol.  The main loop reads the 16 bit word a byte at a time; pulses are hundreds of
microseconds apart, so one read meets one pulse at most, and what it can return is either
byte from before the pulse or from after it (`MayRead`).  `Follows` says which byte may
come after which: a player walks one cell a pass, so the positions sent are a walk
(`OneStep`), which `PositionsFormAWalk` proves of Game.  The spoiled begin pulse that
FrameSender allows is a `Distort` of pulse 0 here.

**Duel** has two boards that feed each other.  Each runs the pass of Game with
fewer cuts: `Move` (both moves and the begin of `sendCommand`), `Sent` (its busy waits
are over), `Collide` (the end signal, collision, `endGame`), `WinScreen` (button C and
the end announced).  In between the peer's word may change, by `Arrive`: it holds what
`PrefixReceived` of IrLink says it holds, the begun frame's first bits.  `Disturb` spoils
the rest of a frame and leaves noise behind, or what was there.  `trail` and `announced` are
history: the cells sent, and whether an end was announced of which the peer's word may still
tell.  The first part of a later frame that arrives takes `announced` back, so that every end a
board honours needs an announcement of its own.  `playerResult` and the
screens of the menu are left to Game; both boards are synchronised from the start.

**Menu** is the `_MENU` case: a pass that draws a new screen and loses the input
(`InitScreen`), or hands Z (`SelectButton`), a C that has been released (`HoldC`,
`NextButton`) or a touch (`Touch`) to the screen's handler.  `display` and `lit` keep what
the program has drawn, as that is what a user goes by; `idle` counts touches of one
button that did nothing.  A game is one state, left by `EndOfGame`.

**HighScore** is `getScore`, `sort` and `addScore` over an EEPROM of bytes.  `sort` is cut
at each step of its loops and `addScore` at each byte it puts, because `Reset`, the loss of
power, may come anywhere and leaves the EEPROM only.  `intent`, `interrupted` and `dirty`
are history: what was last meant for each row, which rows' puts were cut off, and whether
a score came in since the last sort.  The callers are the main loop's: one call at a time,
in any order.  (The one call of `addScore` is behind level 2, so today's program does not
reach it; `getScore`, the page and the sort are reached.)

**Sound** is the player: `playMusic`, `stopMusic`, the loop flag, and `TIMER2_OVF`, an
overflow at a time.  **PlayList** is what it promises: each note in its order for its time.
The interrupt clears `duration` twice when a note follows, by itself (`lib/sound/sound.cpp:31`)
and in `setDuration`; the first of these shows at the end of a song only.  `stopMusic` in the
middle of a song and a second `playMusic` are calls the player offers and today's `main`, which
calls `enableLoop` and `playMusic` once, does not make.

**Nunchuk** is the driver: every read leaves the first n bytes of an answer in the one
static buffer, in `begin`, which `main` retries until a whole id has come, and in
`getState`.  `Encoded` packs a reading into bytes as the device does, and `Decoded` is the
driver's shifts and masks.  `given`, the last whole answer, and `taken`, that `winScreen` has had
its buttons, are history.

## 3. Runs

| run | what it shows |
|---|---|
| `game` | with prefixes, walls, the end signal and overlong values stored at any point of the loop, through two games: players stay on the floor, positions survive their byte, the results add up to the coins taken, the end is announced only with every coin taken, an end signal is honoured, the last coin ends the game, and the game keeps to the map of screens |
| `level1` | the same on the real field: no walk leads out of the part of the field the coins lie in |
| `level_two` | finding 1 |
| `ir_transmitter` | pulses in order and of their widths, also across a wrap of the receiver's counter; the LED never left on; commands complete |
| `ir_link` | for every walk over the positions: resynchronisation, the meaning of `end`, no phantom end of game, and that a frame that loses nothing arrives |
| `duel` | two boards through two games with a spoiled frame: what takes a board out of its game, where the replica can stray to, and that an announced end reaches a peer in its game |
| `menu` | what is lit is what Z clicks, a second touch acts, screens change along the roads only, a new screen gets drawn whatever is pressed meanwhile |
| `menu_next` | finding 2 |
| `high_score` | memory and EEPROM agree, rows stay a permutation, the list is sorted until a score comes in, a loss of power costs one row and inflates none, calls return |
| `high_score_twice` | finding 3 |
| `sound` | every note in order and for its own time, the index stays in the table, a song begun gets to its last note |
| `nunchuk` | only whole readings are decoded, whatever answers broke off before, and the game goes by them; a press `winScreen` has cleared does not come back with a failed read |

Every property of a passing run has a mutant of the code in `PROJECT.json` that TLC
finds to violate it; the mutated operators stand in the modules before the ones
they replace.

### Bounds

* `game`: a corridor of three cells and a side branch; two coins, so that both
  players can stand on one and each can take the last; seven buffer values: nothing,
  a prefix, two positions, a wall, the end, and a value above 255.  Two games
  (`MaxGames`), as the second differs from the first in what the first left behind,
  and a third would differ from the second in nothing but larger results.
* `level1`: the real tables, one game, and one buffer value that puts the replica
  into the part of the field no player can walk to: the free cells (13..14, 7..11).
* `ir_transmitter`: all tick counts are the code's own.  The two bytes hold both
  bits next to each other in every order.  `MaxLag` = 2 ticks between two statements
  of the main loop, `Shrink` = 1 and `Stretch` = 9 ticks of measuring error: the most
  that `TimingAssumption` (`3 * MaxLag + Shrink <= 7`, `Stretch <= 9`) allows, which is
  what the proof needs; beyond it a pulse leaves its window and `SendsFrames` fails.
  `Clocks` puts the receiver's counter far from its limits, where it changes its sign
  and where it wraps.  An idle transmitter is used again before `MaxIdle` = 5632 ticks,
  which is above 5000 and ends at a byte boundary, where a torn reset shows.
* `ir_link`: all 196 positions and all walks over them, on a field without inner walls,
  which has every other field's walks.  `MaxLosses` = 2 pulses since the last begin that
  arrived, and the bound is sharp: with three losses TLC finds positions read as the end
  of the game, because bits are appended behind the last frame's.  With two losses the word
  itself never says so, but a read that a pulse splits may; with one, not even that.
  The end signal is not among the commands here: a phantom is what would look like it.  So
  the run says nothing of the bits a lost begin may leave of an end that was sent.
* `duel`: a corridor of three cells, in which the first five bits of (3,1) are the byte
  of (1,1), so `Prefixes` shows five bits and all eight (a frame of which nothing has
  arrived leaves the old word, and the begin alone is among the noise).  A word of noise is
  nothing, the end without its last bit, or a cell; never the end itself, which is what
  `NoPhantomEnd` is about.  Two games, as the second starts with the stale word and the
  positions of the first; one loss, as a frame spoiled is what the program cannot mend.
* `menu`: all of the code's screens, buttons and boxes and all 256 values of
  `activeButton`; seven touch points, one in each button, one on an edge, one beside all.
* `high_score`: four rows, the fewest in which an entry is shifted past two others and
  one stays; three scores, so that the second and third meet a list the first has
  disturbed; two losses of power.  The EEPROM begins as `setupScore` would leave it, erased,
  or with a tie out of order; the scores 15, 25, 256 and 131072 differ in different bytes,
  so that a half put row would show.
* `sound`: four notes of durations 1, 2, 1 and, as in the program's table, none for the last: a
  longer note after a shorter one and a shorter after a longer.
* `nunchuk`: three readings that differ in every byte and two ids, so that no mixture
  of two answers is a reading.

A pulse that is swallowed or comes out between two symbols is modelled; one that is
stretched from one symbol's window into another's is not (the windows lie tens of
ticks apart), and neither are two pulses that merge because the pause between them is lost: two
zeros would then be measured as 75 + 26 + 75 = 176 ticks, close to a one.  In Duel what
it leaves in the word is taken for a `Noise`, which for the proofs is any byte but the end signal.
`playerResult` is a natural number; in the code it is 16 bits wide
and would take thousands of games to wrap.

### Fairness

* Game: `WF_vars(MainStep)`.  Outside `winScreen` the loop has no wait that depends
  on anybody (the waits for the link's own interrupt are the subject of
  IrTransmitter), so the processor keeps going.  Users, the peer and the air owe
  nothing: `winScreen` and the buttons have no fairness.
* IrTransmitter: weak fairness of the timer interrupt, which runs from `initIR` on,
  and of the processor's statements.
* IrLink: weak fairness of `Deliver`: the peer's timer goes on with a frame begun.
  It does not force an arrival, as a lost pulse moves the frame on just as well.

* Duel: weak fairness of `Runs(b)` for each board: the loop, its busy waits and the
  frame under way.  Users owe nothing: neither `Start` nor `WinScreen` is fair, and
  `EndReachesPeer` begins where a user has left the win screen.
* Menu: weak fairness of `Pass`, as the loop goes round, and of `NextButton`: C is let
  go at some time, and the Nunchuk says so.  The second is an assumption about user and
  plug; without it the loop of `src/main.cpp:201` spins for ever.
* HighScore: weak fairness of `Running`, the steps of a call that has begun.  Nobody has
  to score or to look at the page, and the power may stay on.
* Sound: weak fairness of `TIMER2_OVF`: a timer that is started overflows.
* Nunchuk: none.  A device that is unplugged never answers.

Only `duel` switches deadlock checking off: both boards may rest in the menu
with no user to start a game (and `Start` is bounded by `MaxGames`).  None of the other
models can stop.

## 4. Findings

1. **Level 2 cannot be played** (`level_two`).  `selectLevel` sets `levelSelect` to
   `_LEVEL1` in both cases (`src/notMain:1082`), although `src/screens.cpp:54` says
   "start level 2".  Everything behind `_LEVEL2`, the player menu, the ghosts and
   the high scores included, is never reached.
2. **C does not always move** (`menu_next`).  `activeButton` is a `uint8_t` used modulo the
   three buttons (`src/screens.cpp:180`); as 255 % 3 is 0, the step from 255 to 0 leaves the
   highlight where it is, although `src/main.cpp:198` says "move to next button".
3. **A second score replaces the first** (`high_score_twice`).  `addScore` takes
   `scoreList[0]` for the lowest score (`src/score.cpp:110`), which it is only until a score is
   put there: the next one, before a sort, replaces the new score, or is dropped.

Seen while modelling.  Where a comment disagrees: the end symbol lasts 5000 ticks, not the
325 of the comment at `src/notMain:858`.  Where no text of the repository says otherwise:
`buffer` is not cleared after an end signal, so that a new game started at once ends in its
first pass; the tick interrupt can tear the reset of `counter69` before a begin pulse, which
then comes out too short and costs the frame (`SpoilBegin`); a tie is shown as a win of
player 2; the id of the Nunchuk is read and never compared with anything; the mask of
`cal.y0` is 0x0B where its neighbours have 0x03 (`lib/Nunchuk/src/Nunchuk.cpp:131`, in a
function nothing calls); nothing calls `setupScore`, so that on an erased EEPROM no score
ever gets in; the song has 30 notes and 29 durations; a Z that is held clicks through one screen
after the other, as nothing waits for its release; the score board prints results with `%02i`
into `printValue`, which has two bytes (`src/notMain:90`, `:1326`, `:1334`, `:1341`), so that the
closing zero is written behind it.  The last is in the drawing, which no module models.

## 5. Proofs

TLAPS checks the following for every value of the constants, under the named
assumptions below.

| theorem | statement |
|---|---|
| `Game_proofs!TypeCorrect` | `Spec => []TypeOK` |
| `Game_proofs!NobodyInAWall` | `Spec => []PlayersOnFloor` |
| `Game_proofs!PositionsSurvive` | `Spec => []PositionSurvivesTheLink` |
| `Game_proofs!NoCoinTwice` | `Spec => []CoinLedger` |
| `Game_proofs!EndIsHonest` | `Spec => EndAnnouncedHonestly` |
| `Game_proofs!LastCoinEnds` | `Spec => LastCoinEndsGame`, on a field with a coin |
| `Game_proofs!StaysInItsPart` | `Spec => [](players[0] \in Part)`, for every `Part` closed under moves |
| `Game_proofs!LevelOneStaysWinnable` | `Spec => []CoinsStayReachable`, for the tables of level 1 |
| `Game_proofs!PositionsFormAWalk` | `Spec => SendsAWalk` |
| `Game_proofs!EndIsWithinAPass` | `Spec => EndIsNear`, the safety half of `EndSignalHonoured` |
| `Game_proofs!GameKeepsToTheRoads` | `Spec => KeepsToTheRoads` (refinement) |
| `IrTransmitter_proofs!TransmitterTypeCorrect` | `Spec => []TypeOK` |
| `IrTransmitter_proofs!CarrierIsGuarded` | `Spec => []CarrierGuarded` |
| `IrTransmitter_proofs!TransmitterKeepsPromise` | `Spec => SendsFrames` (refinement) |
| `IrTransmitter_proofs!CommandsGetOn` | every step of a command brings its end nearer: the safety half of `CommandCompletes` |
| `IrLink_proofs!LinkTypeCorrect` | `Spec => []TypeOK` |
| `IrLink_proofs!LinkResynchronises` | `Spec => []PrefixReceived` |
| `IrLink_proofs!EndFlagMeansWhole` | `Spec => []EndMeansWhole` |
| `IrLink_proofs!IntactFrameStands` | an intact frame is in the word when its end is in: the safety half of `FrameArrives` |
| `IrLink_proofs!NoPhantom` | `Spec => NoPhantomEnd`, under `Walks` |
| `Duel_proofs!DuelTypeCorrect` | `Spec => []TypeOK` |
| `Duel_proofs!EndsHaveCauses` | `Spec => EndHasACause` |
| `Duel_proofs!ReplicaStaysNear` | `Spec => []ReplicaNearTrail` |
| `Duel_proofs!EndStands` | `Spec => []EndIsThere /\ EndIsTaken`, the safety half of `EndReachesPeer` |
| `Menu_proofs!MenuTypeCorrect` | `Spec => []TypeOK` |
| `Menu_proofs!MenuShowsWhatItDoes` | `Spec => []ShowsWhatItDoes` |
| `Menu_proofs!MenuSecondTouchActs` | `Spec => []SecondTouchActs` |
| `Menu_proofs!EveryPassDraws` | the next step draws a new screen, or the one after it: the safety half of `GetsDrawn` |
| `Menu_proofs!MenuKeepsToTheRoads` | `Spec => KeepsToTheRoads` (refinement) |
| `HighScore_proofs!ScoresTypeCorrect` | `Spec => []TypeOK` |
| `HighScore_proofs!RowsStayApart` | `Spec => []RowsPermuted` |
| `HighScore_proofs!MemoryAgrees` | `Spec => []MemoryMatchesEEPROM` |
| `HighScore_proofs!OthersSurvive` | `Spec => []OneRowAtRisk` |
| `HighScore_proofs!SortSorts` | `Spec => []SortedUntilAdded` |
| `HighScore_proofs!NothingIsInflated` | `Spec => []NothingInflated` |
| `HighScore_proofs!CallsGetShorter` | every step of a call leaves fewer: the safety half of `CallsReturn` |
| `Sound_proofs!SoundTypeCorrect` | `Spec => []TypeOK` |
| `Sound_proofs!PlayerPlaysTheList` | `Spec => PlaysTheList` (refinement) |
| `Nunchuk_proofs!DriverTypeCorrect` | `Spec => []TypeOK` |
| `Nunchuk_proofs!WholeReadingsOnly` | `Spec => []SeesWholeReadings` |
| `Nunchuk_proofs!GameFollows` | `Spec => []GameFollowsReadings` |

What they rest on:

| assumption | says |
|---|---|
| `FloorAssumption`, `GameAssumption` | no gap in the outer wall; finitely many coins, players start on the floor, the receiver stores naturals |
| `TransmitterAssumption`, `TimingAssumption` | commands are bytes, the receiver's counter has 16 bits; the two margins above |
| `LinkAssumption` | a command is eight bits |
| `Walks` (of `NoPhantom` only) | at most two losses; the commands are positions, one step apart |
| `HomeIsClosed` (of `LevelOneStaysWinnable` only) | no step leads out of `HomeRegion` (TLC evaluates it) |
| `DuelAssumption` | coins and start cells on the floor; noise is a byte, and not the end signal |
| `MenuAssumption` | touches lie on the display, no point lies in two buttons (TLC evaluates it for every pixel) |
| `HighScoreAssumption` | at least one row, names and points of the widths the code gives them |
| `SoundAssumption` | 1 to 255 notes, durations are naturals |
| `NunchukAssumption` | ids and readings of the device's widths |

*Game.*  `TypeInv` is the type invariant with the players on the floor; the floor is
needed for the type itself, as a step from the grid's edge would leave the grid.
`PositionByte` shows the byte of a cell inside the wall to be invertible.  `CoinLedger`
is inductive given that; the work is in the sizes of disjoint finite sets
(`TakenIsNew`, `TakenOnce`, `DisjointUnion`).  That the end is honest is not inductive:
`HonestInv` adds that level 1 is selected, that all six life counters are full while a
game is on, and that the win screen means the last coin was taken.  `RoadInv` adds where a
pass can be while the menu is on, which the mapping to Navigation needs.  `OneCellAStep`
says what any step does to the local player and to `out`, and both the region and the walk
follow from it.

*Transmitter.*  The argument follows `counter69` through a symbol.  `CountInv` bounds it at
each statement by the ticks the statements before may have been late, and says that only
the first symbol of a frame can begin at 256, where the interrupt has carried into a byte
already cleared: before any other the low byte is too small to carry.  `FlagInv` has one
flag at most, that of the symbol in hand, and `FrameInv` relates `sent` to `next`.
`WidthSurvivesTheWrap` is the arithmetic of the receiver's subtraction, and
`PulseRecognised` puts any width within the margins into its symbol's window.  `LeftToDo`
counts down to the end of a command; it needs `CountInv`, as a busy wait is only short
because `counter69` is below the symbol's limit when the wait begins.

*Link.*  `LinkInv` adds to the types and `PrefixReceived` that `end` is set exactly after
the last pulse of an intact frame (`EndIsLast`).  For `NoPhantomEnd` one has to know what
the word can look like after losses, and `Shape` lists it.  While no begin is lost the word
holds the frame so far (`Whole`), one bit short (`OneShort`) or two (`TwoShort`).  A lost
begin lets the next frame's bits go on behind the old ones, after a whole byte or a short one
(`WholeBefore`, `ShortBefore`), as `Second`, `SecondShort` or `SecondAfterShort`; a second lost
begin lets a third frame do so (`ThirdBefore`, `Third`), over the bits of the first once the
index starts over at 12.  A word of 255 needs eight ones in the low byte and none above, and in
each shape a zero bit of a position is left below, or a one stands above, as no nibble of a
position is 15 (`PositionHasZeros`).  Where a frame follows one that lacks a bit this is not
enough: a frame whose low nibble is 1 could fill the byte up, but the cell before it in the
walk has a low nibble below 8 (`StepFromLow`).

*Duel.*  `CauseInv` says that a word is the end signal only when the peer has announced an
end and nothing of a later frame has come in: a part of a frame is smaller, a cell's byte is another (`CellIsNoEnd`,
`PartOfFrame`), noise is not, and what stands in a word was put there by one of these.
`TrailInv` follows the words back to the trail instead, while no frame is disturbed: the first
bits of the end stand for no cell (`EndIsNoCell`), so a replica that moves does so by the first
bits of a cell the peer has sent.  `StandsInv` is that a frame all of whose bits are in stands
in the peer's word.

*Menu.*  `MenuInv` adds to what is shown that a game is only ever begun at the drawn level
screen (`GameFromLevels`), so that the loading screen it ends at is a new one and gets
drawn, and that a touch to no effect has made its button the active one (`TouchMarks`).
`Picture` adds that what is drawn is a screen, and what is lit one of its buttons.

*High scores.*  Half way through a shift the lists hold one entry twice and another not at
all, so every invariant speaks of the lists with the entry in hand put back at `j`
(`HeldRow`, `HeldName`, `HeldPoints`).  `HalfPut` says which bytes of the row are new
while a row is put, `IntentPut` that what is put is what was meant, and `Ordered` is the
insertion sort's: sorted before `p`, with everything shifted greater than the entry in hand.
That nothing is inflated rests on the order in which a row is put: the points go in from the
lowest byte up, so that a half put row has the low bytes of what is meant under the high ones
of what was there, which was no more (`CatchingUp`).

*Sound.*  `SoundInv` is the types with `InStep`: while the player runs, tone and duration
are those of `musicCt`.

*Nunchuk.*  `Decoding` is the conjunction of the three properties, and inductive; the work is
in `WholeAnswer`, that shifts and masks give back every bit that was packed.

Only model-checked: what needs fairness, which this prover cannot do: `EndSignalHonoured`,
`CommandCompletes`, `FrameArrives`, `EndReachesPeer`, `GetsDrawn`, `CallsReturn` and
`ReachesLastNote`.  For the first six the safety half is proved, that is everything but the
fact that the processor goes on: a count that every step lowers (`EndIsWithinAPass`,
`CommandsGetOn`, `CallsGetShorter`, `EveryPassDraws`), or that what has arrived stands until
it is looked at (`IntactFrameStands`, `EndStands`).  That of `ReachesLastNote` is in
`PlayerPlaysTheList`: a tick of PlayList lowers what is left of a note, or begins the next.
`LastCoinEndsGame` is written as a leads-to and turned out to need no fairness: the last coin
and the win screen are one step.  Also left to TLC are the facts of the tables of level 1:
that they close `HomeRegion`, and that the coins lie in it.  The region is a recursive
function over 64 rounds, which no prover here evaluates.

## 6. Not modelled

* **Player menu and level 2** (ghosts, lives, the score clock of the watchdog).  Both are
  entered only with `levelSelect == _LEVEL2`, which `selectLevel` never sets (finding 1): a
  model of them would have to start from states the program cannot be in.  The state they
  share with level 1 (`noGhost`, the spare life counters) is in Game.
* **Drawing and the score board**: they write pixels and keep nothing that is read again;
  what a screen shows is in Menu as `display` and `lit`.
* **The waveform of the music** (`TIMER1_COMPA`, `setTone`'s register, `setVolume`),
  **the seven segment display**, which nothing calls, the Nunchuk's calibration and
  `setupScore`, which nothing calls either, and `util/gridMaker.py`, an offline tool.
* **What the devices do beyond the driver's view.**  A Nunchuk that is unplugged within an
  answer is taken to end it early.  Were the answer filled up to its full length (the open
  lines read as 0xFF), `getState` could not tell: its length is all it looks at.  A byte of
  the EEPROM is taken to be written whole or not at all; a loss of power within the write of
  one byte may leave any value in it.
* **The vendored libraries** (display, touch, SD, bus), which are most of the
  repository's lines and none of its logic.

## 7. Plan

Done: every module above with its proofs.  What would come next:

1. **Duel**: `playerResult` on both boards and what they may disagree on (a coin both credit to
   themselves); each board shown to implement Game.
2. The day `selectLevel` is mended: **PlayerMenu**, the role messages of two boards, and
   **GhostLevel**, the branches of level 2, with `addScore`'s call and `WDT_vect`.
3. The end signal among the commands of IrLink, and what a lost begin behind it leaves.
4. The link of Duel as an abstract specification that IrLink implements, for which `Disturb` has
   to let the word change again until the spoiled frame is over.
