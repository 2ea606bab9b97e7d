-------------------------------- MODULE Duel --------------------------------
(***************************************************************************)
(* Two boards in one game.  Each runs the program of Game, with its passes *)
(* cut where the other board can be noticed: the receiver of a board is    *)
(* fed by the frame the other is sending, a prefix at a time, as           *)
(* PrefixReceived of IrLink has it.  A board reads `buffer' twice in a     *)
(* pass, for the peer's position and for the end signal; the further reads *)
(* of moveOverIR add nothing here, as whatever they see between them is a  *)
(* wall or a value this module lets the one read see as well.              *)
(*                                                                         *)
(* Both boards start from the same tables: each has its own player where   *)
(* the other has its own, too.  Both are synchronised, as they are 65 ms   *)
(* after power-up.                                                         *)
(***************************************************************************)
EXTENDS Maze

CONSTANTS
  CoinCells,      \* the cells that hold a coin
  StartCells,     \* players[0] and players[1] of either board
  Prefixes,       \* bound: the numbers of bits after which `buffer' is seen
  Noise,          \* what a disturbed frame may leave in `buffer'
  MaxGames,       \* bound: games started on either board
  MaxLosses       \* bound: frames disturbed

Boards == {"A", "B"}
Peer(b) == IF b = "A" THEN "B" ELSE "A"

ASSUME DuelAssumption ==
  /\ CoinCells \subseteq Floor
  /\ StartCells \in [{0, 1} -> Floor]
  /\ Prefixes \subseteq 0 .. 8 /\ 8 \in Prefixes
  /\ Noise \subseteq 0 .. 254
  /\ MaxGames \in Nat /\ MaxLosses \in Nat

VARIABLES
  pc,             \* "loop", "sending", "collide", "winScreen" or "ending"
  controlState,   \* "_GAME" or "_MENU"
  players, coinsCatched,
  buffer,         \* the receiver's word
  frame,          \* the byte being sent, or sent last
  arrived,        \* how many of its bits the peer has, -1 before its begin
  games, losses,  \* counters for the bounds
  trail,          \* the cells the own player has sent (history)
  announced       \* the end was announced, and nothing sent later has
                  \* arrived yet (history)

board == << pc, controlState, players, coinsCatched >>
link  == << buffer, frame, arrived, losses >>
vars  == << board, link, games, trail, announced >>

Init ==
  /\ pc = [b \in Boards |-> "loop"]
  /\ controlState = [b \in Boards |-> "_MENU"]
  /\ players = [b \in Boards |-> StartCells]
  /\ coinsCatched = [b \in Boards |-> {}]
  /\ buffer = [b \in Boards |-> 0]
  /\ frame = [b \in Boards |-> 0]
  /\ arrived = [b \in Boards |-> 8]
  /\ games = [b \in Boards |-> 0] /\ losses = 0
  /\ trail = [b \in Boards |-> {}]
  /\ announced = [b \in Boards |-> FALSE]

-----------------------------------------------------------------------------
(* The boards. *)

(* A level button: a new game with every coin back in its place. *)
Start(b) ==
  /\ pc[b] = "loop" /\ controlState[b] = "_MENU" /\ games[b] < MaxGames
  /\ controlState' = [controlState EXCEPT ![b] = "_GAME"]
  /\ coinsCatched' = [coinsCatched EXCEPT ![b] = {}]
  /\ games' = [games EXCEPT ![b] = @ + 1]
  /\ UNCHANGED << pc, players, link, trail, announced >>

(* sendCommand begins; nothing of the frame has reached the peer yet. *)
Send(b, byte) ==
  /\ frame' = [frame EXCEPT ![b] = byte]
  /\ arrived' = [arrived EXCEPT ![b] = -1]

(* moveOverIR: the replica goes where the word says, if that is a cell. *)
MoveOverWalls(b) == IF buffer[b] > BUFFERIRBEGIN THEN decodeGridPosition(buffer[b])
                                                 ELSE players[b][1]
MoveOverIR(b) ==
  IF buffer[b] > BUFFERIRBEGIN /\ buffer[b] < BUFFERIREND
    THEN walkTo(players[b][1], decodeGridPosition(buffer[b]))
    ELSE players[b][1]

(* The first half of a pass: both moves, and the own cell is sent. *)
Move(b, d) ==
  /\ pc[b] = "loop" /\ controlState[b] = "_GAME"
  /\ LET own == walkTo(players[b][0], Neighbour(players[b][0], d))
     IN  /\ players' = [players EXCEPT ![b] = [p \in {0, 1} |->
                          IF p = 0 THEN own ELSE MoveOverIR(b)]]
         /\ Send(b, encodeGridPosition(own))
         /\ trail' = [trail EXCEPT ![b] = @ \cup {own}]
  /\ pc' = [pc EXCEPT ![b] = "sending"]
  /\ UNCHANGED << controlState, coinsCatched, buffer, losses, games,
                  announced >>

(***************************************************************************)
(* The second half: the end signal, collision and endGame.  A board told   *)
(* of the end looks at its own coins all the same.                         *)
(***************************************************************************)
TakesHalfAnEnd(b) == buffer[b] % 128 = ENDGAMEVALUE % 128
EndSignal(b) == buffer[b] = ENDGAMEVALUE

Collide(b) ==
  LET caught == coinsCatched[b] \cup
                  ({ players[b][p] : p \in {0, 1} } \cap CoinCells)
  IN  /\ pc[b] = "collide"
      /\ controlState' = [controlState EXCEPT ![b] =
                            IF EndSignal(b) THEN "_MENU" ELSE @]
      /\ coinsCatched' = [coinsCatched EXCEPT ![b] = caught]
      /\ pc' = [pc EXCEPT ![b] = IF caught = CoinCells THEN "winScreen"
                                                       ELSE "loop"]
      /\ UNCHANGED << players, link, games, trail, announced >>

(* Button C in the win screen: into the menu, and the peer is told. *)
SilentWin(b) == UNCHANGED << frame, arrived >>
Announce(b) == Send(b, ENDGAMEVALUE)

WinScreen(b) ==
  /\ pc[b] = "winScreen"
  /\ pc' = [pc EXCEPT ![b] = "ending"]
  /\ controlState' = [controlState EXCEPT ![b] = "_MENU"]
  /\ Announce(b)
  /\ announced' = [announced EXCEPT ![b] = TRUE]
  /\ UNCHANGED << players, coinsCatched, buffer, losses, games, trail >>

-----------------------------------------------------------------------------
(* The link. *)

(* The peer's word with so many bits of b's frame: the begin cleared it. *)
KeepsOldBits(b, bits) ==
  (buffer[Peer(b)] \div 2 ^ bits) * 2 ^ bits + (frame[b] % (2 ^ bits))
Progress(b, bits) == frame[b] % (2 ^ bits)

(* More of b's frame has got into the peer's word, in place of an end. *)
Arrive(b) ==
  /\ \E bits \in Prefixes :
       /\ arrived[b] < bits
       /\ arrived' = [arrived EXCEPT ![b] = bits]
       /\ buffer' = [buffer EXCEPT ![Peer(b)] = Progress(b, bits)]
  /\ announced' = [announced EXCEPT ![b] = @ /\ frame[b] = ENDGAMEVALUE]
  /\ UNCHANGED << board, frame, losses, games, trail >>

(* The rest of b's frame is spoiled: the peer has noise, or what it had. *)
Disturb(b) ==
  /\ arrived[b] < 8 /\ losses < MaxLosses
  /\ losses' = losses + 1
  /\ arrived' = [arrived EXCEPT ![b] = 8]
  /\ \E v \in Noise \cup {buffer[Peer(b)]} :
       buffer' = [buffer EXCEPT ![Peer(b)] = v]
  /\ UNCHANGED << board, frame, games, trail, announced >>

(* The busy waits of sendCommand are over. *)
Sent(b) ==
  /\ pc[b] \in {"sending", "ending"} /\ arrived[b] = 8
  /\ pc' = [pc EXCEPT ![b] = IF @ = "sending" THEN "collide" ELSE "loop"]
  /\ UNCHANGED << controlState, players, coinsCatched, link, games, trail,
                  announced >>

-----------------------------------------------------------------------------
(* What board b does by itself. *)
Runs(b) ==
  \/ \E d \in Directions : Move(b, d)
  \/ Arrive(b)
  \/ Sent(b)
  \/ Collide(b)

Next ==
  \E b \in Boards : Runs(b) \/ Start(b) \/ WinScreen(b) \/ Disturb(b)

Spec == Init /\ [][Next]_vars

(* The processors and their timers keep going; the users owe nothing. *)
FairSpec == Spec /\ \A b \in Boards : WF_vars(Runs(b))

-----------------------------------------------------------------------------
(* Properties. *)

TypeOK ==
  /\ pc \in [Boards -> {"loop", "sending", "collide", "winScreen", "ending"}]
  /\ controlState \in [Boards -> {"_GAME", "_MENU"}]
  /\ players \in [Boards -> [{0, 1} -> Floor]]
  /\ coinsCatched \in [Boards -> SUBSET CoinCells]
  /\ buffer \in [Boards -> 0 .. 255] /\ frame \in [Boards -> 0 .. 255]
  /\ arrived \in [Boards -> -1 .. 8]
  /\ games \in [Boards -> 0 .. MaxGames] /\ losses \in 0 .. MaxLosses
  /\ trail \in [Boards -> SUBSET Floor]
  /\ announced \in [Boards -> BOOLEAN]

(***************************************************************************)
(* A board is taken out of its game only by its own last coin, or by a     *)
(* peer that has announced the end of a game and of whose later frames     *)
(* nothing has arrived: never by a position, by a part of a frame or by    *)
(* noise, also after an earlier game has been ended by the peer.           *)
(***************************************************************************)
EndHasACause ==
  [][\A b \in Boards :
       (controlState[b] = "_GAME" /\ controlState'[b] = "_MENU")
         => coinsCatched[b] = CoinCells \/ announced[Peer(b)]]_controlState

(***************************************************************************)
(* The replica strays, but not anywhere: without noise it stands where the *)
(* peer's player has been, or on the cell a part of such a frame stands    *)
(* for, or where it began.                                                 *)
(***************************************************************************)
PartsOf(cell) ==
  { decodeGridPosition(encodeGridPosition(cell) % (2 ^ bits)) : bits \in 0 .. 8 }

ReplicaNearTrail ==
  losses = 0 =>
    \A b \in Boards :
      \/ players[b][1] = StartCells[1]
      \/ \E cell \in trail[Peer(b)] : players[b][1] \in PartsOf(cell)

(***************************************************************************)
(* An end that is announced and not lost takes the peer out of its game,   *)
(* unless the announcer starts another game first.                         *)
(***************************************************************************)
EndReachesPeer ==
  \A b \in Boards :
    (pc[b] = "ending" /\ losses = 0)
      ~> \/ losses > 0
         \/ controlState[b] = "_GAME"
         \/ controlState[Peer(b)] = "_MENU"
         \/ pc[Peer(b)] = "winScreen"
=============================================================================
