---------------------------- MODULE Duel_proofs ----------------------------
(***************************************************************************)
(* What two boards cannot do to each other, for every field, every noise   *)
(* that is not the end itself and every way of cutting a frame.  CauseInv  *)
(* follows the end signal backwards: a word that says 255 comes from a     *)
(* whole frame that says so, such a frame from Announce, and Announce from *)
(* a win screen, which is entered with the last coin.                      *)
(***************************************************************************)
EXTENDS Duel, TLAPS

CauseInv ==
  \A b \in Boards :
    /\ frame[b] = ENDGAMEVALUE => announced[b]
    /\ buffer[b] = ENDGAMEVALUE => announced[Peer(b)]
    /\ pc[b] = "winScreen" => coinsCatched[b] = CoinCells

DuelInv == TypeOK /\ CauseInv

-----------------------------------------------------------------------------
LEMMA PeerIsOther ==
  ASSUME NEW b \in Boards
  PROVE  /\ Peer(b) \in Boards /\ Peer(b) # b /\ Peer(Peer(b)) = b
         /\ \A c \in Boards : c = b \/ c = Peer(b)
BY DEF Boards, Peer

LEMMA WalkStaysOnFloor ==
  ASSUME NEW from \in Floor, NEW to
  PROVE  walkTo(from, to) \in Floor
BY DEF walkTo

(* No position is sent as the end of a game. *)
LEMMA CellIsNoEnd ==
  ASSUME NEW cell \in Floor
  PROVE  encodeGridPosition(cell) \in 0 .. 254
<1>1. PICK x \in 1 .. 14, y \in 1 .. 14 : cell = << x, y >>
  BY FloorAssumption DEF FloorAssumption
<1>2. (x * 16) % 256 = 16 * x /\ y % 16 = y
  OBVIOUS
<1>3. encodeGridPosition(cell) = 16 * x + y
  BY <1>1, <1>2 DEF encodeGridPosition
<1> QED BY <1>3

LEMMA PowersOfTwo ==
  ASSUME NEW bits \in 0 .. 8
  PROVE  2 ^ bits \in {1, 2, 4, 8, 16, 32, 64, 128, 256}
<1>0. \/ bits = 0 \/ bits = 1 \/ bits = 2 \/ bits = 3 \/ bits = 4
      \/ bits = 5 \/ bits = 6 \/ bits = 7 \/ bits = 8
  OBVIOUS
<1>1. CASE bits = 0
  <2>1. 2^0 = 1
    OBVIOUS
  <2> QED BY <1>1, <2>1, SMT
<1>2. CASE bits = 1
  <2>1. 2^1 = 2
    OBVIOUS
  <2> QED BY <1>2, <2>1, SMT
<1>3. CASE bits = 2
  <2>1. 2^2 = 4
    OBVIOUS
  <2> QED BY <1>3, <2>1, SMT
<1>4. CASE bits = 3
  <2>1. 2^3 = 8
    OBVIOUS
  <2> QED BY <1>4, <2>1, SMT
<1>5. CASE bits = 4
  <2>1. 2^4 = 16
    OBVIOUS
  <2> QED BY <1>5, <2>1, SMT
<1>6. CASE bits = 5
  <2>1. 2^5 = 32
    OBVIOUS
  <2> QED BY <1>6, <2>1, SMT
<1>7. CASE bits = 6
  <2>1. 2^6 = 64
    OBVIOUS
  <2> QED BY <1>7, <2>1, SMT
<1>8. CASE bits = 7
  <2>1. 2^7 = 128
    OBVIOUS
  <2> QED BY <1>8, <2>1, SMT
<1>9. CASE bits = 8
  <2>1. 2^8 = 256
    OBVIOUS
  <2> QED BY <1>9, <2>1, SMT
<1> QED BY <1>0, <1>1, <1>2, <1>3, <1>4, <1>5, <1>6, <1>7, <1>8, <1>9

(* The first bits of a byte are a byte, and say 255 only if all of it does. *)
LEMMA PartOfFrame ==
  ASSUME TypeOK, NEW b \in Boards, NEW bits \in Prefixes
  PROVE  /\ Progress(b, bits) \in 0 .. 255
         /\ Progress(b, bits) = 255 => frame[b] = 255
<1>0. bits \in 0 .. 8
  BY DuelAssumption DEF DuelAssumption
<1>1. 2 ^ bits \in {1, 2, 4, 8, 16, 32, 64, 128, 256}
  BY <1>0, PowersOfTwo
<1>2. frame[b] \in 0 .. 255
  BY DEF TypeOK
<1>3. \A f \in 0 .. 255, m \in Nat \ {0} : f % m \in 0 .. 255 /\ f % m <= f
  OBVIOUS
<1> DEFINE m == 2 ^ bits
<1>4. Progress(b, bits) = frame[b] % m
  BY DEF Progress
<1> HIDE DEF m
<1>5. m \in Nat \ {0}
  BY <1>1 DEF m
<1>6. frame[b] % m \in 0 .. 255 /\ frame[b] % m <= frame[b]
  BY <1>2, <1>3, <1>5, Zenon
<1> DEFINE part == frame[b] % m
<1> HIDE DEF part
<1>7. part \in 0 .. 255 /\ part <= frame[b]
  BY <1>6 DEF part
<1>8. part \in 0 .. 255 /\ (part = 255 => frame[b] = 255)
  BY <1>2, <1>7
<1> QED BY <1>4, <1>8 DEF part

-----------------------------------------------------------------------------
LEMMA DuelInit == Init => DuelInv
<1> SUFFICES ASSUME Init PROVE DuelInv
  OBVIOUS
<1>1. TypeOK
  BY DuelAssumption DEF Init, TypeOK, DuelAssumption
<1>2. CauseInv
  BY PeerIsOther DEF Init, CauseInv, ENDGAMEVALUE
<1> QED BY <1>1, <1>2 DEF DuelInv

(* The steps of one board that leave the link alone. *)
LEMMA BoardSteps ==
  ASSUME DuelInv, NEW b \in Boards, Start(b) \/ Sent(b) \/ Collide(b)
  PROVE  DuelInv'
<1> USE DEF DuelInv, link
<1>1. CASE Start(b)
  <2>1. TypeOK'
    <3>1. games[b] + 1 \in 0 .. MaxGames
      BY <1>1, DuelAssumption DEF Start, TypeOK, DuelAssumption
    <3>2. games' \in [Boards -> 0 .. MaxGames]
      BY <1>1, <3>1 DEF Start, TypeOK
    <3>3. controlState' \in [Boards -> {"_GAME", "_MENU"}]
      BY <1>1 DEF Start, TypeOK
    <3>4. coinsCatched' \in [Boards -> SUBSET CoinCells]
      BY <1>1 DEF Start, TypeOK
    <3> QED BY <1>1, <3>2, <3>3, <3>4 DEF Start, TypeOK
  <2>2. CauseInv'
    BY <1>1 DEF Start, CauseInv, TypeOK
  <2> QED BY <2>1, <2>2
<1>2. CASE Sent(b)
  <2>1. TypeOK'
    BY <1>2 DEF Sent, TypeOK
  <2>2. CauseInv'
    BY <1>2 DEF Sent, CauseInv, TypeOK
  <2> QED BY <2>1, <2>2
<1>3. CASE Collide(b)
  <2>1. TypeOK'
    <3>1. coinsCatched' \in [Boards -> SUBSET CoinCells]
      BY <1>3 DEF Collide, TypeOK
    <3>2. controlState' \in [Boards -> {"_GAME", "_MENU"}]
      BY <1>3 DEF Collide, TypeOK
    <3>3. pc' \in [Boards -> {"loop", "sending", "collide", "winScreen",
                              "ending"}]
      BY <1>3 DEF Collide, TypeOK
    <3> QED BY <1>3, <3>1, <3>2, <3>3 DEF Collide, TypeOK
  <2>2. CauseInv'
    BY <1>3 DEF Collide, CauseInv, TypeOK
  <2> QED BY <2>1, <2>2
<1> QED BY <1>1, <1>2, <1>3

(* The steps by which a board sends. *)
LEMMA MoveStep ==
  ASSUME DuelInv, NEW b \in Boards, NEW d \in Directions, Move(b, d)
  PROVE  DuelInv'
<1> DEFINE own == walkTo(players[b][0], Neighbour(players[b][0], d))
<1>0. TypeOK /\ CauseInv
  BY DEF DuelInv
<1>1. players[b][0] \in Floor /\ players[b][1] \in Floor
  BY <1>0 DEF TypeOK
<1>2. own \in Floor /\ MoveOverIR(b) \in Floor
  BY <1>1, WalkStaysOnFloor DEF MoveOverIR
<1>3. encodeGridPosition(own) \in 0 .. 254
  BY <1>2, CellIsNoEnd
<1>4. /\ players' = [players EXCEPT ![b] = [p \in {0, 1} |->
                       IF p = 0 THEN own ELSE MoveOverIR(b)]]
      /\ frame' = [frame EXCEPT ![b] = encodeGridPosition(own)]
      /\ arrived' = [arrived EXCEPT ![b] = -1]
      /\ trail' = [trail EXCEPT ![b] = @ \cup {own}]
      /\ pc' = [pc EXCEPT ![b] = "sending"]
      /\ UNCHANGED << controlState, coinsCatched, buffer, losses, games,
                      announced >>
  BY DEF Move, Send
<1> HIDE DEF own
<1>5. TypeOK'
  <2>1. players' \in [Boards -> [{0, 1} -> Floor]]
    BY <1>0, <1>2, <1>4 DEF TypeOK
  <2>2. trail' \in [Boards -> SUBSET Floor]
    BY <1>0, <1>2, <1>4 DEF TypeOK
  <2>3. frame' \in [Boards -> 0 .. 255] /\ arrived' \in [Boards -> -1 .. 8]
    BY <1>0, <1>3, <1>4 DEF TypeOK
  <2>4. pc' \in [Boards -> {"loop", "sending", "collide", "winScreen",
                            "ending"}]
    BY <1>0, <1>4 DEF TypeOK
  <2> QED BY <1>0, <1>4, <2>1, <2>2, <2>3, <2>4 DEF TypeOK
<1>6. CauseInv'
  BY <1>0, <1>3, <1>4 DEF CauseInv, TypeOK, ENDGAMEVALUE
<1> QED BY <1>5, <1>6 DEF DuelInv

LEMMA WinStep ==
  ASSUME DuelInv, NEW b \in Boards, WinScreen(b)
  PROVE  DuelInv'
<1>1. TypeOK'
  BY DEF DuelInv, WinScreen, Announce, Send, TypeOK, ENDGAMEVALUE
<1>2. CauseInv'
  BY PeerIsOther DEF DuelInv, WinScreen, Announce, Send, TypeOK, CauseInv
<1> QED BY <1>1, <1>2 DEF DuelInv

(* The steps of the link. *)
LEMMA ArriveStep ==
  ASSUME DuelInv, NEW b \in Boards, Arrive(b)
  PROVE  DuelInv'
<1>0. TypeOK /\ CauseInv
  BY DEF DuelInv
<1>1. PICK bits \in Prefixes :
        /\ arrived' = [arrived EXCEPT ![b] = bits]
        /\ buffer' = [buffer EXCEPT ![Peer(b)] = Progress(b, bits)]
  BY DEF Arrive
<1>2. /\ Progress(b, bits) \in 0 .. 255
      /\ Progress(b, bits) = 255 => frame[b] = 255
  BY <1>0, PartOfFrame
<1>3. /\ UNCHANGED << board, frame, losses, games, trail >>
      /\ announced' = [announced EXCEPT ![b] = @ /\ frame[b] = ENDGAMEVALUE]
  BY DEF Arrive
<1>4. bits \in -1 .. 8
  BY DuelAssumption DEF DuelAssumption
<1>5. TypeOK'
  BY <1>0, <1>1, <1>2, <1>3, <1>4, PeerIsOther DEF TypeOK, board
<1>6. CauseInv'
  BY <1>0, <1>1, <1>2, <1>3, PeerIsOther DEF TypeOK, board, CauseInv, ENDGAMEVALUE
<1> QED BY <1>5, <1>6 DEF DuelInv

LEMMA DisturbStep ==
  ASSUME DuelInv, NEW b \in Boards, Disturb(b)
  PROVE  DuelInv'
<1>0. TypeOK /\ CauseInv
  BY DEF DuelInv
<1>1. PICK v \in Noise \cup {buffer[Peer(b)]} :
        buffer' = [buffer EXCEPT ![Peer(b)] = v]
  BY DEF Disturb
<1>2. v \in 0 .. 255 /\ (v = 255 => buffer[Peer(b)] = 255)
  <2>1. CASE v \in Noise
    <3>1. v \in 0 .. 254
      BY <2>1, DuelAssumption DEF DuelAssumption
    <3> QED BY <3>1
  <2>2. CASE v = buffer[Peer(b)]
    BY <1>0, <2>2, PeerIsOther DEF TypeOK
  <2> QED BY <1>1, <2>1, <2>2
<1>3. /\ UNCHANGED << board, frame, games, trail, announced >>
      /\ arrived' = [arrived EXCEPT ![b] = 8]
      /\ losses < MaxLosses /\ losses' = losses + 1
  BY DEF Disturb
<1>4. losses' \in 0 .. MaxLosses
  BY <1>0, <1>3, DuelAssumption DEF TypeOK, DuelAssumption
<1>5. TypeOK'
  BY <1>0, <1>1, <1>2, <1>3, <1>4, PeerIsOther DEF TypeOK, board
<1>6. CauseInv'
  BY <1>0, <1>1, <1>2, <1>3, PeerIsOther DEF TypeOK, board, CauseInv, ENDGAMEVALUE
<1> QED BY <1>5, <1>6 DEF DuelInv

LEMMA DuelNext == DuelInv /\ [Next]_vars => DuelInv'
<1> SUFFICES ASSUME DuelInv, [Next]_vars PROVE DuelInv'
  OBVIOUS
<1>1. ASSUME NEW b \in Boards,
             Runs(b) \/ Start(b) \/ WinScreen(b) \/ Disturb(b)
      PROVE  DuelInv'
  BY <1>1, BoardSteps, MoveStep, WinStep, ArriveStep, DisturbStep DEF Runs
<1>2. CASE UNCHANGED vars
  BY <1>2 DEF vars, board, link, DuelInv, TypeOK, CauseInv
<1> QED BY <1>1, <1>2 DEF Next

-----------------------------------------------------------------------------
(* Type correctness: no frame or noise puts a replica into a wall. *)
THEOREM DuelTypeCorrect == Spec => []TypeOK
<1>1. DuelInv => TypeOK
  BY DEF DuelInv
<1> QED BY DuelInit, DuelNext, <1>1, PTL DEF Spec

(***************************************************************************)
(* A board leaves its game by its own last coin, or by a peer that has     *)
(* announced an end and of whose later frames nothing has arrived.         *)
(***************************************************************************)
LEMMA LeavingHasACause ==
  ASSUME DuelInv, [Next]_vars, NEW b \in Boards,
         controlState[b] = "_GAME", controlState'[b] = "_MENU"
  PROVE  coinsCatched[b] = CoinCells \/ announced[Peer(b)]
<1>0. TypeOK /\ CauseInv
  BY DEF DuelInv
<1>1. PICK c \in Boards : Collide(c) \/ WinScreen(c)
  <2>1. ASSUME UNCHANGED controlState PROVE FALSE
    BY <2>1
  <2>2. ASSUME NEW c \in Boards, Start(c) PROVE FALSE
    BY <1>0, <2>2 DEF Start, TypeOK
  <2> QED BY <2>1, <2>2 DEF Next, Runs, Move, Arrive, Sent, Disturb, vars, board
<1>2. c = b
  BY <1>0, <1>1 DEF Collide, WinScreen, TypeOK
<1>3. CASE Collide(b)
  <2>1. EndSignal(b)
    BY <1>0, <1>3 DEF Collide, TypeOK
  <2> QED BY <1>0, <2>1 DEF EndSignal, CauseInv
<1>4. CASE WinScreen(b)
  BY <1>0, <1>4 DEF WinScreen, CauseInv
<1> QED BY <1>1, <1>2, <1>3, <1>4

THEOREM EndsHaveCauses == Spec => EndHasACause
<1>1. DuelInv /\ [Next]_vars
        => [\A b \in Boards :
              (controlState[b] = "_GAME" /\ controlState'[b] = "_MENU")
                => coinsCatched[b] = CoinCells \/ announced[Peer(b)]]_controlState
  BY LeavingHasACause
<1> QED BY DuelInit, DuelNext, <1>1, PTL DEF Spec, EndHasACause
-----------------------------------------------------------------------------
(***************************************************************************)
(* Where the replica can be while no frame is disturbed.  TrailInv follows *)
(* the words backwards once more: the peer sends cells of its trail and    *)
(* the end, the word is the first bits of one of these, and of the end no  *)
(* number of bits is a cell.                                               *)
(***************************************************************************)
PartOfEnd(word) == \E bits \in 0 .. 8 : word = ENDGAMEVALUE % (2 ^ bits)

PartOfTrail(word, b) ==
  \E cell \in trail[b] : \E bits \in 0 .. 8 :
    word = encodeGridPosition(cell) % (2 ^ bits)

FrameFromTrail(b) ==
  \/ frame[b] \in {0, ENDGAMEVALUE}
  \/ \E cell \in trail[b] : frame[b] = encodeGridPosition(cell)

WordFromTrail(b) == PartOfEnd(buffer[b]) \/ PartOfTrail(buffer[b], Peer(b))

NearTrail(b) ==
  \/ players[b][1] = StartCells[1]
  \/ \E cell \in trail[Peer(b)] : players[b][1] \in PartsOf(cell)

TrailInv ==
  losses = 0 =>
    \A b \in Boards : FrameFromTrail(b) /\ WordFromTrail(b) /\ NearTrail(b)

(* The bits of the end come in from the lowest, and all of them are set. *)
LEMMA PartsOfEnd ==
  ASSUME NEW word, PartOfEnd(word)
  PROVE  word \in {0, 1, 3, 7, 15, 31, 63, 127, 255}
<1>1. PICK bits \in 0 .. 8 : word = ENDGAMEVALUE % (2 ^ bits)
  BY DEF PartOfEnd
<1> DEFINE m == 2 ^ bits
<1>2. m \in {1, 2, 4, 8, 16, 32, 64, 128, 256}
  BY PowersOfTwo
<1>3. word = 255 % m
  BY <1>1 DEF ENDGAMEVALUE
<1> HIDE DEF m
<1> QED BY <1>2, <1>3

LEMMA EndIsNoCell ==
  ASSUME NEW word, PartOfEnd(word), word > BUFFERIRBEGIN
  PROVE  decodeGridPosition(word) \notin Floor
<1>1. word \in {15, 31, 63, 127, 255}
  BY PartsOfEnd DEF BUFFERIRBEGIN
<1>2. word % 16 = 15
  BY <1>1
<1>3. decodeGridPosition(word)[2] = 15
  BY <1>2 DEF decodeGridPosition
<1>4. \A cell \in Floor : cell[2] \in 1 .. 14
  BY FloorAssumption DEF FloorAssumption
<1> QED BY <1>3, <1>4

(* Nothing of a frame is the first bits of the end as well: none of them. *)
LEMMA ZeroIsPart == PartOfEnd(0)
<1>1. 2^0 = 1
  OBVIOUS
<1>2. ENDGAMEVALUE % 1 = 0
  BY DEF ENDGAMEVALUE
<1>3. 0 \in 0 .. 8
  OBVIOUS
<1> QED BY <1>1, <1>2, <1>3 DEF PartOfEnd

LEMMA NothingOfNothing ==
  ASSUME NEW bits \in 0 .. 8
  PROVE  0 % (2 ^ bits) = 0
<1> DEFINE m == 2 ^ bits
<1>1. m \in {1, 2, 4, 8, 16, 32, 64, 128, 256}
  BY PowersOfTwo
<1> HIDE DEF m
<1>2. 0 % m = 0
  BY <1>1
<1> QED BY <1>2 DEF m

(* What arrives of a frame comes from where the frame does. *)
LEMMA ArrivalFromTrail ==
  ASSUME NEW b \in Boards, NEW bits \in 0 .. 8, FrameFromTrail(b)
  PROVE  PartOfEnd(Progress(b, bits)) \/ PartOfTrail(Progress(b, bits), b)
<1>1. CASE frame[b] = 0
  BY <1>1, ZeroIsPart, NothingOfNothing DEF Progress
<1>2. CASE frame[b] = ENDGAMEVALUE
  BY <1>2 DEF Progress, PartOfEnd
<1>3. CASE \E cell \in trail[b] : frame[b] = encodeGridPosition(cell)
  BY <1>3 DEF Progress, PartOfTrail
<1> QED BY <1>1, <1>2, <1>3 DEF FrameFromTrail

LEMMA MoveNearTrail ==
  ASSUME TypeOK, NEW b \in Boards, WordFromTrail(b), NearTrail(b)
  PROVE  \/ MoveOverIR(b) = StartCells[1]
         \/ \E cell \in trail[Peer(b)] : MoveOverIR(b) \in PartsOf(cell)
<1>1. CASE MoveOverIR(b) = players[b][1]
  BY <1>1 DEF NearTrail
<1>2. CASE MoveOverIR(b) # players[b][1]
  <2>1. /\ MoveOverIR(b) = decodeGridPosition(buffer[b])
        /\ MoveOverIR(b) \in Floor /\ buffer[b] > BUFFERIRBEGIN
    BY <1>2 DEF MoveOverIR, walkTo
  <2>2. ~PartOfEnd(buffer[b])
    BY <2>1, EndIsNoCell
  <2>3. PICK cell \in trail[Peer(b)] : \E bits \in 0 .. 8 :
          buffer[b] = encodeGridPosition(cell) % (2 ^ bits)
    BY <2>2 DEF WordFromTrail, PartOfTrail
  <2>4. MoveOverIR(b) \in PartsOf(cell)
    BY <2>1, <2>3, Zenon DEF PartsOf
  <2> QED BY <2>4
<1> QED BY <1>1, <1>2

LEMMA TrailNext == DuelInv /\ TrailInv /\ [Next]_vars => TrailInv'
<1> SUFFICES ASSUME DuelInv, TrailInv, [Next]_vars, losses' = 0,
                    NEW c \in Boards
             PROVE  FrameFromTrail(c)' /\ WordFromTrail(c)' /\ NearTrail(c)'
  BY DEF TrailInv
<1> USE DEF link, board
<1>0. TypeOK /\ Peer(c) \in Boards /\ Peer(c) # c /\ Peer(Peer(c)) = c
  BY PeerIsOther DEF DuelInv
<1>1. ASSUME NEW b \in Boards, NEW d \in Directions, Move(b, d)
      PROVE  FrameFromTrail(c)' /\ WordFromTrail(c)' /\ NearTrail(c)'
  <2> DEFINE own == walkTo(players[b][0], Neighbour(players[b][0], d))
  <2>1. /\ players' = [players EXCEPT ![b] = [p \in {0, 1} |->
                         IF p = 0 THEN own ELSE MoveOverIR(b)]]
        /\ frame' = [frame EXCEPT ![b] = encodeGridPosition(own)]
        /\ trail' = [trail EXCEPT ![b] = @ \cup {own}]
        /\ UNCHANGED << buffer, losses >>
    BY <1>1 DEF Move, Send
  <2> HIDE DEF own
  <2>2. losses = 0 /\ FrameFromTrail(c) /\ WordFromTrail(c) /\ NearTrail(c)
    BY <2>1 DEF TrailInv
  <2>3. trail[c] \subseteq trail'[c] /\ trail[Peer(c)] \subseteq trail'[Peer(c)]
    BY <1>0, <2>1 DEF TypeOK
  <2>4. FrameFromTrail(c)'
    <3>1. CASE b = c
      <4>1. frame'[c] = encodeGridPosition(own) /\ own \in trail'[c]
        BY <1>0, <2>1, <3>1 DEF TypeOK
      <4> QED BY <4>1 DEF FrameFromTrail
    <3>2. CASE b # c
      <4>1. frame'[c] = frame[c]
        BY <1>0, <2>1, <3>2 DEF TypeOK
      <4> QED BY <2>2, <2>3, <4>1 DEF FrameFromTrail
    <3> QED BY <3>1, <3>2
  <2>5. WordFromTrail(c)'
    BY <2>1, <2>2, <2>3 DEF WordFromTrail, PartOfEnd, PartOfTrail
  <2>6. NearTrail(c)'
    <3>1. CASE b = c
      <4>1. players'[c][1] = MoveOverIR(c)
        BY <1>0, <2>1, <3>1 DEF TypeOK
      <4>2. \/ MoveOverIR(c) = StartCells[1]
            \/ \E cell \in trail[Peer(c)] : MoveOverIR(c) \in PartsOf(cell)
        BY <1>0, <2>2, MoveNearTrail
      <4> QED BY <2>3, <4>1, <4>2 DEF NearTrail
    <3>2. CASE b # c
      <4>1. players'[c] = players[c]
        BY <1>0, <2>1, <3>2 DEF TypeOK
      <4> QED BY <2>2, <2>3, <4>1 DEF NearTrail
    <3> QED BY <3>1, <3>2
  <2> QED BY <2>4, <2>5, <2>6
<1>2. ASSUME NEW b \in Boards, Arrive(b)
      PROVE  FrameFromTrail(c)' /\ WordFromTrail(c)' /\ NearTrail(c)'
  <2>1. UNCHANGED << frame, losses, trail, players >>
    BY <1>2 DEF Arrive
  <2>2. /\ FrameFromTrail(b) /\ FrameFromTrail(c)
        /\ WordFromTrail(c) /\ NearTrail(c)
    BY <2>1 DEF TrailInv
  <2>3. PICK bits \in 0 .. 8 :
          buffer' = [buffer EXCEPT ![Peer(b)] = Progress(b, bits)]
    BY <1>2, DuelAssumption DEF Arrive, DuelAssumption
  <2>4. FrameFromTrail(c)' /\ NearTrail(c)'
    BY <2>1, <2>2 DEF FrameFromTrail, NearTrail
  <2>5. CASE Peer(b) = c
    <3>1. b = Peer(c)
      BY <2>5, PeerIsOther
    <3>2. buffer'[c] = Progress(b, bits)
      BY <1>0, <2>3, <2>5 DEF TypeOK
    <3>3. PartOfEnd(Progress(b, bits)) \/ PartOfTrail(Progress(b, bits), b)
      BY <2>2, ArrivalFromTrail
    <3>4. PartOfEnd(buffer'[c]) \/ PartOfTrail(buffer'[c], Peer(c))
      BY <3>1, <3>2, <3>3
    <3>5. WordFromTrail(c)'
      BY <2>1, <3>4 DEF WordFromTrail, PartOfEnd, PartOfTrail
    <3> QED BY <2>4, <3>5
  <2>6. CASE Peer(b) # c
    <3>1. buffer'[c] = buffer[c]
      BY <1>0, <2>3, <2>6 DEF TypeOK
    <3>2. WordFromTrail(c)'
      BY <2>1, <2>2, <3>1 DEF WordFromTrail, PartOfEnd, PartOfTrail
    <3> QED BY <2>4, <3>2
  <2> QED BY <2>5, <2>6
<1>3. ASSUME NEW b \in Boards, WinScreen(b)
      PROVE  FrameFromTrail(c)' /\ WordFromTrail(c)' /\ NearTrail(c)'
  <2>1. /\ UNCHANGED << buffer, losses, trail, players >>
        /\ frame' = [frame EXCEPT ![b] = ENDGAMEVALUE]
    BY <1>3 DEF WinScreen, Announce, Send
  <2>2. FrameFromTrail(c) /\ WordFromTrail(c) /\ NearTrail(c)
    BY <2>1 DEF TrailInv
  <2>3. frame'[c] \in {frame[c], ENDGAMEVALUE}
    BY <1>0, <2>1 DEF TypeOK
  <2> QED BY <2>1, <2>2, <2>3
          DEF FrameFromTrail, WordFromTrail, PartOfEnd, PartOfTrail, NearTrail
<1>4. ASSUME NEW b \in Boards, Disturb(b) PROVE FALSE
  BY <1>0, <1>4, DuelAssumption DEF Disturb, TypeOK, DuelAssumption
<1>5. ASSUME UNCHANGED << buffer, frame, losses, trail, players >>
      PROVE  FrameFromTrail(c)' /\ WordFromTrail(c)' /\ NearTrail(c)'
  BY <1>5 DEF TrailInv, FrameFromTrail, WordFromTrail, PartOfEnd, PartOfTrail,
              NearTrail
<1>6. ASSUME NEW b \in Boards, Start(b) \/ Sent(b) \/ Collide(b)
      PROVE  UNCHANGED << buffer, frame, losses, trail, players >>
  BY <1>6 DEF Start, Sent, Collide
<1>7. CASE UNCHANGED vars
  BY <1>5, <1>7 DEF vars
<1> QED BY <1>1, <1>2, <1>3, <1>4, <1>5, <1>6, <1>7 DEF Next, Runs

LEMMA TrailInit == Init => TrailInv
<1>1. Init => \A b \in Boards : /\ frame[b] = 0 /\ buffer[b] = 0
                                /\ players[b][1] = StartCells[1]
  BY DEF Init
<1> QED BY <1>1, ZeroIsPart
        DEF TrailInv, FrameFromTrail, WordFromTrail, NearTrail

(***************************************************************************)
(* The replica strays no further than to the cells that parts of the       *)
(* peer's own trail stand for, on every field and for every way of cutting *)
(* a frame.                                                                *)
(***************************************************************************)
THEOREM ReplicaStaysNear == Spec => []ReplicaNearTrail
<1>1. TrailInv => ReplicaNearTrail
  BY DEF TrailInv, NearTrail, ReplicaNearTrail
<1> QED BY DuelInit, DuelNext, TrailInit, TrailNext, <1>1, PTL DEF Spec

-----------------------------------------------------------------------------
(***************************************************************************)
(* The safety half of EndReachesPeer: what a board has announced stands in *)
(* its peer's word as soon as all of it has arrived, and stands there until *)
(* the announcer sends again.                                              *)
(***************************************************************************)
ArrivedStands ==
  losses = 0 => \A b \in Boards : arrived[b] = 8 => buffer[Peer(b)] = frame[b]

EndingSendsEnd == \A b \in Boards : pc[b] = "ending" => frame[b] = ENDGAMEVALUE

StandsInv == ArrivedStands /\ EndingSendsEnd

LEMMA WholeFrame ==
  ASSUME TypeOK, NEW b \in Boards
  PROVE  Progress(b, 8) = frame[b]
<1>1. 2 ^ 8 = 256
  OBVIOUS
<1>2. frame[b] \in 0 .. 255
  BY DEF TypeOK
<1>3. frame[b] % 256 = frame[b]
  BY <1>2
<1> QED BY <1>1, <1>3 DEF Progress

LEMMA StandsNext == DuelInv /\ StandsInv /\ [Next]_vars => StandsInv'
<1> SUFFICES ASSUME DuelInv, StandsInv, [Next]_vars PROVE StandsInv'
  OBVIOUS
<1> USE DEF StandsInv, ArrivedStands, EndingSendsEnd, board, link
<1>0. TypeOK
  BY DEF DuelInv
<1>1. ASSUME NEW b \in Boards, NEW d \in Directions, Move(b, d)
      PROVE  StandsInv'
  BY <1>0, <1>1, PeerIsOther DEF Move, Send, TypeOK
<1>2. ASSUME NEW b \in Boards, Arrive(b)
      PROVE  StandsInv'
  <2>1. PICK bits \in Prefixes :
          /\ arrived' = [arrived EXCEPT ![b] = bits]
          /\ buffer' = [buffer EXCEPT ![Peer(b)] = Progress(b, bits)]
    BY <1>2 DEF Arrive
  <2>2. UNCHANGED << pc, frame, losses >>
    BY <1>2 DEF Arrive
  <2>3. ASSUME NEW c \in Boards, arrived'[c] = 8, losses = 0
        PROVE  buffer'[Peer(c)] = frame[c]
    <3>1. CASE c = b
      <4>1. bits = 8
        BY <1>0, <2>1, <2>3, <3>1 DEF TypeOK
      <4>2. buffer'[Peer(b)] = Progress(b, bits)
        BY <1>0, <2>1, PeerIsOther DEF TypeOK
      <4> QED BY <1>0, <3>1, <4>1, <4>2, WholeFrame
    <3>2. CASE c # b
      <4>1. Peer(c) # Peer(b)
        BY <3>2 DEF Boards, Peer
      <4>2. arrived'[c] = arrived[c] /\ buffer'[Peer(c)] = buffer[Peer(c)]
        BY <1>0, <2>1, <3>2, <4>1, PeerIsOther DEF TypeOK
      <4> QED BY <2>3, <4>2
    <3> QED BY <3>1, <3>2
  <2> QED BY <2>2, <2>3
<1>3. ASSUME NEW b \in Boards, WinScreen(b)
      PROVE  StandsInv'
  BY <1>0, <1>3, PeerIsOther DEF WinScreen, Announce, Send, TypeOK
<1>4. ASSUME NEW b \in Boards, Disturb(b)
      PROVE  StandsInv'
  <2>1. losses' # 0 /\ UNCHANGED << pc, frame >>
    BY <1>0, <1>4, DuelAssumption DEF Disturb, TypeOK, DuelAssumption
  <2> QED BY <2>1
<1>5. ASSUME NEW b \in Boards, Start(b) \/ Sent(b) \/ Collide(b)
      PROVE  StandsInv'
  <2>1. UNCHANGED link
    BY <1>5 DEF Start, Sent, Collide
  <2>2. \A c \in Boards : pc'[c] = "ending" => pc[c] = "ending"
    BY <1>0, <1>5 DEF Start, Sent, Collide, TypeOK
  <2> QED BY <2>1, <2>2
<1>6. CASE UNCHANGED vars
  BY <1>6 DEF vars
<1> QED BY <1>1, <1>2, <1>3, <1>4, <1>5, <1>6 DEF Next, Runs

LEMMA StandsInit == Init => StandsInv
BY PeerIsOther DEF Init, StandsInv, ArrivedStands, EndingSendsEnd

(* The end is there: all of its frame has arrived and nothing was sent since. *)
EndArrived(b) == losses = 0 /\ frame[b] = ENDGAMEVALUE /\ arrived[b] = 8

EndIsThere ==
  \A b \in Boards :
    /\ EndArrived(b) => EndSignal(Peer(b))
    /\ pc[b] = "ending" /\ losses = 0 /\ arrived[b] = 8 => EndArrived(b)

EndIsTaken ==
  [][\A b \in Boards :
       EndArrived(b) /\ Collide(Peer(b)) => controlState'[Peer(b)] = "_MENU"]_vars

(***************************************************************************)
(* What is left of EndReachesPeer is only that the two boards go on: while *)
(* no frame is disturbed, the announcer does not leave sendCommand before  *)
(* the end stands in the peer's word, and a peer that looks at it there    *)
(* leaves its game.                                                        *)
(***************************************************************************)
THEOREM EndStands == Spec => []EndIsThere /\ EndIsTaken
<1>1. StandsInv => EndIsThere
  BY DEF StandsInv, ArrivedStands, EndingSendsEnd, EndIsThere, EndArrived,
         EndSignal
<1>2. DuelInv /\ StandsInv /\ [Next]_vars
        => [\A b \in Boards : EndArrived(b) /\ Collide(Peer(b))
              => controlState'[Peer(b)] = "_MENU"]_vars
  <2> SUFFICES ASSUME DuelInv, EndIsThere, NEW b \in Boards, EndArrived(b),
                      Collide(Peer(b))
               PROVE  controlState'[Peer(b)] = "_MENU"
    BY <1>1
  <2>1. EndSignal(Peer(b)) /\ Peer(b) \in Boards
    BY PeerIsOther DEF EndIsThere
  <2> QED BY <2>1 DEF Collide, DuelInv, TypeOK
<1> QED BY DuelInit, DuelNext, StandsInit, StandsNext, <1>1, <1>2, PTL
        DEF Spec, EndIsTaken
=============================================================================
