---------------------------- MODULE Menu_proofs ----------------------------
(***************************************************************************)
(* The menu keeps to the roads of Navigation, shows what it does, and      *)
(* needs no third touch, wherever it is touched.  MenuInv adds to these    *)
(* that a game is only ever begun at the drawn screen of the levels, which *)
(* is what makes the loading screen be drawn anew when the game ends.      *)
(***************************************************************************)
EXTENDS Menu, TLAPS

Types ==
  /\ pc \in {"loop", "releaseC"} /\ controlState \in {"_MENU", "_GAME"}
  /\ nScreen \in Screens /\ cScreen \in Screens \cup {"NO_SCREEN"}
  /\ activeButton \in 0 .. 255

GameFromLevels ==
  controlState = "_GAME" =>
    nScreen = "LEVEL_SCREEN" /\ cScreen = "LEVEL_SCREEN" /\ pc = "loop"

TouchMarks == idle = NoTouch \/ idle = << activeButton, 1 >>

MenuInv == Types /\ GameFromLevels /\ ShowsWhatItDoes /\ TouchMarks

-----------------------------------------------------------------------------
LEMMA Sizes ==
  /\ Size("LOADING_SCREEN") = 1 /\ Size("MENU_SCREEN") = 3
  /\ Size("LEVEL_SCREEN") = 3 /\ Size("HIGHSCORE_SCREEN") = 1
BY DEF Size, ButtonsOf

LEMMA ButtonNames ==
  /\ Button("LOADING_SCREEN", 0) = "BTNpressTooStart"
  /\ Button("MENU_SCREEN", 0) = "BTNreturn"
  /\ Button("MENU_SCREEN", 1) = "BTNselectLevels"
  /\ Button("MENU_SCREEN", 2) = "BTNseeHighscores"
  /\ Button("LEVEL_SCREEN", 0) = "BTNreturn"
  /\ Button("LEVEL_SCREEN", 1) = "BTNlvl1"
  /\ Button("LEVEL_SCREEN", 2) = "BTNlvl2"
  /\ Button("HIGHSCORE_SCREEN", 0) = "BTNreturn"
BY DEF Button, ButtonsOf

(* The remainder picks a button of the screen. *)
LEMMA RemainderInRange ==
  ASSUME NEW screen \in Screens, NEW n \in Nat
  PROVE  n % Size(screen) \in 0 .. Size(screen) - 1
<1>1. n % 1 \in 0 .. 0 /\ n % 3 \in 0 .. 2
  OBVIOUS
<1> QED BY <1>1, Sizes DEF Screens

(***************************************************************************)
(* A button leads along a road to another screen, or from the levels into  *)
(* a game.                                                                 *)
(***************************************************************************)
LEMMA ButtonsLead ==
  ASSUME nScreen \in Screens, NEW i \in 0 .. Size(nScreen) - 1,
         Press(Button(nScreen, i))
  PROVE  /\ UNCHANGED << cScreen, activeButton, lit >>
         /\ \/ /\ nScreen' \in Screens /\ nScreen' # nScreen
               /\ << nScreen, nScreen' >> \in Map!Roads
               /\ UNCHANGED << controlState, display >>
            \/ /\ nScreen = "LEVEL_SCREEN" /\ nScreen' = nScreen
               /\ controlState' = "_GAME" /\ display' = "game"
<1>0. UNCHANGED << cScreen, activeButton, lit >>
  BY DEF Press
<1>1. CASE nScreen = "LOADING_SCREEN"
  <2>1. i = 0
    BY <1>1, Sizes
  <2>2. nScreen' = "MENU_SCREEN" /\ UNCHANGED << controlState, display >>
    BY <1>1, <2>1, ButtonNames DEF Press
  <2> QED BY <1>0, <1>1, <2>2 DEF Map!Roads, Screens
<1>2. CASE nScreen = "MENU_SCREEN"
  <2>1. i \in {0, 1, 2}
    BY <1>2, Sizes
  <2>2. nScreen' \in {"LOADING_SCREEN", "LEVEL_SCREEN", "HIGHSCORE_SCREEN"}
        /\ UNCHANGED << controlState, display >>
    BY <1>2, <2>1, ButtonNames DEF Press, BTNreturnTo
  <2> QED BY <1>0, <1>2, <2>2 DEF Map!Roads, Screens
<1>3. CASE nScreen = "LEVEL_SCREEN"
  <2>1. i \in {0, 1, 2}
    BY <1>3, Sizes
  <2>2. CASE i = 0
    <3>1. nScreen' = "MENU_SCREEN" /\ UNCHANGED << controlState, display >>
      BY <1>3, <2>2, ButtonNames DEF Press, BTNreturnTo
    <3> QED BY <1>0, <1>3, <3>1 DEF Map!Roads, Screens
  <2>3. CASE i \in {1, 2}
    BY <1>0, <1>3, <2>3, ButtonNames DEF Press
  <2> QED BY <2>1, <2>2, <2>3
<1>4. CASE nScreen = "HIGHSCORE_SCREEN"
  <2>1. i = 0
    BY <1>4, Sizes
  <2>2. nScreen' = "MENU_SCREEN" /\ UNCHANGED << controlState, display >>
    BY <1>4, <2>1, ButtonNames DEF Press, BTNreturnTo
  <2> QED BY <1>0, <1>4, <2>2 DEF Map!Roads, Screens
<1> QED BY <1>1, <1>2, <1>3, <1>4 DEF Screens

-----------------------------------------------------------------------------
(* The three things a pass can come to. *)

LEMMA PressKeepsInv ==
  ASSUME MenuInv, InMenu, Drawn, UNCHANGED pc,
         NEW i \in 0 .. Size(nScreen) - 1, Press(Button(nScreen, i)),
         idle' = NoTouch
  PROVE  MenuInv'
<1>1. /\ UNCHANGED << cScreen, activeButton, lit >>
      /\ \/ /\ nScreen' \in Screens /\ nScreen' # nScreen
            /\ UNCHANGED << controlState, display >>
         \/ /\ nScreen = "LEVEL_SCREEN" /\ nScreen' = nScreen
            /\ controlState' = "_GAME" /\ display' = "game"
  BY ButtonsLead DEF MenuInv, Types
<1>2. Types'
  BY <1>1 DEF MenuInv, Types
<1>3. GameFromLevels'
  BY <1>1 DEF MenuInv, Types, GameFromLevels, InMenu, Drawn
<1>4. ShowsWhatItDoes'
  BY <1>1 DEF ShowsWhatItDoes, InMenu, Drawn
<1>5. TouchMarks'
  BY DEF TouchMarks, NoTouch
<1> QED BY <1>2, <1>3, <1>4, <1>5 DEF MenuInv

LEMMA InitScreenKeepsInv ==
  ASSUME MenuInv, controlState = "_MENU", InitScreen, pc' \in {"loop", "releaseC"}
  PROVE  MenuInv'
<1>1. Types'
  BY DEF MenuInv, Types, InitScreen, KeepsIt
<1>2. GameFromLevels'
  BY DEF InitScreen, GameFromLevels
<1>3. ShowsWhatItDoes'
  BY DEF InitScreen, KeepsIt, ShowsWhatItDoes, Size
<1>4. TouchMarks'
  BY DEF InitScreen, TouchMarks, NoTouch
<1> QED BY <1>1, <1>2, <1>3, <1>4 DEF MenuInv

LEMMA HighlightKeepsInv ==
  ASSUME MenuInv, controlState = "_MENU", Drawn, pc' \in {"loop", "releaseC"},
         NEW n \in 0 .. 255, Highlight(n), Stay,
         idle' = NoTouch \/ idle' = << n, 1 >>
  PROVE  MenuInv'
<1>1. Types'
  BY DEF MenuInv, Types, Highlight, Stay
<1>2. GameFromLevels'
  BY DEF Stay, GameFromLevels
<1>3. ShowsWhatItDoes'
  BY DEF MenuInv, Highlight, Stay, ShowsWhatItDoes, Drawn, Size
<1>4. TouchMarks'
  BY DEF Highlight, TouchMarks, NoTouch
<1> QED BY <1>1, <1>2, <1>3, <1>4 DEF MenuInv

LEMMA NextMenuInv == MenuInv /\ [Next]_vars => MenuInv'
<1> SUFFICES ASSUME MenuInv, [Next]_vars PROVE MenuInv'
  OBVIOUS
<1>0. /\ pc \in {"loop", "releaseC"} /\ activeButton \in 0 .. 255
      /\ nScreen \in Screens /\ Size(nScreen) \in 1 .. 3
  BY Sizes DEF MenuInv, Types, Screens
<1>1. CASE NothingPressed
  BY <1>0, <1>1, InitScreenKeepsInv DEF NothingPressed, InMenu
<1>2. CASE SelectButton
  <2>1. CASE InitScreen
    BY <1>0, <1>2, <2>1, InitScreenKeepsInv DEF SelectButton, InMenu
  <2>2. CASE Drawn /\ Press(Button(nScreen, activeButton % Size(nScreen)))
                   /\ idle' = NoTouch
    <3>1. activeButton % Size(nScreen) \in 0 .. Size(nScreen) - 1
      BY <1>0, RemainderInRange
    <3> QED BY <1>2, <2>2, <3>1, PressKeepsInv DEF SelectButton
  <2> QED BY <1>2, <2>1, <2>2 DEF SelectButton
<1>3. CASE HoldC
  <2>1. /\ controlState = "_MENU" /\ pc' = "releaseC"
        /\ UNCHANGED << controlState, nScreen, cScreen, activeButton, display,
                        lit, idle >>
    BY <1>3 DEF HoldC, InMenu
  <2> QED BY <2>1 DEF MenuInv, Types, GameFromLevels, ShowsWhatItDoes, Drawn,
                      TouchMarks, Size
<1>4. CASE NextButton
  <2>1. controlState = "_MENU" /\ pc' = "loop"
    BY <1>4 DEF NextButton, MenuInv, Types, GameFromLevels
  <2>2. CASE InitScreen
    BY <2>1, <2>2, InitScreenKeepsInv
  <2>3. CASE Drawn /\ Highlight((activeButton + 1) % 256) /\ Stay
                   /\ idle' = NoTouch
    <3>1. (activeButton + 1) % 256 \in 0 .. 255
      BY <1>0
    <3> QED BY <2>1, <2>3, <3>1, HighlightKeepsInv
  <2> QED BY <1>4, <2>2, <2>3 DEF NextButton
<1>5. ASSUME NEW point \in TouchPoints, Touch(point) PROVE MenuInv'
  <2>1. InMenu /\ UNCHANGED pc
    BY <1>5 DEF Touch
  <2>2. CASE InitScreen
    BY <1>0, <2>1, <2>2, InitScreenKeepsInv DEF InMenu
  <2>3. CASE idle' = NoTouch /\ Stay /\ UNCHANGED << activeButton, lit >>
    BY <2>1, <2>3 DEF MenuInv, Types, GameFromLevels, ShowsWhatItDoes, Drawn,
                      TouchMarks, NoTouch, Stay, Size
  <2>4. ASSUME Drawn, NEW i \in Hit(nScreen, point),
               nScreen = "LOADING_SCREEN" \/ i = activeButton,
               Press(Button(nScreen, i)), idle' = NoTouch
        PROVE  MenuInv'
    BY <2>1, <2>4, PressKeepsInv DEF Hit
  <2>5. ASSUME Drawn, NEW i \in Hit(nScreen, point), i # activeButton,
               MarksTouched(i), Stay,
               idle' = << i, IF idle[1] = i THEN 2 ELSE 1 >>
        PROVE  MenuInv'
    <3>1. i \in 0 .. Size(nScreen) - 1
      BY DEF Hit
    <3>2. i \in 0 .. 255 /\ i # -1
      BY <1>0, <3>1
    <3>3. idle[1] # i
      BY <2>5, <3>2 DEF MenuInv, TouchMarks, NoTouch
    <3>4. idle' = << i, 1 >>
      BY <2>5, <3>3
    <3> QED BY <1>0, <2>1, <2>5, <3>2, <3>4, HighlightKeepsInv
            DEF MarksTouched, InMenu
  <2> QED BY <1>5, <2>2, <2>3, <2>4, <2>5 DEF Touch
<1>6. CASE EndOfGame
  <2>1. /\ nScreen' = "LOADING_SCREEN" /\ cScreen' = "LEVEL_SCREEN"
        /\ controlState' = "_MENU" /\ UNCHANGED << pc, activeButton, idle >>
    BY <1>6 DEF EndOfGame, BackToLoading, MenuInv, GameFromLevels
  <2> QED BY <2>1 DEF MenuInv, Types, GameFromLevels, ShowsWhatItDoes, Drawn,
                      TouchMarks, Screens
<1>7. CASE UNCHANGED vars
  BY <1>7 DEF vars, MenuInv, Types, GameFromLevels, ShowsWhatItDoes, Drawn,
              TouchMarks, Size
<1> QED BY <1>1, <1>2, <1>3, <1>4, <1>5, <1>6, <1>7 DEF Next, Pass

LEMMA InitMenuInv == Init => MenuInv
BY DEF Init, MenuInv, Types, GameFromLevels, ShowsWhatItDoes, Drawn,
       TouchMarks, Screens

-----------------------------------------------------------------------------
(* What is drawn is what Z clicks, on every screen and after every game. *)
THEOREM MenuShowsWhatItDoes == Spec => []ShowsWhatItDoes
<1>1. MenuInv => ShowsWhatItDoes
  BY DEF MenuInv
<1> QED BY InitMenuInv, NextMenuInv, <1>1, PTL DEF Spec

(* No button has to be touched a third time. *)
THEOREM MenuSecondTouchActs == Spec => []SecondTouchActs
<1>1. MenuInv => SecondTouchActs
  BY DEF MenuInv, TouchMarks, NoTouch, SecondTouchActs
<1> QED BY InitMenuInv, NextMenuInv, <1>1, PTL DEF Spec

(* What is kept besides Types: picture, highlight and the idle touch. *)
Picture ==
  /\ lit \in 0 .. 2
  /\ display \in Screens \cup {"NO_SCREEN", "game"}
  /\ idle \in (-1 .. 2) \X (0 .. 2)

LEMMA NoTouchTyped == NoTouch \in (-1 .. 2) \X (0 .. 2)
BY DEF NoTouch

LEMMA NextPicture == MenuInv /\ Picture /\ [Next]_vars => Picture'
<1> SUFFICES ASSUME MenuInv, Picture, [Next]_vars PROVE Picture'
  OBVIOUS
<1>0. nScreen \in Screens /\ activeButton \in 0 .. 255
      /\ Size(nScreen) \in {1, 3}
  BY Sizes DEF MenuInv, Types, Screens
<1>1. ASSUME NEW n \in Nat PROVE n % Size(nScreen) \in 0 .. 2
  <2>1. n % Size(nScreen) \in 0 .. Size(nScreen) - 1
    BY <1>0, RemainderInRange
  <2> QED BY <1>0, <2>1
<1>2. CASE InitScreen
  BY <1>0, <1>1, <1>2, NoTouchTyped DEF InitScreen, Picture
<1>3. ASSUME NEW n \in 0 .. 255, Highlight(n), Stay,
             idle' \in (-1 .. 2) \X (0 .. 2)
      PROVE  Picture'
  BY <1>1, <1>3 DEF Highlight, Stay, Picture
<1>4. ASSUME NEW i \in 0 .. Size(nScreen) - 1, Press(Button(nScreen, i)),
             idle' = NoTouch
      PROVE  Picture'
  BY <1>0, <1>4, ButtonsLead, NoTouchTyped DEF Picture
<1>5. CASE NothingPressed
  BY <1>2, <1>5 DEF NothingPressed
<1>6. CASE SelectButton
  <2>1. activeButton % Size(nScreen) \in 0 .. Size(nScreen) - 1
    BY <1>0, RemainderInRange
  <2> QED BY <1>2, <1>4, <1>6, <2>1 DEF SelectButton
<1>7. CASE HoldC \/ EndOfGame \/ UNCHANGED vars
  BY <1>7 DEF HoldC, EndOfGame, vars, Picture
<1>8. CASE NextButton
  <2>1. (activeButton + 1) % 256 \in 0 .. 255
    BY <1>0
  <2> QED BY <1>2, <1>3, <1>8, <2>1, NoTouchTyped DEF NextButton
<1>9. ASSUME NEW point \in TouchPoints, Touch(point) PROVE Picture'
  <2>1. CASE idle' = NoTouch /\ Stay /\ UNCHANGED << activeButton, lit >>
    BY <2>1, NoTouchTyped DEF Stay, Picture
  <2>2. ASSUME NEW i \in Hit(nScreen, point), Press(Button(nScreen, i)),
               idle' = NoTouch
        PROVE  Picture'
    BY <1>4, <2>2 DEF Hit
  <2>3. ASSUME NEW i \in Hit(nScreen, point), MarksTouched(i), Stay,
               idle' = << i, IF idle[1] = i THEN 2 ELSE 1 >>
        PROVE  Picture'
    <3>1. i \in 0 .. 255 /\ i \in -1 .. 2
      BY <1>0 DEF Hit
    <3>2. idle' \in (-1 .. 2) \X (0 .. 2)
      BY <2>3, <3>1
    <3> QED BY <1>3, <2>3, <3>1, <3>2 DEF MarksTouched
  <2> QED BY <1>2, <1>9, <2>1, <2>2, <2>3 DEF Touch
<1> QED BY <1>5, <1>6, <1>7, <1>8, <1>9 DEF Next, Pass

(***************************************************************************)
(* Type correctness: the byte that counts the buttons and the highlight it *)
(* is drawn as stay in range, on every screen.                             *)
(***************************************************************************)
THEOREM MenuTypeCorrect == Spec => []TypeOK
<1>1. Init => Picture
  BY NoTouchTyped DEF Init, Picture
<1>2. MenuInv /\ Picture => TypeOK
  BY DEF MenuInv, Types, Picture, TypeOK
<1> QED BY InitMenuInv, NextMenuInv, NextPicture, <1>1, <1>2, PTL DEF Spec

(***************************************************************************)
(* What GetsDrawn comes down to besides fairness: from a screen that is    *)
(* new, whatever is pressed or touched, a step draws it, or waits for C to *)
(* be released, after which the next one draws it.                         *)
(***************************************************************************)
THEOREM EveryPassDraws ==
  Spec => [][(controlState = "_MENU" /\ ~Drawn)
               => /\ controlState' = "_MENU"
                  /\ Drawn' \/ (pc = "loop" /\ pc' = "releaseC")]_vars
<1>1. MenuInv /\ [Next]_vars
        => [(controlState = "_MENU" /\ ~Drawn)
              => /\ controlState' = "_MENU"
                 /\ Drawn' \/ (pc = "loop" /\ pc' = "releaseC")]_vars
  <2> SUFFICES ASSUME MenuInv, Next, controlState = "_MENU", ~Drawn
               PROVE  /\ controlState' = "_MENU"
                      /\ Drawn' \/ (pc = "loop" /\ pc' = "releaseC")
    OBVIOUS
  <2>1. CASE InitScreen
    BY <2>1 DEF InitScreen, KeepsIt, Drawn
  <2>2. CASE HoldC
    BY <2>2 DEF HoldC, InMenu
  <2>3. ~EndOfGame
    BY DEF EndOfGame
  <2>4. ASSUME NEW point \in TouchPoints, Touch(point) PROVE InitScreen
    BY <2>4 DEF Touch
  <2> QED BY <2>1, <2>2, <2>3, <2>4
          DEF Next, Pass, NothingPressed, SelectButton, NextButton
<1> QED BY InitMenuInv, NextMenuInv, <1>1, PTL DEF Spec

(***************************************************************************)
(* Whatever is pressed or touched, one step changes the screen along one   *)
(* road of Navigation, or not at all.                                      *)
(***************************************************************************)
nowAt == IF controlState = "_GAME" THEN "GAME" ELSE nScreen

LEMMA PressTakesARoad ==
  ASSUME MenuInv, controlState = "_MENU",
         NEW i \in 0 .. Size(nScreen) - 1, Press(Button(nScreen, i))
  PROVE  << nowAt, nowAt' >> \in Map!Roads
<1>1. \/ /\ << nScreen, nScreen' >> \in Map!Roads
         /\ UNCHANGED controlState
      \/ /\ nScreen = "LEVEL_SCREEN" /\ controlState' = "_GAME"
  BY ButtonsLead DEF MenuInv, Types
<1>2. CASE << nScreen, nScreen' >> \in Map!Roads /\ UNCHANGED controlState
  BY <1>2 DEF nowAt
<1>3. CASE nScreen = "LEVEL_SCREEN" /\ controlState' = "_GAME"
  <2>1. nowAt = "LEVEL_SCREEN" /\ nowAt' = "GAME"
    BY <1>3 DEF nowAt
  <2> QED BY <2>1 DEF Map!Roads
<1> QED BY <1>1, <1>2, <1>3

LEMMA StepTakesARoad ==
  MenuInv /\ [Next]_vars => [(<< nowAt, nowAt' >> \in Map!Roads)]_nowAt
<1> SUFFICES ASSUME MenuInv, [Next]_vars
             PROVE  << nowAt, nowAt' >> \in Map!Roads \/ UNCHANGED nowAt
  OBVIOUS
<1>0. nScreen \in Screens /\ activeButton \in 0 .. 255
  BY DEF MenuInv, Types
<1>1. ASSUME UNCHANGED << controlState, nScreen >> PROVE UNCHANGED nowAt
  BY <1>1 DEF nowAt
<1>2. CASE NothingPressed
  BY <1>1, <1>2 DEF NothingPressed, InitScreen
<1>3. CASE SelectButton
  <2>1. CASE InitScreen
    BY <1>1, <2>1 DEF InitScreen
  <2>2. CASE Press(Button(nScreen, activeButton % Size(nScreen)))
    <3>1. activeButton % Size(nScreen) \in 0 .. Size(nScreen) - 1
      BY <1>0, RemainderInRange
    <3> QED BY <1>3, <2>2, <3>1, PressTakesARoad DEF SelectButton, InMenu
  <2> QED BY <1>3, <2>1, <2>2 DEF SelectButton
<1>4. CASE HoldC
  BY <1>1, <1>4 DEF HoldC
<1>5. CASE NextButton
  BY <1>1, <1>5 DEF NextButton, InitScreen, Stay
<1>6. ASSUME NEW point \in TouchPoints, Touch(point)
      PROVE  << nowAt, nowAt' >> \in Map!Roads \/ UNCHANGED nowAt
  <2>1. CASE InitScreen
    BY <1>1, <2>1 DEF InitScreen
  <2>2. CASE Stay
    BY <1>1, <2>2 DEF Stay
  <2>3. ASSUME NEW i \in Hit(nScreen, point), Press(Button(nScreen, i))
        PROVE  << nowAt, nowAt' >> \in Map!Roads
    BY <1>6, <2>3, PressTakesARoad DEF Touch, InMenu, Hit
  <2> QED BY <1>6, <2>1, <2>2, <2>3 DEF Touch
<1>7. CASE EndOfGame
  <2>1. nowAt = "GAME" /\ nowAt' = "LOADING_SCREEN"
    BY <1>7 DEF EndOfGame, BackToLoading, nowAt
  <2> QED BY <2>1 DEF Map!Roads
<1>8. CASE UNCHANGED vars
  BY <1>1, <1>8 DEF vars
<1> QED BY <1>2, <1>3, <1>4, <1>5, <1>6, <1>7, <1>8 DEF Next, Pass

THEOREM MenuKeepsToTheRoads == Spec => KeepsToTheRoads
<1>1. Init => Map!Init
  BY DEF Init, Map!Init
<1>2. MenuInv /\ [Next]_vars
        => [Map!Go]_(IF controlState = "_GAME" THEN "GAME" ELSE nScreen)
  BY StepTakesARoad DEF nowAt, Map!Go
<1> QED BY InitMenuInv, NextMenuInv, <1>1, <1>2, PTL
        DEF Spec, KeepsToTheRoads, Map!Spec
=============================================================================
