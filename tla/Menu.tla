-------------------------------- MODULE Menu --------------------------------
(***************************************************************************)
(* The menu of one board: the _MENU case of the main loop, the handlers of *)
(* its four screens and the actions of their buttons.  A pass of the loop  *)
(* reads the Nunchuk and the touch screen, and then either draws a screen  *)
(* that is new, losing the input, or hands the input to the screen's       *)
(* handler.  The game itself is one state: it begins with a level button   *)
(* and ends, for whatever reason, at the loading screen.                   *)
(*                                                                         *)
(* What stands on the display is kept as well, as the program draws it:    *)
(* a button that is highlighted there is what the user believes to press.  *)
(***************************************************************************)
EXTENDS Integers, Sequences, FiniteSets

CONSTANT TouchPoints      \* where the user may touch the display

Display == (0 .. 320) \X (0 .. 240)

Screens == {"LOADING_SCREEN", "MENU_SCREEN", "LEVEL_SCREEN",
            "HIGHSCORE_SCREEN"}

ButtonsOf ==
  [LOADING_SCREEN   |-> << "BTNpressTooStart" >>,
   MENU_SCREEN      |-> << "BTNreturn", "BTNselectLevels",
                           "BTNseeHighscores" >>,
   LEVEL_SCREEN     |-> << "BTNreturn", "BTNlvl1", "BTNlvl2" >>,
   HIGHSCORE_SCREEN |-> << "BTNreturn" >>]

Size(screen) == Len(ButtonsOf[screen])
Button(screen, i) == ButtonsOf[screen][i + 1]

(* x, y, width and height of each button. *)
Box ==
  [BTNreturn        |-> << 0, 0, 40, 40 >>,
   BTNpressTooStart |-> << 60, 200, 200, 40 >>,
   BTNselectLevels  |-> << 20, 60, 180, 40 >>,
   BTNseeHighscores |-> << 20, 120, 180, 40 >>,
   BTNlvl1          |-> << 20, 60, 50, 50 >>,
   BTNlvl2          |-> << 80, 60, 50, 50 >>]

inBound(b, p) ==
  /\ Box[b][1] < p[1] /\ p[1] < Box[b][1] + Box[b][3]
  /\ Box[b][2] < p[2] /\ p[2] < Box[b][2] + Box[b][4]

(* The buttons, by index, that a touch at p falls on. *)
Hit(screen, p) ==
  { i \in 0 .. Size(screen) - 1 : inBound(Button(screen, i), p) }

(* No point lies in two buttons, so a handler's loop acts at most once. *)
ASSUME MenuAssumption ==
  /\ TouchPoints \subseteq Display
  /\ \A screen \in Screens, p \in Display : Cardinality(Hit(screen, p)) <= 1

VARIABLES
  pc,             \* "loop", or "releaseC" while the loop waits for C
  controlState,   \* "_MENU" or "_GAME"
  nScreen, cScreen,
  activeButton,   \* a byte
  display,        \* the screen that is drawn, or "game"
  lit,            \* the button drawn in the active colour
  idle            \* the button last touched to no effect, and how often

vars == << pc, controlState, nScreen, cScreen, activeButton, display, lit,
           idle >>

NoTouch == << -1, 0 >>

Init ==
  /\ pc = "loop" /\ controlState = "_MENU"
  /\ nScreen = "LOADING_SCREEN" /\ cScreen = "NO_SCREEN"
  /\ activeButton = 0
  /\ display = "NO_SCREEN" /\ lit = 0
  /\ idle = NoTouch

-----------------------------------------------------------------------------
(* What a button does: the lambdas of screens.cpp. *)

BTNreturnTo == IF nScreen \in {"LEVEL_SCREEN", "HIGHSCORE_SCREEN"}
                 THEN "MENU_SCREEN"
                 ELSE "LOADING_SCREEN"

Press(b) ==
  /\ nScreen' = CASE b = "BTNreturn"        -> BTNreturnTo
                  [] b = "BTNpressTooStart" -> "MENU_SCREEN"
                  [] b = "BTNselectLevels"  -> "LEVEL_SCREEN"
                  [] b = "BTNseeHighscores" -> "HIGHSCORE_SCREEN"
                  [] OTHER                  -> nScreen
  /\ IF b \in {"BTNlvl1", "BTNlvl2"}
       THEN controlState' = "_GAME" /\ display' = "game"
       ELSE UNCHANGED << controlState, display >>
  /\ UNCHANGED << cScreen, activeButton, lit >>

(* Highlight another button, and draw all of them again. *)
DrawsTooEarly(n) == activeButton' = n /\ lit' = activeButton % Size(nScreen)
DrawsPastLast(n) == activeButton' = n /\ lit' = n
Highlight(n) == activeButton' = n /\ lit' = n % Size(nScreen)

Stay == UNCHANGED << controlState, nScreen, cScreen, display >>

-----------------------------------------------------------------------------
(* One pass in _MENU. *)

InMenu == pc = "loop" /\ controlState = "_MENU"
Drawn == cScreen = nScreen

(* init...Screen: the button of index 1 is active, and the input is lost. *)
ForgetsToKeepIt == UNCHANGED cScreen
KeepsIt == cScreen' = nScreen

InitScreen ==
  /\ ~Drawn
  /\ KeepsIt
  /\ activeButton' = 1
  /\ display' = nScreen /\ lit' = 1 % Size(nScreen)
  /\ idle' = NoTouch
  /\ UNCHANGED << controlState, nScreen >>

NothingPressed ==
  /\ InMenu /\ ~Drawn
  /\ InitScreen
  /\ UNCHANGED pc

(* SELECTBUTTON, as long as Z is down. *)
SelectButton ==
  /\ InMenu
  /\ \/ InitScreen
     \/ /\ Drawn
        /\ Press(Button(nScreen, activeButton % Size(nScreen)))
        /\ idle' = NoTouch
  /\ UNCHANGED pc

(* C is down: the loop spins until the Nunchuk says it is up. *)
HoldC ==
  /\ InMenu
  /\ pc' = "releaseC"
  /\ UNCHANGED << controlState, nScreen, cScreen, activeButton, display, lit,
                  idle >>

(* NEXTBUTTON. *)
NextButton ==
  /\ pc = "releaseC" /\ pc' = "loop"
  /\ \/ InitScreen
     \/ /\ Drawn
        /\ Highlight((activeButton + 1) % 256)
        /\ Stay /\ idle' = NoTouch

(***************************************************************************)
(* TOUCH.  The loading screen's button acts at once; on the other screens  *)
(* a touch acts on the button whose index is activeButton, and otherwise   *)
(* makes it the active one.                                                *)
(***************************************************************************)
NeverMarks(i) == UNCHANGED << activeButton, lit >>
MarksTouched(i) == Highlight(i)

Touch(p) ==
  /\ InMenu
  /\ \/ InitScreen
     \/ Drawn /\ Hit(nScreen, p) = {} /\ idle' = NoTouch
              /\ Stay /\ UNCHANGED << activeButton, lit >>
     \/ Drawn /\ \E i \in Hit(nScreen, p) :
          IF nScreen = "LOADING_SCREEN" \/ i = activeButton
            THEN Press(Button(nScreen, i)) /\ idle' = NoTouch
            ELSE /\ MarksTouched(i)
                 /\ Stay
                 /\ idle' = << i, IF idle[1] = i THEN 2 ELSE 1 >>
  /\ UNCHANGED pc

-----------------------------------------------------------------------------
(***************************************************************************)
(* The game ends: by the peer's signal, or by endGame and its win screen.  *)
(***************************************************************************)
StaysAtItsLevel == controlState' = "_MENU" /\ UNCHANGED nScreen
BackToLoading == controlState' = "_MENU" /\ nScreen' = "LOADING_SCREEN"

EndOfGame ==
  /\ controlState = "_GAME"
  /\ BackToLoading
  /\ UNCHANGED << pc, cScreen, activeButton, display, lit, idle >>

Pass ==
  \/ NothingPressed
  \/ SelectButton
  \/ HoldC
  \/ \E p \in TouchPoints : Touch(p)

Next == Pass \/ NextButton \/ EndOfGame

Spec == Init /\ [][Next]_vars

(***************************************************************************)
(* The loop goes on, the Nunchuk answers, and no user holds C for ever.    *)
(***************************************************************************)
FairSpec == Spec /\ WF_vars(Pass) /\ WF_vars(NextButton)

-----------------------------------------------------------------------------
(* Properties. *)

TypeOK ==
  /\ pc \in {"loop", "releaseC"} /\ controlState \in {"_MENU", "_GAME"}
  /\ nScreen \in Screens /\ cScreen \in Screens \cup {"NO_SCREEN"}
  /\ activeButton \in 0 .. 255 /\ lit \in 0 .. 2
  /\ display \in Screens \cup {"NO_SCREEN", "game"}
  /\ idle \in (-1 .. 2) \X (0 .. 2)

(***************************************************************************)
(* What you see is what you press: a handler only ever runs with its own   *)
(* screen on the display, also after a game has drawn over it, and the     *)
(* button that is highlighted there is the one Z clicks.                   *)
(***************************************************************************)
ShowsWhatItDoes ==
  (controlState = "_MENU" /\ Drawn)
    => display = nScreen /\ lit = activeButton % Size(nScreen)

(***************************************************************************)
(* Of two touches of one button with no other input between them one acts, *)
(* if not the first then the second: wherever NEXTBUTTON has brought the   *)
(* count of activeButton before.                                           *)
(***************************************************************************)
SecondTouchActs == idle[2] < 2

(* Screens change along the roads of Navigation only. *)
Map == INSTANCE Navigation
         WITH place <- IF controlState = "_GAME" THEN "GAME" ELSE nScreen

KeepsToTheRoads == Map!Spec

(***************************************************************************)
(* A new screen gets drawn: whatever the user does at that moment, the     *)
(* menu does not stay behind an old picture.                               *)
(***************************************************************************)
GetsDrawn ==
  (controlState = "_MENU" /\ ~Drawn) ~> (controlState = "_MENU" /\ Drawn)

(***************************************************************************)
(* C moves to the next button, as the comment in the loop has it.          *)
(***************************************************************************)
NextMoves ==
  [][(NextButton /\ Drawn) => lit' = (lit + 1) % Size(nScreen)]_vars
=============================================================================
