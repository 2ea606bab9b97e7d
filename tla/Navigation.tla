---------------------------- MODULE Navigation ----------------------------
(***************************************************************************)
(* What the menu promises its user: the screens and the game form a map,   *)
(* every button leads along one road of it, and a game ends at the loading *)
(* screen.  How a button is chosen, by Nunchuk or by touch, and what is    *)
(* drawn meanwhile, is left open.                                          *)
(***************************************************************************)

VARIABLE place      \* a screen, or "GAME"

Screens == {"LOADING_SCREEN", "MENU_SCREEN", "LEVEL_SCREEN",
            "HIGHSCORE_SCREEN"}

Roads ==
  { << "LOADING_SCREEN", "MENU_SCREEN" >>,
    << "MENU_SCREEN", "LOADING_SCREEN" >>,
    << "MENU_SCREEN", "LEVEL_SCREEN" >>,
    << "MENU_SCREEN", "HIGHSCORE_SCREEN" >>,
    << "LEVEL_SCREEN", "MENU_SCREEN" >>,
    << "HIGHSCORE_SCREEN", "MENU_SCREEN" >>,
    << "LEVEL_SCREEN", "GAME" >>,
    << "GAME", "LOADING_SCREEN" >> }

Init == place = "LOADING_SCREEN"

Go == << place, place' >> \in Roads

Spec == Init /\ [][Go]_place
=============================================================================
