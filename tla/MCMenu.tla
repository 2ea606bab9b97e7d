------------------------------- MODULE MCMenu -------------------------------
(* A touch inside every button, on an edge, and beside them all. *)
EXTENDS Menu

MCTouchPoints ==
  { << 20, 20 >>, << 30, 80 >>, << 100, 80 >>, << 100, 140 >>,
    << 100, 220 >>, << 40, 20 >>, << 300, 20 >> }
=============================================================================
