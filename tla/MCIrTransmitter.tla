-------------------------- MODULE MCIrTransmitter --------------------------
(***************************************************************************)
(* The code's own tick counts, and two bytes that hold both bits next to   *)
(* each other in every order.                                              *)
(***************************************************************************)
EXTENDS IrTransmitter

MCCommands == {51, 204}

(* The receiver's counter far from, just below its sign change, its end. *)
MCClocks == {0, 32700, 65500}
=============================================================================
