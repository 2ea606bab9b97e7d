----------------------------- MODULE MCIrLink -----------------------------
(***************************************************************************)
(* A player who walks over a field of 14 by 14 cells, of any walls.        *)
(***************************************************************************)
EXTENDS IrLink

MCPositions == { byte \in [Bits -> {0, 1}] : Position(byte) }
=============================================================================
