------------------------------ MODULE MCSound ------------------------------
(* A short note, a longer one, a short one, and a last one without duration. *)
EXTENDS Sound

MCdurations == [n \in 0 .. 3 |-> CASE n = 1 -> 2 [] n = 3 -> 0 [] OTHER -> 1]
=============================================================================
