--------------------------- MODULE MCVirtualInput ---------------------------
(***************************************************************************)
(* VirtualInput for TLC: two clients, which are alike, and scroll motions  *)
(* of more than one step and of more than two, in opposite directions.     *)
(***************************************************************************)
EXTENDS VirtualInput, TLC

CONSTANTS c1, c2

MCWheelDelta == {-51, 27}
Symmetry == Permutations(Conn)
=============================================================================
