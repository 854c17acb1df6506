------------------------- MODULE MCHyprlandPointer --------------------------
(***************************************************************************)
(* HyprlandPointer for TLC: three pixels, motion by less than a pixel and  *)
(* by more, scroll motion below and far above the threshold.               *)
(***************************************************************************)
EXTENDS HyprlandPointer

MCMoveDelta == {-1, 1, 3}
MCScrollDelta == {-12, 12, 324}
=============================================================================
