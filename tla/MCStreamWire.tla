---------------------------- MODULE MCStreamWire ----------------------------
(***************************************************************************)
(* StreamWire for TLC: the cfg files give the source and the client.       *)
(***************************************************************************)
EXTENDS StreamWire, TLC

Symmetry == Permutations(Audio)
=============================================================================
