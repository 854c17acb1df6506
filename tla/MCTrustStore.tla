---------------------------- MODULE MCTrustStore ----------------------------
(***************************************************************************)
(* TrustStore for TLC: devices, codes and connections are interchangeable. *)
(***************************************************************************)
EXTENDS TrustStore, TLC

Symmetry == Permutations(Device) \cup Permutations(Code) \cup Permutations(Conn)
=============================================================================
