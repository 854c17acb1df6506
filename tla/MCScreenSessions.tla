-------------------------- MODULE MCScreenSessions --------------------------
(***************************************************************************)
(* ScreenSessions for TLC.  Connections and audio producers are             *)
(* interchangeable; sessions are not, their backends differ.               *)
(***************************************************************************)
EXTENDS ScreenSessions, TLC

Symmetry == Permutations(Client) \cup Permutations(Audio)
=============================================================================
