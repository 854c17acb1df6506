--------------------------- MODULE MCPortalRequest --------------------------
(* Two screen casts that overlap, or the input backend. *)
EXTENDS PortalRequest

CONSTANTS screen1, screen2, input
MCCast == {screen1, screen2}
MCInput == {input}
MCTogether == {MCCast, MCInput}
=============================================================================
