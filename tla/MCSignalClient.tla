--------------------------- MODULE MCSignalClient ---------------------------
(* Two phones, two messages, two faults; a backoff with three steps. *)
EXTENDS SignalClient

CONSTANTS s1, s2
MCSession == {s1, s2}
=============================================================================
