--------------------------- MODULE MCEncoderPump ----------------------------
(***************************************************************************)
(* EncoderPump for TLC: the cfg file bounds pictures and restarts.         *)
(***************************************************************************)
EXTENDS EncoderPump
=============================================================================
