-------------------------- MODULE MCAudioProducer ---------------------------
(* Four packets; the second may come with all that RTP allows or break the
   framing, the third may be empty.  Reads may end on a frame boundary, inside a
   length, before the bytes a full header announces, or just before the end of a
   frame. *)
EXTENDS AudioProducer

MCShapes == <<{"plain"}, {"full", "broken"}, {"plain", "control"}, {"plain"}>>
MCCuts == {0, 1, 7, 15}
=============================================================================
