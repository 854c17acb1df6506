---------------------------- MODULE MCConnection ----------------------------
(* Two connections of one address in the private network; the second
   one asks once. *)
EXTENDS Connection, TLC

CONSTANTS c1, c2, lan
MCConn == {c1, c2}
MCIp == {lan}
MCMaxRequests == (c1 :> 2) @@ (c2 :> 1)
MCIpOf == [c \in MCConn |-> lan]
=============================================================================
