--------------------------- MODULE MCPeerNetwork ----------------------------
(* Instances of PeerNetwork for TLC.  Two of three peers share an IP       *)
(* address; the ports have a low byte below 128, so that the swapped       *)
(* numbers stay within TLC's integers.                                     *)
EXTENDS PeerNetwork

MCIp == [p \in Peers |-> IF p = "c" THEN "10.0.0.2" ELSE "10.0.0.1"]
MCPort == [p \in Peers |-> CASE p = "a" -> 5120 [] p = "b" -> 5121 [] OTHER -> 5122]
MCJunk == {[ip |-> "?", port |-> 70000, sig |-> Nobody]}   \* more than 16 bits
MCOnto == {<<"a", "b">>, <<"c", "b">>}
MCThree == {<<"a", "b">>, <<"c", "b">>, <<"b", "c">>}
=============================================================================
