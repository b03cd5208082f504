------------------------ MODULE MCBalletUdpReceiver -------------------------
(* A small instance of BalletUdpReceiver for TLC: a packet, and a datagram that is one *)
(* float longer.                                                                       *)
EXTENDS BalletUdpReceiver

Packet == [floats |-> <<1, -2, 2, 0, 1, 0, -1>>, finite |-> TRUE]
Longer == [Packet EXCEPT !.floats = Append(@, 1)]

ThreePackets == {Packet, [Packet EXCEPT !.finite = FALSE], Longer}
=============================================================================
