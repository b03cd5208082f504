--------------------------- MODULE BalletProtocol ---------------------------
(***************************************************************************)
(* The v1 datagram and its two decoders: targets[N] + mask[N] +            *)
(* velocity[3], 61 float32 in 244 bytes when N is 29.  BalletCommand of    *)
(* reference/ballet_udp_protocol.py cuts the floats into slices, the node  *)
(* indexes them.  Lengths are counted in floats; numbers are counted in    *)
(* halves, so that the mask's threshold 0.5 is 1 and the ends of the       *)
(* target range are -2 and 2.                                              *)
(***************************************************************************)
EXTENDS Integers, Sequences

CONSTANT N          \* the joints: 29 on the robot

ASSUME JointsAssumption == N \in Nat \ {0}

Joints       == 1 .. N
PacketFloats == 2 * N + 3

Half == 1
One  == 2

\* What can be read from a socket: its floats, and whether the first PacketFloats of them
\* are all finite.
Datagrams == [floats : Seq(Int), finite : BOOLEAN]

\* BalletCommand, whose __post_init__ accepts these shapes only.
Commands ==
    [targets : [Joints -> -One .. One], mask : [Joints -> {0, One}], velocity : [1 .. 3 -> Int]]

Neutral ==
    [targets |-> [j \in Joints |-> 0], mask |-> [j \in Joints |-> 0],
     velocity |-> [i \in 1 .. 3 |-> 0]]

Clip(x)   == IF x < -One THEN -One ELSE IF x > One THEN One ELSE x
Binary(x) == IF x >= Half THEN One ELSE 0

\* BalletCommand.from_bytes: a ValueError unless the packet is valid.
Valid(d) == Len(d.floats) = PacketFloats /\ d.finite

FromBytes(d) ==
    LET values  == d.floats
        targets == SubSeq(values, 1, N)
        mask    == SubSeq(values, N + 1, 2 * N)
    IN  [targets  |-> [j \in Joints |-> Clip(targets[j])],
         mask     |-> [j \in Joints |-> Binary(mask[j])],
         velocity |-> SubSeq(values, Len(values) - 2, Len(values))]

\* BalletCommand.to_bytes
ToBytes(c) == [floats |-> c.targets \o c.mask \o c.velocity, finite |-> TRUE]

\* Regression: the targets are taken as they come.
NodeDecodeUnclipped(d) ==
    [targets  |-> [i \in Joints |-> d.floats[i]],
     mask     |-> [i \in Joints |-> Binary(d.floats[N + i])],
     velocity |-> [i \in 1 .. 3 |-> d.floats[2 * N + i]]]

\* Regression: the layout of the training tensor, velocity first.
NodeDecodeVelocityFirst(d) ==
    [targets  |-> [i \in Joints |-> Clip(d.floats[3 + i])],
     mask     |-> [i \in Joints |-> Binary(d.floats[3 + N + i])],
     velocity |-> [i \in 1 .. 3 |-> d.floats[i]]]

\* BalletUdpReceiver::poll, a valid datagram.
NodeDecode(d) ==
    [targets  |-> [i \in Joints |-> Clip(d.floats[i])],
     mask     |-> [i \in Joints |-> Binary(d.floats[N + i])],
     velocity |-> [i \in 1 .. 3 |-> d.floats[2 * N + i]]]
=============================================================================
