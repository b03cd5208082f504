------------------------- MODULE UdpCommandReceiver -------------------------
(***************************************************************************)
(* The reference receiver, class UdpCommandReceiver of                     *)
(* reference/ballet_udp_protocol.py: the training stack's promise of       *)
(* last-value semantics, which the node's receiver claims to match.  The   *)
(* kernel queues up to Capacity datagrams and drops those that find the    *)
(* queue full; more may arrive between any two reads of one poll.          *)
(***************************************************************************)
EXTENDS BalletProtocol

CONSTANTS
    Packets,    \* the datagrams that may arrive
    Capacity    \* how many the socket's receive queue holds

VARIABLES
    queue,      \* the socket's receive queue, oldest first
    pc,         \* the caller is away or in poll
    command     \* self.command

vars == <<queue, pc, command>>

Init == queue = <<>> /\ pc = "away" /\ command = Neutral

\* The kernel: a datagram from the network joins the queue or is dropped.
Arrive(d) ==
    /\ Len(queue) < Capacity
    /\ queue' = Append(queue, d)
    /\ UNCHANGED <<pc, command>>

Poll ==
    /\ pc = "away" /\ pc' = "poll"
    /\ UNCHANGED <<queue, command>>

\* One turn of the loop that reads a datagram; an invalid one is ignored.
Receive ==
    /\ pc = "poll" /\ queue # <<>>
    /\ queue' = Tail(queue)
    /\ command' = IF Valid(Head(queue)) THEN FromBytes(Head(queue)) ELSE command
    /\ UNCHANGED pc

\* BlockingIOError: the queue is empty, poll returns the last command.
Return ==
    /\ pc = "poll" /\ queue = <<>> /\ pc' = "away"
    /\ UNCHANGED <<queue, command>>

Next == (\E d \in Packets : Arrive(d)) \/ Poll \/ Receive \/ Return

Spec == Init /\ [][Next]_vars
=============================================================================
