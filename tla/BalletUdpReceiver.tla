------------------------- MODULE BalletUdpReceiver --------------------------
(***************************************************************************)
(* The node's receiver, class BalletUdpReceiver of                         *)
(* src/src/g1_ballet_policy_node.cpp, with the first critical section of   *)
(* policy_tick that keeps what poll returned.  poll reads into a buffer of *)
(* one packet and fills its caller's arrays; the shared command is written *)
(* once, after poll has returned.                                          *)
(***************************************************************************)
EXTENDS BalletProtocol

CONSTANTS
    Packets,    \* the datagrams that may arrive
    Capacity    \* how many the socket's receive queue holds

ASSUME PacketsAssumption ==
    /\ Capacity \in Nat \ {0}
    /\ Packets \subseteq Datagrams

VARIABLES
    queue,                  \* the socket's receive queue, oldest first
    pc,                     \* of the policy thread: elsewhere, in poll, or about to store
    gotValid, local,        \* got_valid and the caller's arrays
    haveCommand, stored,    \* have_command_; targets_, mask_, velocity_cmd_
    newest                  \* history: the newest valid datagram the queue has taken

vars == <<queue, pc, gotValid, local, haveCommand, stored, newest>>

Nothing == [floats |-> <<>>, finite |-> FALSE]

Init ==
    /\ queue = <<>> /\ pc = "away"
    /\ gotValid = FALSE /\ local = Neutral
    /\ haveCommand = FALSE /\ stored = Neutral
    /\ newest = Nothing

\* The kernel: a datagram from the network joins the queue or is dropped.
Arrive(d) ==
    /\ Len(queue) < Capacity
    /\ queue' = Append(queue, d)
    /\ newest' = IF Valid(d) THEN d ELSE newest
    /\ UNCHANGED <<pc, gotValid, local, haveCommand, stored>>

Poll ==
    /\ pc = "away" /\ pc' = "poll"
    /\ gotValid' = FALSE /\ local' = Neutral
    /\ UNCHANGED <<queue, haveCommand, stored, newest>>

\* recvfrom with a buffer of kPacketBytes: the tail of a longer datagram is discarded and
\* the number of bytes copied is returned.
Read(d) ==
    IF Len(d.floats) > PacketFloats
    THEN [d EXCEPT !.floats = SubSeq(@, 1, PacketFloats)]
    ELSE d

\* Regression: a malformed datagram ends the loop instead of the turn.
ReceiveStopsAtInvalid ==
    /\ pc = "poll" /\ queue # <<>>
    /\ queue' = Tail(queue)
    /\ IF Valid(Read(Head(queue)))
       THEN gotValid' = TRUE /\ local' = NodeDecode(Read(Head(queue))) /\ UNCHANGED pc
       ELSE pc' = (IF gotValid THEN "store" ELSE "away") /\ UNCHANGED <<gotValid, local>>
    /\ UNCHANGED <<haveCommand, stored, newest>>

\* Regression: the first valid datagram of a poll is kept.
ReceiveKeepsFirst ==
    /\ pc = "poll" /\ queue # <<>>
    /\ queue' = Tail(queue)
    /\ IF Valid(Read(Head(queue))) /\ ~gotValid
       THEN gotValid' = TRUE /\ local' = NodeDecode(Read(Head(queue)))
       ELSE UNCHANGED <<gotValid, local>>
    /\ UNCHANGED <<pc, haveCommand, stored, newest>>

Receive ==
    /\ pc = "poll" /\ queue # <<>>
    /\ queue' = Tail(queue)
    /\ IF Valid(Read(Head(queue)))
       THEN gotValid' = TRUE /\ local' = NodeDecode(Read(Head(queue)))
       ELSE UNCHANGED <<gotValid, local>>
    /\ UNCHANGED <<pc, haveCommand, stored, newest>>

\* EAGAIN, or any other error: poll returns got_valid.
Return ==
    /\ pc = "poll" /\ queue = <<>>
    /\ pc' = IF gotValid THEN "store" ELSE "away"
    /\ UNCHANGED <<queue, gotValid, local, haveCommand, stored, newest>>

Store ==
    /\ pc = "store" /\ pc' = "away"
    /\ haveCommand' = TRUE /\ stored' = local
    /\ gotValid' = FALSE /\ local' = Neutral
    /\ UNCHANGED <<queue, newest>>

Next == (\E d \in Packets : Arrive(d)) \/ Poll \/ Receive \/ Return \/ Store

Spec == Init /\ [][Next]_vars

-----------------------------------------------------------------------------
(* Properties *)

\* The types, and that got_valid is poll's answer: it does not outlive the tick.
TypeOK ==
    /\ queue \in Seq(Packets) /\ Len(queue) <= Capacity
    /\ pc \in {"away", "poll", "store"}
    /\ gotValid \in BOOLEAN /\ local \in Commands
    /\ haveCommand \in BOOLEAN /\ stored \in Commands
    /\ pc = "away" => ~gotValid
    /\ pc = "store" => gotValid

\* The store that ends a poll keeps the newest valid datagram of all that reached the
\* socket before the read that found it empty, those that arrived during the poll included;
\* only a later arrival may be newer.
NewestIsStored ==
    [][pc = "poll" /\ pc' # "poll" /\ newest # Nothing =>
         IF gotValid THEN local = NodeDecode(newest) ELSE haveCommand /\ stored = NodeDecode(newest)]_vars

\* What the reference receiver would hold in self.command: the value in the caller's arrays
\* while a poll that found one is under way, the stored one otherwise.
RefCommand == IF gotValid THEN local ELSE stored

RefPc == IF pc = "poll" THEN "poll" ELSE "away"

Reference == INSTANCE UdpCommandReceiver WITH pc <- RefPc, command <- RefCommand

\* "matching the last-value semantics of UdpCommandReceiver"
\* (src/g1_ballet_policy_node.cpp:247-249): every run of the node's receiver is, read through
\* RefCommand, a run of the reference receiver fed with the same datagrams.
MatchesReference == Reference!Spec
=============================================================================
