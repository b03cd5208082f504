---------------------------- MODULE CommandPath ----------------------------
(***************************************************************************)
(* From the operator's settings to a policy that drives: the sender, the   *)
(* network, the socket's queue with the node's receiver, the packet        *)
(* inspector that may take the port, and the policy thread.  The actions   *)
(* are those of BalletUdpReceiver and CommandWatch, each conjoined with    *)
(* what happens to the history of the datagrams it moves.  BalletNode, up  *)
(* to its shutdown, implements the part of CommandWatch that is composed   *)
(* here.                                                                   *)
(*                                                                         *)
(* The stamp a command gets is the time it was processed.  The histories   *)
(* keep what the stamp forgets: when the settings were sent, and which     *)
(* they were.                                                              *)
(***************************************************************************)
EXTENDS BalletUdpReceiver, BalletObservation, FiniteSets

CONSTANTS
    Sent,            \* the settings the operator may have
    Others,          \* datagrams of other programs, malformed ones among them
    Robot,           \* the robot's terms of the observation
    Period,          \* of policy_loop, in ticks of the clock
    MaxLate,         \* the most a policy tick may end or start after its deadline
    CommandTimeout,  \* command_timeout_sec
    Delay,           \* the most a datagram is under way
    MaxAir           \* how many may be under way at once

ASSUME PathAssumption ==
    /\ Period \in Nat \ {0} /\ MaxLate \in Nat /\ CommandTimeout \in Nat
    /\ Delay \in Nat /\ MaxAir \in Nat
    /\ Sent \subseteq Settings /\ Others \subseteq Datagrams
    /\ Packets = {Vector(s) : s \in Sent} \cup Others
    /\ Robot \in Robots

Slip          == IF MaxLate > Period THEN MaxLate ELSE 0
\* From a deadline to the end of the next policy tick that begins.
ReactionBound == 2 * Period + MaxLate + Slip
DataBound     == CommandTimeout + ReactionBound + Delay + ReactionBound
DataCap       == DataBound + 1

VARIABLES
    air,                    \* the datagrams under way, with their tags
    tags,                   \* of the datagrams in queue
    localTag, origin,       \* of local and of stored
    commandAge,             \* now - command_stamp_
    toNext,                 \* policy_loop: next - now
    stage,                  \* policy_loop: asleep or in policy_tick
    driving,                \* phase_ is not Idle
    inspecting              \* a later socket is bound to the port

Watch == INSTANCE CommandWatch

clock == <<toNext, stage>>
pathVars == <<vars, air, tags, localTag, origin, commandAge, clock, driving, inspecting>>

\* What is remembered of a datagram: how long ago it was sent and what for.
Meant == Sent \cup {FromBytes(d) : d \in {e \in Others : Valid(e)}} \cup {Neutral}
Tags  == [age : 0 .. DataCap, of : Meant]
NoTag == [age |-> 0, of |-> Neutral]

PathInit ==
    /\ Init /\ Watch!Init
    /\ air = {} /\ tags = <<>> /\ localTag = NoTag /\ origin = NoTag
    /\ inspecting = FALSE

-----------------------------------------------------------------------------
(* The sender and the network *)

Submit(d, c) ==
    /\ Cardinality(air) < MaxAir
    /\ air' = air \cup {[data |-> d, tag |-> [age |-> 0, of |-> c]]}
    /\ UNCHANGED <<vars, tags, localTag, origin, commandAge, clock, driving, inspecting>>

Send(s) == Submit(Vector(s), s)

\* Something else on the network sends to the port; what a valid datagram means is the
\* protocol's reading of it.
Disturb(d) ==
    /\ Valid(Read(d))
    /\ Submit(d, IF Valid(d) THEN FromBytes(d) ELSE Neutral)

\* A malformed datagram reaches the socket; how long it was under way concerns nobody.
Garble(d) ==
    /\ ~inspecting /\ ~Valid(Read(d))
    /\ Arrive(d) /\ tags' = Append(tags, NoTag)
    /\ UNCHANGED <<air, localTag, origin, commandAge, clock, driving, inspecting>>

Lose(p) ==
    /\ air' = air \ {p}
    /\ UNCHANGED <<vars, tags, localTag, origin, commandAge, clock, driving, inspecting>>

\* The datagrams overtake each other, and a copy may follow.
Deliver(p) ==
    /\ ~inspecting
    /\ Arrive(p.data) /\ tags' = Append(tags, p.tag)
    /\ air' \in {air, air \ {p}}
    /\ UNCHANGED <<localTag, origin, commandAge, clock, driving, inspecting>>

\* Of two sockets with SO_REUSEADDR on one port the later one gets every datagram:
\* inspect_gamepad_udp.py, or check_live_gamepad_udp of another launch.
Inspect ==
    /\ inspecting' = ~inspecting
    /\ UNCHANGED <<vars, air, tags, localTag, origin, commandAge, clock, driving>>

Inspected(p) == inspecting /\ Lose(p)

-----------------------------------------------------------------------------
(* The policy thread *)

\* policy_loop wakes, and the tick's first call is poll.
Begin ==
    /\ Watch!Wake /\ Poll
    /\ UNCHANGED <<air, tags, localTag, origin, inspecting>>

ReceiveTagged ==
    /\ Receive
    /\ tags' = Tail(tags)
    /\ localTag' = IF Valid(Read(Head(queue))) THEN Head(tags) ELSE localTag
    /\ UNCHANGED <<air, origin, commandAge, clock, driving, inspecting>>

\* Regression: one valid datagram per tick.
ReturnAfterOne ==
    /\ pc = "poll" /\ (queue = <<>> \/ gotValid)
    /\ pc' = (IF gotValid THEN "store" ELSE "away")
    /\ UNCHANGED <<queue, gotValid, local, haveCommand, stored, newest>>
    /\ UNCHANGED <<air, tags, localTag, origin, commandAge, clock, driving, inspecting>>

PollReturns ==
    /\ Return
    /\ UNCHANGED <<air, tags, localTag, origin, commandAge, clock, driving, inspecting>>

StoreStamped ==
    /\ Watch!Keep /\ Store
    /\ origin' = localTag /\ localTag' = NoTag
    /\ UNCHANGED <<air, tags, inspecting>>

\* What comes after poll and the store.
Decide ==
    /\ pc = "away" /\ Watch!Decide
    /\ UNCHANGED <<vars, air, tags, localTag, origin, inspecting>>

Disable ==
    /\ Watch!Stop
    /\ UNCHANGED <<vars, air, tags, localTag, origin, inspecting>>

-----------------------------------------------------------------------------
(* Time *)

Older(t)  == [t EXCEPT !.age = IF @ < DataCap THEN @ + 1 ELSE @]

Tick ==
    /\ Watch!Tick
    /\ \A p \in air : p.tag.age < Delay
    /\ air' = {[p EXCEPT !.tag = Older(@)] : p \in air}
    /\ tags' = [i \in DOMAIN tags |-> Older(tags[i])]
    /\ localTag' = IF gotValid THEN Older(localTag) ELSE localTag
    /\ origin' = IF haveCommand THEN Older(origin) ELSE origin
    /\ UNCHANGED <<vars, inspecting>>

PathNext ==
    \/ \E s \in Sent : Send(s)
    \/ \E d \in Others : Disturb(d) \/ Garble(d)
    \/ \E p \in air : Lose(p) \/ Deliver(p) \/ Inspected(p)
    \/ Inspect
    \/ Begin \/ ReceiveTagged \/ PollReturns \/ StoreStamped \/ Decide \/ Disable
    \/ Tick

PathSpec == PathInit /\ [][PathNext]_pathVars

-----------------------------------------------------------------------------
(* Properties *)

PathTypeOK ==
    /\ TypeOK
    /\ air \subseteq [data : Packets, tag : [age : 0 .. Delay, of : Meant]]
    /\ tags \in Seq(Tags) /\ Len(tags) = Len(queue)
    /\ localTag \in Tags /\ origin \in Tags
    /\ commandAge \in 0 .. CommandTimeout + 1
    /\ toNext \in -MaxLate .. Period /\ stage \in {"sleep", "tick"}
    /\ stage = "sleep" => pc = "away"
    /\ driving \in BOOLEAN /\ inspecting \in BOOLEAN

\* Whatever was lost, repeated, overtaken or malformed on the way: the observation the node
\* assembles from its stored command is the one the training stack makes of one sender's
\* settings as they were at one moment, the operator's, or what another program's valid
\* datagram means by the protocol: each joint's target and mask and the twist in its place.
SeesWhatWasSent ==
    haveCommand => Assemble(Robot, stored) = TrainingObservation(Robot, Tensor(origin.of))

\* The stamp is that of the processing, and a late copy may take the place of a newer
\* datagram, so a command may be older than command_timeout_sec says; but a node that drives
\* follows a datagram sent no longer ago than the time-out, the watchdog's reaction, the delay
\* and one wait in the socket.
DrivesOnRecentData == driving => origin.age <= DataBound

-----------------------------------------------------------------------------
(* The inductive invariants behind the two *)

\* The node's observation of command c is the one training makes of c's meaning m.
Means(c, m) == Assemble(Robot, c) = TrainingObservation(Robot, Tensor(m))

\* Every copy on the way keeps its meaning.
MeaningKept ==
    /\ \A p \in air : Valid(p.data) => Means(NodeDecode(p.data), p.tag.of)
    /\ \A i \in DOMAIN queue : Valid(queue[i]) => Means(NodeDecode(queue[i]), tags[i].of)
    /\ gotValid => Means(local, localTag.of)
    /\ haveCommand => Means(stored, origin.of)

\* The current tick began no longer ago than this.  What it has still to look at was left by
\* the tick before, one period and one reset of next earlier.
SinceBegin == Period - toNext
SinceLast  == SinceBegin + Period + Slip

AgesBounded ==
    /\ \A i \in DOMAIN tags :
          tags[i].age <= Delay + (IF pc = "poll" THEN SinceLast ELSE SinceBegin)
    /\ gotValid => localTag.age <= Delay + SinceLast
    /\ haveCommand /\ commandAge <= CommandTimeout => origin.age <= commandAge + Delay + ReactionBound
    /\ driving => /\ haveCommand
                  /\ origin.age <= CommandTimeout + Delay + ReactionBound
                       + (IF stage = "tick" THEN SinceLast ELSE SinceBegin)
=============================================================================
