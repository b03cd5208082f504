------------------------- MODULE CommandPathProofs --------------------------
(***************************************************************************)
(* The path of a command, for every number of joints, every period,        *)
(* lateness, delay and time-out, and every set of settings and of other    *)
(* datagrams that are not longer than a packet.                            *)
(***************************************************************************)
EXTENDS CommandPath, BalletUdpReceiverProofs

-----------------------------------------------------------------------------
(* The two observations *)

\* The library's facts about concatenation, for sequences of integers.
LEMMA Concat ==
    ASSUME NEW s \in Seq(Int), NEW t \in Seq(Int)
    PROVE  /\ s \o t \in Seq(Int)
           /\ Len(s \o t) = Len(s) + Len(t)
           /\ \A i \in 1 .. Len(s) + Len(t) :
                 (s \o t)[i] = IF i <= Len(s) THEN s[i] ELSE t[i - Len(s)]
  BY ConcatProperties, Zenon

LEMMA SliceOfFirst ==
    ASSUME NEW s \in Seq(Int), NEW t \in Seq(Int), NEW m \in 1 .. Len(s), NEW n \in 1 .. Len(s)
    PROVE  SubSeq(s \o t, m, n) = SubSeq(s, m, n)
  BY SubSeqOfConcat1, Zenon

LEMMA AllOfSecond ==
    ASSUME NEW s \in Seq(Int), NEW t \in Seq(Int), Len(t) # 0
    PROVE  SubSeq(s \o t, Len(s) + 1, Len(s) + Len(t)) = t
<1>1. /\ Len(s) + 1 \in Len(s) + 1 .. Len(s) + Len(t)
      /\ Len(s) + Len(t) \in Len(s) + 1 .. Len(s) + Len(t)
  OBVIOUS
<1>2. SubSeq(s \o t, Len(s) + 1, Len(s) + Len(t))
         = SubSeq(t, (Len(s) + 1) - Len(s), (Len(s) + Len(t)) - Len(s))
  BY <1>1, SubSeqOfConcat2, Zenon
<1>3. (Len(s) + 1) - Len(s) = 1 /\ (Len(s) + Len(t)) - Len(s) = Len(t)
  OBVIOUS
<1>4. SubSeq(t, 1, Len(t)) = t
  BY SubSeqFull, Zenon
<1> QED
  BY <1>2, <1>3, <1>4, Zenon

LEMMA FunctionIsSequence ==
    ASSUME NEW n \in Nat, NEW f \in [1 .. n -> Int]
    PROVE  f \in Seq(Int) /\ Len(f) = n
<1>1. f \in Seq(Int)
  BY SeqDef
<1> QED
  BY <1>1, LenProperties

LEMMA PartsOfCommand ==
    ASSUME NEW c \in Commands
    PROVE  /\ c.velocity \in Seq(Int) /\ Len(c.velocity) = 3
           /\ c.targets \in Seq(Int) /\ Len(c.targets) = N
           /\ c.mask \in Seq(Int) /\ Len(c.mask) = N
<1>1. c.velocity \in [1 .. 3 -> Int] /\ c.targets \in [1 .. N -> Int] /\ c.mask \in [1 .. N -> Int]
  BY DEF Commands, Joints, One
<1> QED
  BY <1>1, FunctionIsSequence, JointsAssumption

\* Cutting a chain of three sequences where they were joined.
LEMMA SlicesOfThree ==
    ASSUME NEW v \in Seq(Int), NEW t \in Seq(Int), NEW m \in Seq(Int),
           Len(v) # 0, Len(t) # 0, Len(m) # 0
    PROVE  /\ SubSeq((v \o t) \o m, 1, Len(v)) = v
           /\ SubSeq((v \o t) \o m, Len(v) + 1, Len(v) + Len(t)) = t
           /\ SubSeq((v \o t) \o m, (Len(v) + Len(t)) + 1, (Len(v) + Len(t)) + Len(m)) = m
<1>1. v \o t \in Seq(Int) /\ Len(v \o t) = Len(v) + Len(t)
  BY Concat, Zenon
<1>2. \A i, j \in 1 .. Len(v \o t) : SubSeq((v \o t) \o m, i, j) = SubSeq(v \o t, i, j)
  BY <1>1, SliceOfFirst, Zenon
<1>3. \A i, j \in 1 .. Len(v) + Len(t) : SubSeq((v \o t) \o m, i, j) = SubSeq(v \o t, i, j)
  BY <1>1, <1>2, Zenon
<1>4. /\ Len(v) \in Nat /\ Len(t) \in Nat
      /\ 1 \in 1 .. Len(v) + Len(t) /\ Len(v) \in 1 .. Len(v) + Len(t)
      /\ Len(v) + 1 \in 1 .. Len(v) + Len(t) /\ Len(v) + Len(t) \in 1 .. Len(v) + Len(t)
      /\ 1 \in 1 .. Len(v) /\ Len(v) \in 1 .. Len(v)
  OBVIOUS
<1>5. SubSeq((v \o t) \o m, 1, Len(v)) = v
  <2>1. SubSeq((v \o t) \o m, 1, Len(v)) = SubSeq(v \o t, 1, Len(v))
    BY <1>3, <1>4, Zenon
  <2>2. SubSeq(v \o t, 1, Len(v)) = SubSeq(v, 1, Len(v))
    BY <1>4, SliceOfFirst, Zenon
  <2>3. SubSeq(v, 1, Len(v)) = v
    BY SubSeqFull, Zenon
  <2> QED
    BY <2>1, <2>2, <2>3, Zenon
<1>6. SubSeq((v \o t) \o m, Len(v) + 1, Len(v) + Len(t)) = t
  <2>1. SubSeq((v \o t) \o m, Len(v) + 1, Len(v) + Len(t)) = SubSeq(v \o t, Len(v) + 1, Len(v) + Len(t))
    BY <1>3, <1>4, Zenon
  <2>2. SubSeq(v \o t, Len(v) + 1, Len(v) + Len(t)) = t
    BY AllOfSecond, Zenon
  <2> QED
    BY <2>1, <2>2, Zenon
<1>7. SubSeq((v \o t) \o m, (Len(v) + Len(t)) + 1, (Len(v) + Len(t)) + Len(m)) = m
  <2>1. SubSeq((v \o t) \o m, Len(v \o t) + 1, Len(v \o t) + Len(m)) = m
    BY <1>1, AllOfSecond, Zenon
  <2> QED
    BY <1>1, <2>1, Zenon
<1> QED
  BY <1>5, <1>6, <1>7, Zenon

\* The training stack finds the three parts of a command in its tensor again.
LEMMA SlicesOfTensor ==
    ASSUME NEW c \in Commands
    PROVE  /\ VelocityCommands(Tensor(c)) = c.velocity
           /\ Slice(Tensor(c), TargetStart, TargetEnd) = c.targets
           /\ AxisMask(Tensor(c)) = c.mask
<1> DEFINE v == c.velocity
           t == c.targets
           m == c.mask
<1>0. v \in Seq(Int) /\ t \in Seq(Int) /\ m \in Seq(Int)
  BY PartsOfCommand
<1>1. Len(v) = 3 /\ Len(t) = N /\ Len(m) = N
  BY PartsOfCommand
<1>2. Tensor(c) = (v \o t) \o m
  BY Zenon DEF Tensor
<1> HIDE DEF v, t, m
<1>3. Len(v) # 0 /\ Len(t) # 0 /\ Len(m) # 0
  BY <1>1, JointsAssumption
<1>4. /\ SubSeq((v \o t) \o m, 1, Len(v)) = v
      /\ SubSeq((v \o t) \o m, Len(v) + 1, Len(v) + Len(t)) = t
      /\ SubSeq((v \o t) \o m, (Len(v) + Len(t)) + 1, (Len(v) + Len(t)) + Len(m)) = m
  BY <1>0, <1>3, SlicesOfThree, Zenon
<1>5. /\ SubSeq(Tensor(c), 1, Len(v)) = v
      /\ SubSeq(Tensor(c), Len(v) + 1, Len(v) + Len(t)) = t
      /\ SubSeq(Tensor(c), (Len(v) + Len(t)) + 1, (Len(v) + Len(t)) + Len(m)) = m
  BY <1>2, <1>4, Zenon
<1>6. 0 + 1 = 1
  OBVIOUS
<1> QED
  BY <1>1, <1>5, <1>6 DEF VelocityCommands, AxisMask, Slice, TargetStart, TargetEnd, MaskEnd, v, t, m

\* Two commands that agree where a joint is active are one to the policy.
LEMMA MeansByParts ==
    ASSUME NEW c \in Commands, NEW m \in Commands,
           c.velocity = m.velocity, c.mask = m.mask,
           \A j \in Joints : m.mask[j] = One => c.targets[j] = m.targets[j]
    PROVE  Means(c, m)
<1>1. \A j \in Joints : m.mask[j] \in {0, One}
  BY DEF Commands
<1>2. \A j \in Joints : c.mask[j] >= Half <=> m.mask[j] = One
  BY <1>1 DEF Half, One
<1>3. AxisTargets(Tensor(m)) = [j \in Joints |-> IF m.mask[j] = One THEN m.targets[j] ELSE 0]
  BY SlicesOfTensor DEF AxisTargets
<1>4. [i \in Joints |-> IF c.mask[i] >= Half THEN c.targets[i] ELSE 0] = AxisTargets(Tensor(m))
  BY <1>2, <1>3
<1>5. VelocityCommands(Tensor(m)) = c.velocity /\ AxisMask(Tensor(m)) = c.mask
  BY SlicesOfTensor
<1> QED
  BY <1>4, <1>5 DEF Means, Assemble, TrainingObservation

\* For every command the node's terms are the training stack's.
THEOREM ObservationsAgree == \A c \in Commands : Means(c, c)
  BY MeansByParts

\* The sender gates an inactive target, the node and the training stack gate it again: what
\* the node decodes of the sender's vector means the settings.
THEOREM SettingsSurvive ==
    ASSUME NEW s \in Settings
    PROVE  /\ Vector(s) \in Datagrams /\ Valid(Vector(s))
           /\ Means(NodeDecode(Vector(s)), s)
<1> DEFINE g  == [j \in Joints |-> IF s.mask[j] >= Half THEN s.targets[j] ELSE 0]
           gm == g \o s.mask
           f  == gm \o s.velocity
           c  == NodeDecode(Vector(s))
<1>0. N \in Nat /\ N # 0 /\ N + N \in Nat
  BY JointsAssumption
<1>1. s \in Commands
  BY DEF Settings, Commands, One
<1>k. PICK k \in Nat : k = 3
  OBVIOUS
<1>2. /\ s.velocity \in Seq(Int) /\ Len(s.velocity) = k
      /\ s.mask \in Seq(Int) /\ Len(s.mask) = N
  BY <1>1, <1>k, PartsOfCommand
<1>3. \A j \in Joints : s.targets[j] \in -One .. One /\ s.mask[j] \in {0, One}
  BY DEF Settings
<1>4. g \in [1 .. N -> Int]
  BY <1>3 DEF Joints, One
<1>5. g \in Seq(Int) /\ Len(g) = N
  BY <1>0, <1>4, FunctionIsSequence
<1>6. Vector(s) = [floats |-> f, finite |-> TRUE]
  BY Zenon DEF Vector
<1>g. \A j \in Joints : g[j] = IF s.mask[j] >= Half THEN s.targets[j] ELSE 0
  OBVIOUS
<1> HIDE DEF g
<1>7. gm \in Seq(Int) /\ Len(gm) = N + N
      /\ \A i \in 1 .. N + N : gm[i] = IF i <= N THEN g[i] ELSE s.mask[i - N]
  <2>1. gm \in Seq(Int) /\ Len(gm) = Len(g) + Len(s.mask)
    BY <1>2, <1>5, Concat, Zenon
  <2>2. \A i \in 1 .. Len(g) + Len(s.mask) : gm[i] = IF i <= Len(g) THEN g[i] ELSE s.mask[i - Len(g)]
    BY <1>2, <1>5, Concat, Zenon
  <2> QED
    BY <1>2, <1>5, <2>1, <2>2, Zenon
<1> HIDE DEF gm
<1>8. f \in Seq(Int) /\ Len(f) = (N + N) + k
      /\ \A i \in 1 .. (N + N) + k : f[i] = IF i <= N + N THEN gm[i] ELSE s.velocity[i - (N + N)]
  <2>1. f \in Seq(Int) /\ Len(f) = Len(gm) + Len(s.velocity)
    BY <1>2, <1>7, Concat, Zenon
  <2>2. \A i \in 1 .. Len(gm) + Len(s.velocity) :
           f[i] = IF i <= Len(gm) THEN gm[i] ELSE s.velocity[i - Len(gm)]
    BY <1>2, <1>7, Concat, Zenon
  <2> QED
    BY <1>2, <1>7, <2>1, <2>2, Zenon
<1> HIDE DEF f
<1>9. Vector(s).floats = f /\ Vector(s).finite = TRUE
  BY <1>6
<1>10. Vector(s) \in Datagrams
  BY <1>6, <1>8 DEF Datagrams
<1>11. Valid(Vector(s))
  BY <1>0, <1>k, <1>8, <1>9 DEF Valid, PacketFloats
<1>12. \A j \in Joints : f[j] = g[j] /\ f[N + j] = s.mask[j]
  <2> TAKE j \in Joints
  <2>1. /\ j \in 1 .. (N + N) + k /\ N + j \in 1 .. (N + N) + k
        /\ j \in 1 .. N + N /\ N + j \in 1 .. N + N
    BY <1>0 DEF Joints
  <2>2. j <= N + N /\ N + j <= N + N /\ j <= N /\ ~(N + j <= N) /\ (N + j) - N = j
    BY <1>0 DEF Joints
  <2>3. f[j] = gm[j] /\ f[N + j] = gm[N + j]
    BY <1>8, <2>1, <2>2, Zenon
  <2>4. gm[j] = g[j] /\ gm[N + j] = s.mask[(N + j) - N]
    BY <1>7, <2>1, <2>2, Zenon
  <2> QED
    BY <2>2, <2>3, <2>4, Zenon
<1>13. \A i \in 1 .. 3 : f[2 * N + i] = s.velocity[i]
  <2> TAKE i \in 1 .. 3
  <2>1. 2 * N + i \in 1 .. (N + N) + k
    BY <1>0, <1>k
  <2>2. ~(2 * N + i <= N + N) /\ (2 * N + i) - (N + N) = i
    BY <1>0
  <2>3. f[2 * N + i] = s.velocity[(2 * N + i) - (N + N)]
    BY <1>8, <2>1, <2>2, Zenon
  <2> QED
    BY <2>2, <2>3
<1>14. c \in Commands
  BY <1>10, <1>11, DecodeIsCommand
<1>15. c.velocity = s.velocity
  <2>1. s.velocity \in [1 .. 3 -> Int]
    BY <1>1 DEF Commands
  <2>2. c.velocity = [i \in 1 .. 3 |-> f[2 * N + i]]
    BY <1>9 DEF NodeDecode
  <2> QED
    BY <1>13, <2>1, <2>2
<1>16. c.mask = s.mask
  <2>1. s.mask \in [Joints -> {0, One}]
    BY <1>1 DEF Commands
  <2>2. c.mask = [i \in Joints |-> Binary(f[N + i])]
    BY <1>9 DEF NodeDecode
  <2>3. \A j \in Joints : Binary(f[N + j]) = s.mask[j]
    BY <1>3, <1>12 DEF Binary, Half, One
  <2> QED
    BY <2>1, <2>2, <2>3
<1>17. \A j \in Joints : s.mask[j] = One => c.targets[j] = s.targets[j]
  <2> SUFFICES ASSUME NEW j \in Joints, s.mask[j] = One PROVE c.targets[j] = s.targets[j]
    OBVIOUS
  <2>1. f[j] = s.targets[j]
    BY <1>12, <1>g DEF Half, One
  <2>2. c.targets[j] = Clip(f[j])
    BY <1>9 DEF NodeDecode
  <2> QED
    BY <1>3, <2>1, <2>2 DEF Clip, One
<1>18. Means(c, s)
  <2> HIDE DEF c
  <2> QED
    BY <1>1, <1>14, <1>15, <1>16, <1>17, MeansByParts
<1> QED
  BY <1>10, <1>11, <1>18

-----------------------------------------------------------------------------
(* Types *)

LEMMA Bounds ==
    /\ Period \in Nat \ {0} /\ MaxLate \in Nat /\ CommandTimeout \in Nat /\ Delay \in Nat
    /\ Slip \in Nat /\ MaxLate <= Period + Slip /\ (MaxLate > Period => Slip = MaxLate)
    /\ ReactionBound \in Nat /\ ReactionBound = 2 * Period + MaxLate + Slip
    /\ DataBound \in Nat /\ DataBound = CommandTimeout + ReactionBound + Delay + ReactionBound
    /\ DataCap \in Nat /\ DataCap = DataBound + 1
  BY PathAssumption DEF Slip, ReactionBound, DataBound, DataCap

\* Every step of the path is a step of the receiver or leaves it alone.
LEMMA PathStepIsReceiverStep == PathTypeOK /\ [PathNext]_pathVars => [Next]_vars
<1> SUFFICES ASSUME PathTypeOK, [PathNext]_pathVars PROVE [Next]_vars
  OBVIOUS
<1>1. ASSUME NEW s \in Sent, Send(s) PROVE UNCHANGED vars
  BY <1>1 DEF Send, Submit
<1>2. ASSUME NEW d \in Others, Disturb(d) PROVE UNCHANGED vars
  BY <1>2 DEF Disturb, Submit
<1>g. ASSUME NEW d \in Others, Garble(d) PROVE Next
  BY <1>g, PathAssumption DEF Garble, Next
<1>3. ASSUME NEW p \in air, Lose(p) \/ Inspected(p) PROVE UNCHANGED vars
  BY <1>3 DEF Lose, Inspected
<1>4. CASE Inspect \/ Decide \/ Disable \/ Tick
  BY <1>4 DEF Inspect, Decide, Disable, Tick
<1>5. CASE Begin \/ ReceiveTagged \/ PollReturns \/ StoreStamped
  BY <1>5 DEF Begin, ReceiveTagged, PollReturns, StoreStamped, Next
<1>6. ASSUME NEW p \in air, Deliver(p) PROVE Next
  BY <1>6 DEF Deliver, Next, PathTypeOK
<1>7. CASE UNCHANGED pathVars
  BY <1>7 DEF pathVars
<1> QED
  BY <1>1, <1>2, <1>g, <1>3, <1>4, <1>5, <1>6, <1>7 DEF PathNext

LEMMA OlderTag ==
    ASSUME NEW t \in Tags
    PROVE  /\ Older(t) \in Tags /\ Older(t).of = t.of
           /\ Older(t).age <= t.age + 1
           /\ t.age < DataCap => Older(t).age = t.age + 1
  BY Bounds DEF Older, Tags

LEMMA NoTagIsTag == NoTag \in Tags
  BY Bounds DEF NoTag, Tags, Meant

LEMMA SentIsCommand == Sent \subseteq Meant /\ \A d \in Others : Valid(d) => FromBytes(d) \in Meant
  BY DEF Meant

\* What is under way: a datagram that may arrive, not older than Delay.
Flights == [data : Packets, tag : [age : 0 .. Delay, of : Meant]]

LEMMA NewFlight ==
    /\ \A s \in Sent : [data |-> Vector(s), tag |-> [age |-> 0, of |-> s]] \in Flights
    /\ \A d \in Others :
          [data |-> d, tag |-> [age |-> 0, of |-> IF Valid(d) THEN FromBytes(d) ELSE Neutral]]
            \in Flights
<1>1. 0 \in 0 .. Delay /\ Neutral \in Meant
  BY Bounds DEF Meant
<1>2. (\A s \in Sent : Vector(s) \in Packets) /\ Others \subseteq Packets
  BY PathAssumption
<1> QED
  BY <1>1, <1>2, SentIsCommand DEF Flights

LEMMA FlightTag == \A p \in Flights : p.data \in Packets /\ p.tag \in Tags /\ p.tag.age <= Delay
  BY Bounds DEF Flights, Tags

LEMMA OlderFlight ==
    ASSUME NEW p \in Flights, p.tag.age < Delay
    PROVE  [p EXCEPT !.tag = Older(@)] \in Flights
  BY Bounds DEF Flights, Older

LEMMA PathTypeInit == PathInit => PathTypeOK
<1> SUFFICES ASSUME PathInit PROVE PathTypeOK
  OBVIOUS
<1>1. TypeOK
  BY TypeInit DEF PathInit
<1>2. tags \in Seq(Tags) /\ Len(tags) = Len(queue)
  BY DEF PathInit, Init
<1>3. localTag \in Tags /\ origin \in Tags
  BY NoTagIsTag DEF PathInit
<1>4. 0 \in 0 .. CommandTimeout + 1 /\ 0 \in -MaxLate .. Period
  BY Bounds
<1>5. air = {} /\ commandAge = 0 /\ toNext = 0 /\ stage = "sleep" /\ pc = "away"
      /\ driving = FALSE /\ inspecting = FALSE
  BY DEF PathInit, Init, Watch!Init
<1> QED
  BY <1>1, <1>2, <1>3, <1>4, <1>5 DEF PathTypeOK

\* The variables of the path besides those of the receiver.
OwnTypes ==
    /\ air \subseteq Flights
    /\ tags \in Seq(Tags) /\ Len(tags) = Len(queue)
    /\ localTag \in Tags /\ origin \in Tags
    /\ commandAge \in 0 .. CommandTimeout + 1
    /\ toNext \in -MaxLate .. Period /\ stage \in {"sleep", "tick"}
    /\ stage = "sleep" => pc = "away"
    /\ driving \in BOOLEAN /\ inspecting \in BOOLEAN

LEMMA OwnTypesSplit == PathTypeOK <=> TypeOK /\ OwnTypes
  BY DEF PathTypeOK, OwnTypes, Flights

LEMMA PathTypeStep == PathTypeOK /\ [PathNext]_pathVars => PathTypeOK'
<1> SUFFICES ASSUME PathTypeOK, [PathNext]_pathVars PROVE PathTypeOK'
  OBVIOUS
<1>a. TypeOK /\ OwnTypes
  BY OwnTypesSplit
<1>b. TypeOK'
  BY <1>a, PathStepIsReceiverStep, TypeStep
<1> SUFFICES OwnTypes'
  BY <1>b DEF PathTypeOK, OwnTypes, Flights
<1> USE <1>a DEF OwnTypes
<1>1. ASSUME NEW s \in Sent, Send(s) PROVE OwnTypes'
  BY <1>1, NewFlight DEF Send, Submit, vars, clock
<1>2. ASSUME NEW d \in Others, Disturb(d) PROVE OwnTypes'
  BY <1>2, NewFlight DEF Disturb, Submit, vars, clock
<1>g. ASSUME NEW d \in Others, Garble(d) PROVE OwnTypes'
  <2>1. tags' \in Seq(Tags) /\ Len(tags') = Len(queue')
    BY <1>g, NoTagIsTag DEF Garble, Arrive, TypeOK
  <2> QED
    BY <1>g, <2>1 DEF Garble, Arrive, clock
<1>3. ASSUME NEW p \in air, Lose(p) \/ Inspected(p) PROVE OwnTypes'
  BY <1>3 DEF Lose, Inspected, vars, clock
<1>4. ASSUME NEW p \in air, Deliver(p) PROVE OwnTypes'
  <2>1. p.tag \in Tags /\ p.data \in Packets
    BY FlightTag
  <2>2. tags' \in Seq(Tags) /\ Len(tags') = Len(queue')
    BY <1>4, <2>1 DEF Deliver, Arrive, TypeOK
  <2> QED
    BY <1>4, <2>2 DEF Deliver, Arrive, clock
<1>5. CASE Inspect
  BY <1>5 DEF Inspect, vars, clock
<1>6. CASE Begin
  <2>1. toNext' \in -MaxLate .. Period
    BY <1>6, Bounds DEF Begin, Watch!Wake
  <2> QED
    BY <1>6, <2>1 DEF Begin, Watch!Wake, Poll
<1>7. CASE ReceiveTagged
  <2>1. queue # <<>> /\ queue' = Tail(queue) /\ tags' = Tail(tags) /\ pc = "poll" /\ UNCHANGED pc
    BY <1>7 DEF ReceiveTagged, Receive
  <2>2. tags # <<>>
    BY <2>1 DEF TypeOK
  <2>3. Head(tags) \in Tags /\ tags' \in Seq(Tags) /\ Len(tags') = Len(queue')
    BY <2>1, <2>2 DEF TypeOK
  <2>4. localTag' \in Tags
    BY <1>7, <2>3 DEF ReceiveTagged
  <2> QED
    BY <1>7, <2>1, <2>3, <2>4 DEF ReceiveTagged, clock
<1>8. CASE PollReturns
  BY <1>8 DEF PollReturns, Return, clock
<1>9. CASE StoreStamped
  BY <1>9, NoTagIsTag, Bounds DEF StoreStamped, Watch!Keep, Store
<1>10. CASE Decide \/ Disable
  BY <1>10 DEF Decide, Watch!Decide, Disable, Watch!Stop, vars
<1>11. CASE Tick
  <2>1. air' \subseteq Flights
    BY <1>11, OlderFlight DEF Tick
  <2>2. tags' \in Seq(Tags) /\ Len(tags') = Len(tags)
    <3>1. DOMAIN tags = 1 .. Len(tags) /\ \A i \in 1 .. Len(tags) : Older(tags[i]) \in Tags
      BY OlderTag
    <3>2. tags' = [i \in 1 .. Len(tags) |-> Older(tags[i])]
      BY <1>11, <3>1 DEF Tick
    <3>3. Len(tags) \in Nat /\ tags' \in [1 .. Len(tags) -> Tags]
      BY <3>1, <3>2
    <3>4. tags' \in Seq(Tags)
      BY <3>3, SeqDef
    <3> QED
      BY <3>3, <3>4, LenProperties
  <2>3. localTag' \in Tags /\ origin' \in Tags
    BY <1>11, OlderTag DEF Tick
  <2>4. toNext' \in -MaxLate .. Period
    <3>1. toNext' = toNext - 1 /\ toNext > -MaxLate
      BY <1>11 DEF Tick, Watch!Tick
    <3> QED
      BY <3>1, Bounds
  <2>5. commandAge' \in 0 .. CommandTimeout + 1
    <3>1. \/ commandAge' = commandAge
          \/ commandAge <= CommandTimeout /\ commandAge' = commandAge + 1
      BY <1>11 DEF Tick, Watch!Tick
    <3>2. CommandTimeout \in Nat
      BY Bounds
    <3> QED
      BY <3>1, <3>2
  <2> QED
    BY <1>11, <2>1, <2>2, <2>3, <2>4, <2>5 DEF Tick, Watch!Tick, vars
<1>12. CASE UNCHANGED pathVars
  BY <1>12 DEF pathVars, vars, clock
<1> QED
  BY <1>1, <1>2, <1>g, <1>3, <1>4, <1>5, <1>6, <1>7, <1>8, <1>9, <1>10, <1>11, <1>12 DEF PathNext

\* Type correctness of the path, the receiver's types included.
THEOREM PathTypes == PathSpec => []PathTypeOK
  BY PathTypeInit, PathTypeStep, PTL DEF PathSpec

\* The path runs the receiver as it is.
THEOREM PathRunsReceiver == PathSpec => Spec
<1>1. PathInit => Init
  BY DEF PathInit
<1> QED
  BY <1>1, PathStepIsReceiverStep, PathTypes, PTL DEF PathSpec, Spec

\* For datagrams of at most a packet the composed system still matches the reference.
THEOREM PathMatchesReference ==
    ASSUME \A d \in Packets : Len(d.floats) <= PacketFloats
    PROVE  PathSpec => MatchesReference
  BY PathRunsReceiver, NodeMatchesReference

\* For the same datagrams a poll of the composed system ends with the newest valid one.
THEOREM PathKeepsNewest ==
    ASSUME \A d \in Packets : Len(d.floats) <= PacketFloats
    PROVE  PathSpec => NewestIsStored
  BY PathRunsReceiver, NewestStays

-----------------------------------------------------------------------------
(* How old the data of a driving node may be *)

LEMMA AgesInit == PathInit => AgesBounded
  BY DEF PathInit, Init, Watch!Init, AgesBounded

LEMMA AgesStep == PathTypeOK /\ AgesBounded /\ [PathNext]_pathVars => AgesBounded'
<1> SUFFICES ASSUME TypeOK, OwnTypes, AgesBounded, [PathNext]_pathVars PROVE AgesBounded'
  BY OwnTypesSplit
<1> DEFINE Waited == IF pc = "poll" THEN SinceLast ELSE SinceBegin
           Room   == CommandTimeout + Delay + ReactionBound
                       + (IF stage = "tick" THEN SinceLast ELSE SinceBegin)
<1>a. /\ \A i \in 1 .. Len(tags) : tags[i] \in Tags /\ tags[i].age <= Delay + Waited
      /\ gotValid => localTag.age <= Delay + SinceLast
      /\ haveCommand /\ commandAge <= CommandTimeout
            => origin.age <= commandAge + Delay + ReactionBound
      /\ driving => haveCommand /\ origin.age <= Room
  BY DEF AgesBounded, OwnTypes
<1>b. /\ toNext \in Int /\ -MaxLate <= toNext /\ toNext <= Period
      /\ SinceBegin \in Nat /\ SinceBegin = Period - toNext /\ SinceBegin <= Period + MaxLate
      /\ SinceLast \in Nat /\ SinceLast = SinceBegin + Period + Slip
  BY Bounds DEF OwnTypes, SinceBegin, SinceLast
<1>c. \A t \in Tags : t.age \in 0 .. DataCap
  BY DEF Tags
<1>1. ASSUME NEW p \in air, Deliver(p) PROVE AgesBounded'
  <2>1. p.tag \in Tags /\ p.tag.age <= Delay
    BY FlightTag DEF OwnTypes
  <2>2. tags' = Append(tags, p.tag) /\ UNCHANGED <<pc, toNext, gotValid, localTag, haveCommand,
                                                  origin, commandAge, driving, stage>>
    BY <1>1 DEF Deliver, Arrive, clock
  <2>3. \A i \in DOMAIN tags' : tags'[i].age <= Delay + Waited
    <3>1. Delay <= Delay + Waited
      BY <1>b, Bounds
    <3>2. \A i \in DOMAIN tags' : tags'[i] = p.tag \/ (i \in 1 .. Len(tags) /\ tags'[i] = tags[i])
      BY <2>1, <2>2 DEF OwnTypes
    <3>3. p.tag.age <= Delay + Waited
      BY <2>1, <3>1, <1>b, <1>c, Bounds
    <3> QED
      BY <1>a, <3>2, <3>3
  <2> QED
    BY <1>a, <2>2, <2>3 DEF AgesBounded, SinceBegin, SinceLast
<1>g. ASSUME NEW d \in Others, Garble(d) PROVE AgesBounded'
  <2>1. tags' = Append(tags, NoTag) /\ UNCHANGED <<pc, toNext, gotValid, localTag, haveCommand,
                                                  origin, commandAge, driving, stage>>
    BY <1>g DEF Garble, Arrive, clock
  <2>2. NoTag \in Tags /\ NoTag.age = 0
    BY NoTagIsTag DEF NoTag
  <2>3. \A i \in DOMAIN tags' : tags'[i] = NoTag \/ (i \in 1 .. Len(tags) /\ tags'[i] = tags[i])
    BY <2>1, <2>2 DEF OwnTypes
  <2>4. NoTag.age <= Delay + Waited
    BY <1>b, <2>2, Bounds
  <2>5. \A i \in DOMAIN tags' : tags'[i].age <= Delay + Waited
    BY <1>a, <2>3, <2>4
  <2> QED
    BY <1>a, <2>1, <2>5 DEF AgesBounded, SinceBegin, SinceLast
<1>2. CASE Begin
  <2>1. /\ pc = "away" /\ pc' = "poll" /\ ~gotValid' /\ stage = "sleep" /\ stage' = "tick"
        /\ toNext' = (IF toNext < -Period THEN 0 ELSE toNext) + Period
        /\ UNCHANGED <<tags, localTag, haveCommand, origin, commandAge, driving>>
    BY <1>2 DEF Begin, Watch!Wake, Poll
  <2>a. /\ Period \in Nat /\ MaxLate \in Nat /\ Slip \in Nat /\ Delay \in Nat /\ CommandTimeout \in Nat
        /\ (MaxLate > Period => Slip = MaxLate)
    BY Bounds
  <2>b. toNext' \in Int /\ SinceLast' = (Period - toNext') + Period + Slip
    BY <1>b, <2>1, <2>a DEF SinceBegin, SinceLast
  <2>2. SinceBegin <= SinceLast' /\ SinceLast' \in Int
    <3>1. CASE toNext < -Period
      BY <1>b, <2>1, <2>a, <2>b, <3>1
    <3>2. CASE ~(toNext < -Period)
      BY <1>b, <2>1, <2>a, <2>b, <3>2
    <3> QED
      BY <3>1, <3>2
  <2>4. \A i \in DOMAIN tags : tags[i].age <= Delay + SinceLast'
    <3> SUFFICES ASSUME NEW i \in DOMAIN tags PROVE tags[i].age <= Delay + SinceLast'
      OBVIOUS
    <3>1. tags[i].age \in Int /\ tags[i].age <= Delay + SinceBegin
      BY <1>a, <1>c, <2>1 DEF OwnTypes
    <3>2. SinceBegin \in Int /\ Delay \in Int
      BY <1>b, <2>a
    <3> QED
      BY <2>2, <3>1, <3>2
  <2>5. driving => haveCommand /\ origin.age <= CommandTimeout + Delay + ReactionBound + SinceLast'
    <3>1. driving => haveCommand /\ origin.age <= CommandTimeout + Delay + ReactionBound + SinceBegin
      BY <1>a, <2>1
    <3>2. PICK before \in Int, after \in Int, fixed \in Int :
             /\ before = SinceBegin /\ after = SinceLast'
             /\ fixed = CommandTimeout + Delay + ReactionBound
      BY <1>b, <2>2, Bounds
    <3>3. before <= after /\ origin.age \in Int
      BY <1>c, <2>2, <3>2 DEF OwnTypes
    <3>4. origin.age <= fixed + before => origin.age <= fixed + after
      BY <3>2, <3>3
    <3> QED
      BY <3>1, <3>2, <3>4
  <2> QED
    BY <1>a, <2>1, <2>4, <2>5 DEF AgesBounded
<1>3. CASE ReceiveTagged
  <2>1. /\ pc = "poll" /\ pc' = "poll" /\ queue # <<>> /\ tags' = Tail(tags)
        /\ \/ gotValid' = TRUE /\ localTag' = Head(tags)
           \/ gotValid' = gotValid /\ localTag' = localTag
        /\ UNCHANGED <<toNext, stage, haveCommand, origin, commandAge, driving>>
    BY <1>3 DEF ReceiveTagged, Receive, clock
  <2>2. Len(tags) # 0
    BY <2>1 DEF OwnTypes, TypeOK
  <2>3. 1 \in 1 .. Len(tags) /\ Head(tags) = tags[1]
        /\ \A i \in DOMAIN Tail(tags) : i + 1 \in 1 .. Len(tags) /\ Tail(tags)[i] = tags[i + 1]
    BY <2>2 DEF OwnTypes
  <2>4. \A i \in DOMAIN tags' : tags'[i].age <= Delay + SinceLast
    BY <1>a, <2>1, <2>3
  <2>5. gotValid' => localTag'.age <= Delay + SinceLast
    BY <1>a, <2>1, <2>3
  <2> QED
    BY <1>a, <2>1, <2>4, <2>5 DEF AgesBounded, SinceBegin, SinceLast
<1>4. CASE PollReturns
  <2>1. queue = <<>> /\ pc' # "poll"
        /\ UNCHANGED <<tags, toNext, gotValid, localTag, haveCommand, origin, commandAge, driving, stage>>
    BY <1>4 DEF PollReturns, Return, clock
  <2>2. DOMAIN tags = {}
    BY <2>1 DEF OwnTypes
  <2> QED
    BY <1>a, <2>1, <2>2 DEF AgesBounded, SinceBegin, SinceLast
<1>5. CASE StoreStamped
  <2>1. /\ pc = "store" /\ pc' = "away" /\ ~gotValid' /\ origin' = localTag /\ commandAge' = 0
        /\ stage = "tick" /\ haveCommand' = TRUE /\ UNCHANGED <<tags, toNext, driving, stage>>
    BY <1>5 DEF StoreStamped, Watch!Keep, Store
  <2>2. localTag.age <= Delay + SinceLast /\ localTag.age \in Int
    BY <1>a, <1>c, <2>1 DEF TypeOK, OwnTypes
  <2>3. localTag.age <= 0 + Delay + ReactionBound
    BY <1>b, <2>2, Bounds
  <2>4. localTag.age <= CommandTimeout + Delay + ReactionBound + SinceLast
    BY <1>b, <2>2, Bounds
  <2> QED
    BY <1>a, <2>1, <2>3, <2>4 DEF AgesBounded, SinceBegin, SinceLast
<1>6. CASE Decide
  <2>1. /\ stage' = "sleep" /\ (driving' => haveCommand /\ commandAge <= CommandTimeout)
        /\ UNCHANGED <<pc, tags, toNext, gotValid, localTag, haveCommand, origin, commandAge>>
    BY <1>6 DEF Decide, vars, Watch!Decide, Watch!CommandFresh
  <2>2. driving' => origin.age <= CommandTimeout + Delay + ReactionBound + SinceBegin
    <3>1. driving' => commandAge <= CommandTimeout /\ origin.age <= commandAge + Delay + ReactionBound
      BY <1>a, <2>1
    <3>2. origin.age \in Int /\ commandAge \in Int
      BY <1>c DEF OwnTypes
    <3> QED
      BY <1>b, <3>1, <3>2, Bounds
  <2> QED
    BY <1>a, <2>1, <2>2 DEF AgesBounded, SinceBegin, SinceLast
<1>d. CASE Disable
  <2>1. /\ driving' = FALSE
        /\ UNCHANGED <<pc, tags, toNext, gotValid, localTag, haveCommand, origin, commandAge, stage>>
    BY <1>d DEF Disable, Watch!Stop, vars
  <2> QED
    BY <1>a, <2>1 DEF AgesBounded, SinceBegin, SinceLast
<1>7. CASE Tick
  <2>1. /\ toNext' = toNext - 1
        /\ UNCHANGED <<pc, gotValid, haveCommand, driving, stage>>
    BY <1>7 DEF Tick, Watch!Tick, vars, OwnTypes
  <2>2. SinceBegin' = SinceBegin + 1 /\ SinceLast' = SinceLast + 1 /\ Waited' = Waited + 1
        /\ Room' = Room + 1 /\ Waited \in Int /\ Room \in Int
    BY <1>b, <2>1, Bounds DEF SinceBegin, SinceLast
  <2>3. \A i \in DOMAIN tags' : tags'[i].age <= Delay + Waited'
    <3>1. \A i \in 1 .. Len(tags) : Older(tags[i]).age \in Int /\ Older(tags[i]).age <= tags[i].age + 1
      BY <1>a, <1>c, OlderTag
    <3>2. \A i \in 1 .. Len(tags) : Older(tags[i]).age <= Delay + Waited'
      <4> SUFFICES ASSUME NEW i \in 1 .. Len(tags) PROVE Older(tags[i]).age <= Delay + Waited'
        OBVIOUS
      <4>1. tags[i].age \in Int /\ tags[i].age <= Delay + Waited
        BY <1>a, <1>c
      <4>2. Waited \in Int /\ Waited' = Waited + 1 /\ Delay \in Int
        BY <2>2, Bounds
      <4> HIDE DEF Waited
      <4> QED
        BY <3>1, <4>1, <4>2
    <3>3. DOMAIN tags' = 1 .. Len(tags) /\ \A i \in 1 .. Len(tags) : tags'[i] = Older(tags[i])
      BY <1>7 DEF Tick, OwnTypes
    <3> QED
      BY <3>2, <3>3
  <2>4. gotValid' => localTag'.age <= Delay + SinceLast'
    <3> SUFFICES ASSUME gotValid PROVE localTag'.age <= Delay + SinceLast'
      BY <2>1
    <3>1. localTag' = Older(localTag) /\ localTag \in Tags
      BY <1>7 DEF Tick, OwnTypes
    <3>2. localTag'.age \in Int /\ localTag'.age <= localTag.age + 1
      BY <1>c, <3>1, OlderTag
    <3>3. localTag.age \in Int /\ localTag.age <= Delay + SinceLast
      BY <1>a, <1>c, <3>1
    <3>4. SinceLast \in Int /\ SinceLast' = SinceLast + 1 /\ Delay \in Int
      BY <1>b, <2>2, Bounds
    <3> QED
      BY <3>2, <3>3, <3>4
  <2>5. ASSUME haveCommand PROVE origin'.age <= origin.age + 1 /\ origin'.age \in Int /\ origin.age \in Int
    <3>1. origin' = Older(origin) /\ origin \in Tags
      BY <1>7, <2>5 DEF Tick, OwnTypes
    <3> QED
      BY <1>c, <3>1, OlderTag
  <2>6. haveCommand' /\ commandAge' <= CommandTimeout
          => origin'.age <= commandAge' + Delay + ReactionBound
    <3> SUFFICES ASSUME haveCommand, commandAge' <= CommandTimeout
                 PROVE  origin'.age <= commandAge' + Delay + ReactionBound
      BY <2>1
    <3>1. commandAge \in Int /\ CommandTimeout \in Int /\ Delay \in Int /\ ReactionBound \in Int
      BY Bounds DEF OwnTypes
    <3>2. commandAge <= CommandTimeout /\ commandAge' = commandAge + 1
      BY <1>7, <3>1 DEF Tick, Watch!Tick
    <3>3. origin.age <= commandAge + Delay + ReactionBound
      BY <1>a, <3>2
    <3> QED
      BY <2>5, <3>1, <3>2, <3>3
  <2>7. driving' => haveCommand' /\ origin'.age <= Room'
    <3>1. Room \in Int /\ Room' = Room + 1 /\ (driving => haveCommand /\ origin.age <= Room)
      BY <1>a, <2>2
    <3> HIDE DEF Room
    <3> SUFFICES ASSUME driving PROVE haveCommand' /\ origin'.age <= Room'
      BY <2>1
    <3>2. haveCommand /\ haveCommand' /\ origin.age <= Room
      BY <2>1, <3>1
    <3> QED
      BY <2>5, <3>1, <3>2
  <2> QED
    BY <2>3, <2>4, <2>6, <2>7 DEF AgesBounded
<1>8. ASSUME UNCHANGED <<pc, tags, gotValid, localTag, haveCommand, origin, commandAge, driving, toNext, stage>>
      PROVE AgesBounded'
  BY <1>8 DEF AgesBounded, SinceBegin, SinceLast
<1>9. ASSUME NEW s \in Sent, Send(s) PROVE AgesBounded'
  BY <1>8, <1>9 DEF Send, Submit, vars, clock
<1>10. ASSUME NEW d \in Others, Disturb(d) PROVE AgesBounded'
  BY <1>8, <1>10 DEF Disturb, Submit, vars, clock
<1>11. ASSUME NEW p \in air, Lose(p) \/ Inspected(p) PROVE AgesBounded'
  BY <1>8, <1>11 DEF Lose, Inspected, vars, clock
<1>12. CASE Inspect
  BY <1>8, <1>12 DEF Inspect, vars, clock
<1>13. CASE UNCHANGED pathVars
  BY <1>8, <1>13 DEF pathVars, vars, clock
<1> QED
  BY <1>1, <1>g, <1>2, <1>3, <1>4, <1>5, <1>6, <1>d, <1>7, <1>9, <1>10, <1>11, <1>12, <1>13
     DEF PathNext

LEMMA BoundedAgesAreRecent == PathTypeOK /\ AgesBounded => DrivesOnRecentData
<1> SUFFICES ASSUME OwnTypes, AgesBounded, driving PROVE origin.age <= DataBound
  BY OwnTypesSplit DEF DrivesOnRecentData
<1>1. SinceBegin \in Nat /\ SinceBegin <= Period + MaxLate /\ SinceLast = SinceBegin + Period + Slip
  BY Bounds DEF OwnTypes, SinceBegin, SinceLast
<1>2. SinceLast <= ReactionBound /\ SinceBegin <= ReactionBound /\ SinceLast \in Int
  BY <1>1, Bounds
<1>3. origin.age <= CommandTimeout + Delay + ReactionBound
                      + (IF stage = "tick" THEN SinceLast ELSE SinceBegin)
  BY DEF AgesBounded
<1>4. origin.age \in Int
  BY DEF OwnTypes, Tags
<1> QED
  BY <1>1, <1>2, <1>3, <1>4, Bounds

\* A node that drives follows a datagram sent no longer ago than the time-out, the reaction of
\* the watchdog, the delay of the network and one wait in the socket, for every period,
\* lateness, delay and time-out.
THEOREM DataIsRecent == PathSpec => []DrivesOnRecentData
  BY PathTypes, AgesInit, AgesStep, BoundedAgesAreRecent, PTL DEF PathSpec

-----------------------------------------------------------------------------
(* What a stored command means *)

\* A datagram as it is put on the network means what its tag says.
LEMMA MeansWhenSent ==
    /\ \A s \in Sent : Means(NodeDecode(Vector(s)), s)
    /\ \A d \in Others : Valid(d) => Means(NodeDecode(d), FromBytes(d))
<1>1. \A s \in Sent : Means(NodeDecode(Vector(s)), s)
  BY SettingsSurvive, PathAssumption
<1>2. ASSUME NEW d \in Others, Valid(d) PROVE Means(NodeDecode(d), FromBytes(d))
  <2>1. d \in Datagrams
    BY PathAssumption
  <2> QED
    BY <1>2, <2>1, DecodersAgree, DecodeIsCommand, ObservationsAgree
<1> QED
  BY <1>1, <1>2

LEMMA MeaningInit == PathInit => MeaningKept
  BY DEF PathInit, Init, MeaningKept

LEMMA MeaningStep ==
    ASSUME \A d \in Packets : Len(d.floats) <= PacketFloats
    PROVE  PathTypeOK /\ MeaningKept /\ [PathNext]_pathVars => MeaningKept'
<1> SUFFICES ASSUME TypeOK, OwnTypes, MeaningKept, [PathNext]_pathVars PROVE MeaningKept'
  BY OwnTypesSplit
<1> DEFINE Kept(d, m) == Valid(d) => Means(NodeDecode(d), m)
<1>a. /\ \A p \in air : Kept(p.data, p.tag.of)
      /\ \A i \in 1 .. Len(queue) : Kept(queue[i], tags[i].of)
      /\ gotValid => Means(local, localTag.of)
      /\ haveCommand => Means(stored, origin.of)
  BY DEF MeaningKept, TypeOK
<1>b. queue \in Seq(Packets) /\ tags \in Seq(Tags) /\ Len(tags) = Len(queue)
  BY DEF TypeOK, OwnTypes
<1>1. ASSUME NEW s \in Sent, Send(s) PROVE MeaningKept'
  <2>1. air' = air \cup {[data |-> Vector(s), tag |-> [age |-> 0, of |-> s]]}
        /\ UNCHANGED <<queue, tags, gotValid, local, localTag, haveCommand, stored, origin>>
    BY <1>1 DEF Send, Submit, vars
  <2>2. \A p \in air' : Kept(p.data, p.tag.of)
    BY <1>a, <2>1, MeansWhenSent
  <2> QED
    BY <1>a, <1>b, <2>1, <2>2 DEF MeaningKept
<1>2. ASSUME NEW d \in Others, Disturb(d) PROVE MeaningKept'
  <2>1. air' = air \cup {[data |-> d, tag |-> [age |-> 0, of |-> IF Valid(d) THEN FromBytes(d) ELSE Neutral]]}
        /\ UNCHANGED <<queue, tags, gotValid, local, localTag, haveCommand, stored, origin>>
    BY <1>2 DEF Disturb, Submit, vars
  <2>2. \A p \in air' : Kept(p.data, p.tag.of)
    BY <1>a, <2>1, MeansWhenSent
  <2> QED
    BY <1>a, <1>b, <2>1, <2>2 DEF MeaningKept
<1>g. ASSUME NEW d \in Others, Garble(d) PROVE MeaningKept'
  <2>1. /\ d \in Packets /\ ~Valid(Read(d)) /\ Len(d.floats) <= PacketFloats
        /\ queue' = Append(queue, d) /\ tags' = Append(tags, NoTag)
        /\ UNCHANGED <<air, gotValid, local, localTag, haveCommand, stored, origin>>
    BY <1>g, PathAssumption DEF Garble, Arrive
  <2>2. ~Valid(d)
    <3>1. Len(d.floats) \in Nat /\ PacketFloats \in Nat
      BY <2>1, PacketsAssumption, JointsAssumption DEF Datagrams, PacketFloats
    <3> QED
      BY <2>1, <3>1 DEF Read
  <2>3. NoTag \in Tags
    BY NoTagIsTag
  <2>4. \A i \in DOMAIN queue' : \/ queue'[i] = d
                                 \/ i \in 1 .. Len(queue) /\ queue'[i] = queue[i] /\ tags'[i] = tags[i]
    BY <1>b, <2>1, <2>3
  <2>5. \A i \in DOMAIN queue' : Kept(queue'[i], tags'[i].of)
    BY <1>a, <2>2, <2>4
  <2> QED
    BY <1>a, <2>1, <2>5 DEF MeaningKept
<1>3. ASSUME NEW p \in air, Lose(p) \/ Inspected(p) PROVE MeaningKept'
  <2>1. air' \subseteq air
        /\ UNCHANGED <<queue, tags, gotValid, local, localTag, haveCommand, stored, origin>>
    BY <1>3 DEF Lose, Inspected, vars
  <2> QED
    BY <1>a, <1>b, <2>1 DEF MeaningKept
<1>4. ASSUME NEW p \in air, Deliver(p) PROVE MeaningKept'
  <2>1. /\ air' \subseteq air /\ queue' = Append(queue, p.data) /\ tags' = Append(tags, p.tag)
        /\ UNCHANGED <<gotValid, local, localTag, haveCommand, stored, origin>>
    BY <1>4 DEF Deliver, Arrive
  <2>2. p.data \in Packets /\ p.tag \in Tags
    BY FlightTag DEF OwnTypes
  <2>3. \A i \in DOMAIN queue' : \/ queue'[i] = p.data /\ tags'[i] = p.tag
                                 \/ i \in 1 .. Len(queue) /\ queue'[i] = queue[i] /\ tags'[i] = tags[i]
    <3>1. Len(queue) \in Nat /\ DOMAIN queue' = 1 .. Len(queue) + 1
          /\ \A i \in 1 .. Len(queue) + 1 : queue'[i] = IF i <= Len(queue) THEN queue[i] ELSE p.data
      BY <1>b, <2>1, <2>2
    <3>2. \A i \in 1 .. Len(queue) + 1 : tags'[i] = IF i <= Len(queue) THEN tags[i] ELSE p.tag
      BY <1>b, <2>1, <2>2
    <3>3. \A i \in 1 .. Len(queue) + 1 : i <= Len(queue) => i \in 1 .. Len(queue)
      BY <3>1
    <3> TAKE i \in DOMAIN queue'
    <3>4. CASE i <= Len(queue)
      BY <3>1, <3>2, <3>3, <3>4, Zenon
    <3>5. CASE ~(i <= Len(queue))
      <4>1. queue'[i] = p.data
        BY <3>1, <3>5
      <4>2. tags'[i] = p.tag
        BY <3>1, <3>2, <3>5
      <4> QED
        BY <4>1, <4>2
    <3> QED
      BY <3>4, <3>5
  <2>4. \A i \in DOMAIN queue' : Kept(queue'[i], tags'[i].of)
    <3> HIDE DEF Kept
    <3> QED
      BY <1>a, <2>3
  <2> QED
    BY <1>a, <2>1, <2>4 DEF MeaningKept
<1>5. CASE ReceiveTagged
  <2>1. /\ queue # <<>> /\ queue' = Tail(queue) /\ tags' = Tail(tags)
        /\ UNCHANGED <<air, haveCommand, stored, origin>>
    BY <1>5 DEF ReceiveTagged, Receive
  <2>2. Head(queue) = queue[1] /\ Head(tags) = tags[1] /\ 1 \in 1 .. Len(queue)
        /\ queue[1] \in Packets
    BY <1>b, <2>1
  <2>3. queue[1] \in Datagrams /\ Len(queue[1].floats) \in Nat
    BY <2>2, PacketsAssumption DEF Datagrams
  <2>4. PacketFloats \in Nat
    BY JointsAssumption DEF PacketFloats
  <2>5. Read(Head(queue)) = queue[1]
    BY <2>2, <2>3, <2>4 DEF Read
  <2>6. gotValid' => Means(local', localTag'.of)
    <3>1. CASE Valid(queue[1])
      <4>1. local' = NodeDecode(queue[1]) /\ localTag' = tags[1]
        BY <1>5, <2>2, <2>5, <3>1 DEF ReceiveTagged, Receive
      <4> QED
        BY <1>a, <2>2, <3>1, <4>1
    <3>2. CASE ~Valid(queue[1])
      <4>1. local' = local /\ localTag' = localTag /\ gotValid' = gotValid
        BY <1>5, <2>2, <2>5, <3>2 DEF ReceiveTagged, Receive
      <4> QED
        BY <1>a, <4>1
    <3> QED
      BY <3>1, <3>2
  <2>7. \A i \in DOMAIN queue' : i + 1 \in 1 .. Len(queue) /\ queue'[i] = queue[i + 1] /\ tags'[i] = tags[i + 1]
    BY <1>b, <2>1
  <2>8. \A i \in DOMAIN queue' : Kept(queue'[i], tags'[i].of)
    <3> HIDE DEF Kept
    <3> QED
      BY <1>a, <2>7
  <2> QED
    BY <1>a, <2>1, <2>6, <2>8 DEF MeaningKept
<1>6. CASE StoreStamped
  <2>1. /\ gotValid /\ ~gotValid' /\ stored' = local /\ origin' = localTag
        /\ UNCHANGED <<air, queue, tags>>
    BY <1>6 DEF StoreStamped, Watch!Keep, Store, TypeOK
  <2> QED
    BY <1>a, <1>b, <2>1 DEF MeaningKept
<1>7. CASE Begin
  <2>1. ~gotValid' /\ UNCHANGED <<air, queue, tags, haveCommand, stored, origin>>
    BY <1>7 DEF Begin, Poll
  <2> QED
    BY <1>a, <1>b, <2>1 DEF MeaningKept
<1>8. ASSUME UNCHANGED <<air, queue, tags, gotValid, local, localTag, haveCommand, stored, origin>>
      PROVE  MeaningKept'
  BY <1>8 DEF MeaningKept
<1>9. CASE Tick
  <2>1. /\ UNCHANGED <<queue, gotValid, local, haveCommand, stored>>
        /\ localTag' = localTag \/ localTag' = Older(localTag)
        /\ origin' = origin \/ origin' = Older(origin)
    BY <1>9 DEF Tick, Watch!Tick, vars
  <2>2. localTag'.of = localTag.of /\ origin'.of = origin.of
    BY <2>1, OlderTag DEF OwnTypes
  <2>3. \A p \in air' : \E q \in air : p.data = q.data /\ p.tag.of = q.tag.of
    <3>1. \A q \in air : [q EXCEPT !.tag = Older(@)].data = q.data
                        /\ [q EXCEPT !.tag = Older(@)].tag.of = q.tag.of
      BY OlderTag, FlightTag DEF OwnTypes, Flights
    <3> QED
      BY <1>9, <3>1 DEF Tick
  <2>4. \A i \in DOMAIN tags : tags'[i].of = tags[i].of
    BY <1>9, <1>b, OlderTag DEF Tick
  <2>5. \A p \in air' : Kept(p.data, p.tag.of)
    BY <1>a, <2>3
  <2>6. \A i \in DOMAIN queue' : Kept(queue'[i], tags'[i].of)
    BY <1>a, <1>b, <2>1, <2>4
  <2> QED
    BY <1>a, <2>1, <2>2, <2>5, <2>6 DEF MeaningKept
<1>10. CASE Inspect \/ PollReturns \/ Decide \/ Disable \/ UNCHANGED pathVars
  BY <1>8, <1>10 DEF Inspect, PollReturns, Return, Decide, Watch!Decide, Disable, Watch!Stop, pathVars, vars
<1> QED
  BY <1>1, <1>2, <1>g, <1>3, <1>4, <1>5, <1>6, <1>7, <1>9, <1>10 DEF PathNext

\* Whatever is lost, repeated or reordered, for any settings and any other datagrams of at most
\* a packet: the observation the node assembles is the one training makes of one sender's
\* settings, the operator's or another's.
THEOREM SeenAsSent ==
    ASSUME \A d \in Packets : Len(d.floats) <= PacketFloats
    PROVE  PathSpec => []SeesWhatWasSent
<1>1. MeaningKept => SeesWhatWasSent
  BY DEF MeaningKept, Means, SeesWhatWasSent
<1> QED
  BY <1>1, PathTypes, MeaningInit, MeaningStep, PTL DEF PathSpec

=============================================================================
