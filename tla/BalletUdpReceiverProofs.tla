---------------------- MODULE BalletUdpReceiverProofs -----------------------
(***************************************************************************)
(* The node's receiver implements the reference receiver as long as no     *)
(* datagram is longer than a packet, whatever arrives and whenever.        *)
(***************************************************************************)
EXTENDS BalletUdpReceiver, SequenceTheorems, TLAPS

USE JointsAssumption, PacketsAssumption

LEMMA ValidFloats ==
    ASSUME NEW d \in Datagrams, Valid(d)
    PROVE  /\ d.floats \in Seq(Int) /\ Len(d.floats) = 2 * N + 3
           /\ \A i \in 1 .. 2 * N + 3 : d.floats[i] \in Int
<1>1. d.floats \in Seq(Int) /\ Len(d.floats) = 2 * N + 3
  BY DEF Datagrams, Valid, PacketFloats
<1>2. \A i \in 1 .. Len(d.floats) : d.floats[i] \in Int
  BY <1>1, ElementOfSeq
<1> QED
  BY <1>1, <1>2

LEMMA DecodeIsCommand ==
    ASSUME NEW d \in Datagrams, Valid(d)
    PROVE  NodeDecode(d) \in Commands
<1>1. \A i \in 1 .. 2 * N + 3 : d.floats[i] \in Int
  BY ValidFloats
<1>2. \A j \in Joints : d.floats[j] \in Int /\ d.floats[N + j] \in Int
  BY <1>1, JointsAssumption DEF Joints
<1>3. \A i \in 1 .. 3 : d.floats[2 * N + i] \in Int
  BY <1>1, JointsAssumption
<1>4. \A x \in Int : Clip(x) \in -One .. One /\ Binary(x) \in {0, One}
  BY DEF Clip, Binary, One, Half
<1>5. NodeDecode(d).targets \in [Joints -> -One .. One]
  BY <1>2, <1>4 DEF NodeDecode
<1>6. NodeDecode(d).mask \in [Joints -> {0, One}]
  BY <1>2, <1>4 DEF NodeDecode
<1>7. NodeDecode(d).velocity \in [1 .. 3 -> Int]
  BY <1>3 DEF NodeDecode
<1> QED
  BY <1>5, <1>6, <1>7 DEF NodeDecode, Commands

LEMMA NeutralIsCommand == Neutral \in Commands
  BY DEF Neutral, Commands, One

\* Cutting the floats into slices or indexing them: the same command for every number of
\* joints and every valid datagram.
THEOREM DecodersAgree ==
    ASSUME NEW d \in Datagrams, Valid(d)
    PROVE  FromBytes(d) = NodeDecode(d)
<1> DEFINE values == d.floats
<1>0. N \in Nat \ {0}
  BY JointsAssumption
<1>1. values \in Seq(Int) /\ Len(values) = 2 * N + 3 /\ \A i \in 1 .. 2 * N + 3 : values[i] \in Int
  BY ValidFloats
<1> HIDE DEF values
<1>2. \A j \in Joints : SubSeq(values, 1, N)[j] = values[j]
  <2>1. \A j \in 1 .. N - 1 + 1 : SubSeq(values, 1, N)[j] = values[1 + j - 1]
    BY <1>0, <1>1, SubSeqProperties
  <2> QED
    BY <1>0, <2>1 DEF Joints
<1>3. \A j \in Joints : SubSeq(values, N + 1, 2 * N)[j] = values[N + j]
  <2>1. \A j \in 1 .. 2 * N - (N + 1) + 1 : SubSeq(values, N + 1, 2 * N)[j] = values[N + 1 + j - 1]
    BY <1>0, <1>1, SubSeqProperties
  <2> QED
    BY <1>0, <2>1 DEF Joints
<1>4. SubSeq(values, Len(values) - 2, Len(values)) = [i \in 1 .. 3 |-> values[2 * N + i]]
  <2>1. Len(values) - 2 = 2 * N + 1 /\ Len(values) = 2 * N + 3
    BY <1>0, <1>1
  <2> DEFINE tail == SubSeq(values, 2 * N + 1, 2 * N + 3)
  <2>2. /\ tail \in Seq(Int) /\ Len(tail) = 3
        /\ \A i \in 1 .. 2 * N + 3 - (2 * N + 1) + 1 : tail[i] = values[2 * N + 1 + i - 1]
    BY <1>0, <1>1, SubSeqProperties
  <2> HIDE DEF tail
  <2>3. tail \in [1 .. 3 -> Int]
    BY <2>2, LenProperties
  <2>4. \A i \in 1 .. 3 : tail[i] = values[2 * N + i]
    <3> TAKE i \in 1 .. 3
    <3>1. 2 * N + 3 - (2 * N + 1) + 1 = 3 /\ 2 * N + 1 + i - 1 = 2 * N + i
      BY <1>0
    <3> QED
      BY <2>2, <3>1
  <2>5. tail = [i \in 1 .. 3 |-> values[2 * N + i]]
    BY <2>3, <2>4
  <2> QED
    BY <2>1, <2>5 DEF tail
<1>5. [j \in Joints |-> Clip(SubSeq(values, 1, N)[j])] = [i \in Joints |-> Clip(values[i])]
  BY <1>2
<1>6. [j \in Joints |-> Binary(SubSeq(values, N + 1, 2 * N)[j])] = [i \in Joints |-> Binary(values[N + i])]
  BY <1>3
<1> QED
  BY <1>4, <1>5, <1>6 DEF FromBytes, NodeDecode, values

\* recvfrom's buffer holds a packet: what poll sees is a datagram of at most that length.
LEMMA ReadIsDatagram == \A d \in Datagrams : Read(d) \in Datagrams
<1> TAKE d \in Datagrams
<1>0. N \in Nat \ {0} /\ d.floats \in Seq(Int)
  BY JointsAssumption DEF Datagrams
<1>1. CASE Len(d.floats) > PacketFloats
  <2>1. \A i \in 1 .. Len(d.floats) : d.floats[i] \in Int
    BY <1>0, ElementOfSeq
  <2>2. \A i \in 1 .. PacketFloats : d.floats[i] \in Int
    BY <1>0, <1>1, <2>1 DEF PacketFloats
  <2>3. SubSeq(d.floats, 1, PacketFloats) \in Seq(Int)
    BY <1>0, <2>2, SubSeqProperties DEF PacketFloats
  <2> QED
    BY <1>1, <2>3 DEF Read, Datagrams
<1>2. CASE ~(Len(d.floats) > PacketFloats)
  BY <1>2 DEF Read
<1> QED
  BY <1>1, <1>2

LEMMA TypeInit == Init => TypeOK
<1> SUFFICES ASSUME Init PROVE TypeOK
  OBVIOUS
<1>1. queue \in Seq(Packets) /\ Len(queue) <= Capacity
  BY DEF Init
<1>2. pc = "away" /\ gotValid = FALSE /\ haveCommand = FALSE
  BY DEF Init
<1>3. local \in Commands /\ stored \in Commands
  BY NeutralIsCommand DEF Init
<1> QED
  BY <1>1, <1>2, <1>3 DEF TypeOK

LEMMA TypeStep == TypeOK /\ [Next]_vars => TypeOK'
<1> SUFFICES ASSUME TypeOK, [Next]_vars PROVE TypeOK'
  OBVIOUS
<1> USE DEF TypeOK
<1>1. ASSUME NEW d \in Packets, Arrive(d) PROVE TypeOK'
  BY <1>1 DEF Arrive
<1>2. CASE Poll
  BY <1>2, NeutralIsCommand DEF Poll
<1>3. CASE Receive
  <2>1. Head(queue) \in Packets /\ Tail(queue) \in Seq(Packets) /\ Len(Tail(queue)) <= Capacity
    BY <1>3 DEF Receive
  <2>2. Valid(Read(Head(queue))) => NodeDecode(Read(Head(queue))) \in Commands
    BY <2>1, ReadIsDatagram, DecodeIsCommand
  <2> QED
    BY <1>3, <2>1, <2>2 DEF Receive
<1>4. CASE Return
  BY <1>4 DEF Return
<1>5. CASE Store
  BY <1>5, NeutralIsCommand DEF Store
<1>6. CASE UNCHANGED vars
  BY <1>6 DEF vars
<1> QED
  BY <1>1, <1>2, <1>3, <1>4, <1>5, <1>6 DEF Next

\* The receive queue, the caller's arrays and the shared command keep their types; every
\* command that is stored is clipped and has a binary mask.
THEOREM ReceiverTypes == Spec => []TypeOK
  BY TypeInit, TypeStep, PTL DEF Spec

\* With datagrams of at most one packet, each step of the node's receiver is a step of the
\* reference receiver or changes nothing it shows: the last-value semantics match.
THEOREM NodeMatchesReference ==
    ASSUME \A d \in Packets : Len(d.floats) <= PacketFloats
    PROVE  Spec => MatchesReference
<1>1. Init => Reference!Init
  BY DEF Init, Reference!Init, RefPc, RefCommand, Neutral, Joints, Reference!Neutral,
         Reference!Joints
<1>2. TypeOK /\ [Next]_vars => [Reference!Next]_(Reference!vars)
  <2> SUFFICES ASSUME TypeOK, [Next]_vars PROVE [Reference!Next]_(Reference!vars)
    OBVIOUS
  <2> USE DEF Reference!Next, Reference!vars, RefPc, RefCommand, TypeOK
  <2>1. ASSUME NEW d \in Packets, Arrive(d) PROVE Reference!Arrive(d)
    BY <2>1 DEF Arrive, Reference!Arrive
  <2>2. CASE Poll
    BY <2>2 DEF Poll, Reference!Poll
  <2>3. CASE Receive
    <3>1. Head(queue) \in Packets
      BY <2>3 DEF Receive, TypeOK
    <3>2. Head(queue) \in Datagrams /\ Read(Head(queue)) = Head(queue)
      <4>1. Head(queue) \in Datagrams
        BY <3>1
      <4>2. Len(Head(queue).floats) \in Int /\ PacketFloats \in Int
        BY <4>1 DEF Datagrams, PacketFloats
      <4>3. ~(Len(Head(queue).floats) > PacketFloats)
        BY <3>1, <4>2
      <4> QED
        BY <4>1, <4>3 DEF Read
    <3>3. Valid(Head(queue)) => Reference!FromBytes(Head(queue)) = NodeDecode(Head(queue))
      <4>1. Reference!FromBytes(Head(queue)) = FromBytes(Head(queue))
        BY DEF FromBytes, Clip, Binary, Half, One, Joints, Reference!FromBytes, Reference!Clip,
               Reference!Binary, Reference!Half, Reference!One, Reference!Joints
      <4> QED
        BY <3>2, <4>1, DecodersAgree
    <3>4. Reference!Valid(Head(queue)) <=> Valid(Head(queue))
      BY DEF Valid, PacketFloats, Reference!Valid, Reference!PacketFloats
    <3>6. RefPc = "poll" /\ RefPc' = "poll"
      BY <2>3 DEF Receive
    <3>7. RefCommand' = IF Valid(Head(queue)) THEN NodeDecode(Head(queue)) ELSE RefCommand
      BY <2>3, <3>2 DEF Receive
    <3>8. queue # <<>> /\ queue' = Tail(queue)
      BY <2>3 DEF Receive
    <3>9. Reference!Receive
      BY <3>3, <3>4, <3>6, <3>7, <3>8 DEF Reference!Receive
    <3> QED
      BY <3>9
  <2>4. CASE Return
    BY <2>4 DEF Return, Reference!Return
  <2>5. CASE Store
    BY <2>5 DEF Store
  <2>6. CASE UNCHANGED vars
    BY <2>6 DEF vars
  <2> QED
    BY <2>1, <2>2, <2>3, <2>4, <2>5, <2>6 DEF Next
<1> QED
  BY <1>1, <1>2, ReceiverTypes, PTL DEF Spec, MatchesReference, Reference!Spec

-----------------------------------------------------------------------------
(* The newest valid datagram *)

LastValid(q, d) ==
    \E i \in 1 .. Len(q) : Valid(q[i]) /\ q[i] = d /\ \A j \in i + 1 .. Len(q) : ~Valid(q[j])

NoneValid(q) == \A i \in 1 .. Len(q) : ~Valid(q[i])

\* Where the newest valid datagram is: it waits in the queue with no valid one behind it, or
\* it is what the caller's arrays hold, or what is stored.
NewestInv ==
    newest # Nothing =>
        \/ LastValid(queue, newest)
        \/ /\ NoneValid(queue)
           /\ IF gotValid THEN local = NodeDecode(newest)
                          ELSE haveCommand /\ stored = NodeDecode(newest)

LEMMA LastValidAppend ==
    ASSUME NEW q \in Seq(Packets), NEW d \in Packets, NEW e
    PROVE  /\ Valid(d) => LastValid(Append(q, d), d)
           /\ ~Valid(d) /\ LastValid(q, e) => LastValid(Append(q, d), e)
           /\ ~Valid(d) /\ NoneValid(q) => NoneValid(Append(q, d))
<1> DEFINE r == Append(q, d)
<1>1. /\ Len(q) \in Nat /\ Len(r) = Len(q) + 1 /\ r[Len(q) + 1] = d
      /\ \A i \in 1 .. Len(q) : r[i] = q[i]
  OBVIOUS
<1> HIDE DEF r
<1>2. Valid(d) => LastValid(r, d)
  BY <1>1 DEF LastValid
<1>3. ASSUME ~Valid(d), LastValid(q, e) PROVE LastValid(r, e)
  <2>1. PICK i \in 1 .. Len(q) : Valid(q[i]) /\ q[i] = e /\ \A j \in i + 1 .. Len(q) : ~Valid(q[j])
    BY <1>3 DEF LastValid
  <2>2. ASSUME NEW j \in i + 1 .. Len(r) PROVE ~Valid(r[j])
    BY <1>1, <1>3, <2>1
  <2>3. i \in 1 .. Len(r) /\ Valid(r[i]) /\ r[i] = e
    BY <1>1, <2>1
  <2> QED
    BY <2>2, <2>3 DEF LastValid
<1>4. ~Valid(d) /\ NoneValid(q) => NoneValid(r)
  BY <1>1 DEF NoneValid
<1> QED
  BY <1>2, <1>3, <1>4 DEF r

LEMMA LastValidTail ==
    ASSUME NEW q \in Seq(Packets), q # <<>>, NEW e
    PROVE  /\ LastValid(q, e) => \/ LastValid(Tail(q), e)
                                 \/ Valid(Head(q)) /\ Head(q) = e /\ NoneValid(Tail(q))
           /\ NoneValid(q) => ~Valid(Head(q)) /\ NoneValid(Tail(q))
<1> DEFINE r == Tail(q)
<1>1. /\ Len(q) \in Nat \ {0} /\ Len(r) = Len(q) - 1 /\ Head(q) = q[1]
      /\ \A i \in 1 .. Len(r) : r[i] = q[i + 1]
  OBVIOUS
<1> HIDE DEF r
<1>2. ASSUME LastValid(q, e)
      PROVE  LastValid(r, e) \/ (Valid(Head(q)) /\ Head(q) = e /\ NoneValid(r))
  <2>1. PICK i \in 1 .. Len(q) : Valid(q[i]) /\ q[i] = e /\ \A j \in i + 1 .. Len(q) : ~Valid(q[j])
    BY <1>2 DEF LastValid
  <2>2. CASE i = 1
    <3>1. ASSUME NEW j \in 1 .. Len(r) PROVE ~Valid(r[j])
      BY <1>1, <2>1, <2>2
    <3> QED
      BY <1>1, <2>1, <2>2, <3>1 DEF NoneValid
  <2>3. CASE i # 1
    <3>1. PICK k \in 1 .. Len(r) : k = i - 1
      BY <1>1, <2>3
    <3>2. r[k] = q[i]
      BY <1>1, <3>1
    <3>3. ASSUME NEW j \in k + 1 .. Len(r) PROVE ~Valid(r[j])
      BY <1>1, <2>1, <3>1
    <3>4. Valid(r[k]) /\ r[k] = e
      BY <2>1, <3>2
    <3> QED
      BY <3>3, <3>4 DEF LastValid
  <2> QED
    BY <2>2, <2>3
<1>3. NoneValid(q) => ~Valid(Head(q)) /\ NoneValid(r)
  BY <1>1 DEF NoneValid
<1> QED
  BY <1>2, <1>3 DEF r

LEMMA NewestStep ==
    ASSUME \A d \in Packets : Len(d.floats) <= PacketFloats
    PROVE  TypeOK /\ NewestInv /\ [Next]_vars => NewestInv'
<1> SUFFICES ASSUME TypeOK, NewestInv, [Next]_vars PROVE NewestInv'
  OBVIOUS
<1>1. ASSUME NEW d \in Packets, Arrive(d) PROVE NewestInv'
  <2>1. queue \in Seq(Packets) /\ queue' = Append(queue, d)
    BY <1>1 DEF TypeOK, Arrive
  <2>2. CASE Valid(d)
    BY <1>1, <2>1, <2>2, LastValidAppend DEF NewestInv, Arrive
  <2>3. CASE ~Valid(d)
    <3>1. newest' = newest /\ UNCHANGED <<gotValid, local, haveCommand, stored>>
      BY <1>1, <2>3 DEF Arrive
    <3>2. /\ LastValid(queue, newest) => LastValid(queue', newest)
          /\ NoneValid(queue) => NoneValid(queue')
      BY <2>1, <2>3, LastValidAppend
    <3> QED
      BY <3>1, <3>2 DEF NewestInv
  <2> QED
    BY <2>2, <2>3
<1>2. CASE Poll
  BY <1>2 DEF Poll, NewestInv, TypeOK
<1>3. CASE Receive
  <2>1. queue \in Seq(Packets) /\ queue # <<>> /\ queue' = Tail(queue) /\ newest' = newest
        /\ UNCHANGED <<haveCommand, stored>>
    BY <1>3 DEF TypeOK, Receive
  <2>2. Read(Head(queue)) = Head(queue)
    <3>1. Head(queue) \in Packets
      BY <2>1
    <3>2. Len(Head(queue).floats) \in Int /\ PacketFloats \in Int
      BY <3>1 DEF Datagrams, PacketFloats
    <3> QED
      BY <3>1, <3>2 DEF Read
  <2>3. IF Valid(Head(queue)) THEN gotValid' = TRUE /\ local' = NodeDecode(Head(queue))
                              ELSE UNCHANGED <<gotValid, local>>
    BY <1>3, <2>2 DEF Receive
  <2>4. /\ LastValid(queue, newest) =>
              \/ LastValid(queue', newest)
              \/ Valid(Head(queue)) /\ Head(queue) = newest /\ NoneValid(queue')
        /\ NoneValid(queue) => ~Valid(Head(queue)) /\ NoneValid(queue')
    BY <2>1, LastValidTail
  <2> QED
    BY <2>1, <2>3, <2>4 DEF NewestInv
<1>4. CASE Return
  BY <1>4 DEF Return, NewestInv
<1>5. CASE Store
  BY <1>5 DEF Store, NewestInv, TypeOK
<1>6. CASE UNCHANGED vars
  BY <1>6 DEF vars, NewestInv
<1> QED
  BY <1>1, <1>2, <1>3, <1>4, <1>5, <1>6 DEF Next

\* With datagrams of at most one packet, a poll ends with the newest valid datagram that has
\* reached the socket in hand or in store, malformed and late ones notwithstanding.
THEOREM NewestStays ==
    ASSUME \A d \in Packets : Len(d.floats) <= PacketFloats
    PROVE  Spec => NewestIsStored
<1> DEFINE Kept == pc = "poll" /\ pc' # "poll" /\ newest # Nothing =>
                      IF gotValid THEN local = NodeDecode(newest)
                                  ELSE haveCommand /\ stored = NodeDecode(newest)
<1>1. Init => NewestInv
  BY DEF Init, NewestInv
<1>2. TypeOK /\ NewestInv /\ [Next]_vars => [Kept]_vars
  <2> SUFFICES ASSUME TypeOK, NewestInv, Next, pc = "poll", pc' # "poll", newest # Nothing
               PROVE  IF gotValid THEN local = NodeDecode(newest)
                                  ELSE haveCommand /\ stored = NodeDecode(newest)
    OBVIOUS
  <2>1. queue = <<>>
    BY DEF Next, Arrive, Poll, Receive, Return, Store
  <2>2. ~LastValid(queue, newest)
    BY <2>1 DEF LastValid
  <2> QED
    BY <2>2 DEF NewestInv
<1> QED
  BY <1>1, <1>2, NewestStep, ReceiverTypes, PTL DEF Spec, NewestIsStored
=============================================================================
