------------------------- MODULE NodeDeadlinesProofs -------------------------
(***************************************************************************)
(* By when the node answers an enable request and ends its policy thread,  *)
(* for every period, lateness, timeout and ramp.  The inductive invariant  *)
(* of BalletNode holds, since the clocks are read by no action; DeadlineInv*)
(* is added to it.                                                         *)
(***************************************************************************)
EXTENDS NodeDeadlines, BalletNodeProofs

LEMMA TimedStepIsStep == [TimedNext]_timedVars => [Next]_vars
  BY DEF TimedNext, Elapses, Steps, timedVars, Next, World

LEMMA DeadlinesAreNat ==
    /\ Period \in Nat /\ Period > 0 /\ MaxLate \in Nat /\ RampTime \in Nat /\ RampTime > 0
    /\ Slip \in Nat /\ MaxLate <= Period + Slip /\ (MaxLate > Period => Slip = MaxLate)
    /\ ReactionBound \in Nat /\ ReactionBound = 2 * Period + MaxLate + Slip
    /\ EnableBound \in Nat /\ EnableBound = ReactionBound + (RampTime - 1) + ReactionBound
    /\ JoinBound \in Nat /\ JoinBound = Period + MaxLate
<1>1. Period \in Nat /\ Period > 0 /\ MaxLate \in Nat /\ RampTime \in Nat /\ RampTime > 0
  BY ClockAssumption
<1>2. Slip \in Nat /\ MaxLate <= Period + Slip /\ (MaxLate > Period => Slip = MaxLate)
  BY <1>1 DEF Slip
<1>3. ReactionBound \in Nat /\ ReactionBound = 2 * Period + MaxLate + Slip
  BY <1>1, <1>2 DEF ReactionBound
<1> QED
  BY <1>1, <1>2, <1>3 DEF EnableBound, JoinBound

\* The policy thread is never further behind its deadline than it may be.
LEMMA TickProgress ==
    TypeOK => /\ SinceBegin \in Nat /\ SinceBegin <= JoinBound
              /\ SinceLast = SinceBegin + Period + Slip /\ SinceLast <= ReactionBound
  BY DeadlinesAreNat DEF TypeOK, PolicyType, SinceBegin, SinceLast

LEMMA DeadlineInit == TimedInit => DeadlineInv
<1> SUFFICES ASSUME TimedInit PROVE DeadlineInv
  OBVIOUS
<1>1. unanswered = 0 /\ joining = 0 /\ ~Unanswered /\ ~Joining
  BY DEF TimedInit, Init, Unanswered, Joining
<1> QED
  BY <1>1, DeadlinesAreNat DEF DeadlineInv

\* Where the bounds of DeadlineInv hold, the clocks are below their caps.
LEMMA WithinBounds ==
    TypeOK /\ SessionInv /\ DeadlineInv =>
        /\ Unanswered => unanswered <= EnableBound
        /\ Joining => joining <= JoinBound
<1> SUFFICES ASSUME TypeOK, SessionInv, DeadlineInv
             PROVE  /\ Unanswered => unanswered <= EnableBound
                    /\ Joining => joining <= JoinBound
  OBVIOUS
<1>1. /\ SinceBegin \in Nat /\ SinceBegin <= JoinBound
      /\ SinceLast = SinceBegin + Period + Slip /\ SinceLast <= ReactionBound
  BY TickProgress
<1>2. rampAge \in 0 .. RampTime /\ unanswered \in Int
  BY DEF TypeOK, MemType, DeadlineInv
<1>3. ASSUME Unanswered PROVE unanswered <= EnableBound
  <2>1. CASE phase = "Idle"
    BY <1>1, <1>2, <1>3, <2>1, DeadlinesAreNat DEF DeadlineInv, IdleInv
  <2>2. CASE phase = "Ramping"
    BY <1>1, <1>2, <1>3, <2>2, DeadlinesAreNat DEF DeadlineInv, RampingInv
  <2> QED
    BY <1>3, <2>1, <2>2 DEF Unanswered, TypeOK, MemType, Phases
<1>4. Joining => joining <= JoinBound
  BY <1>1, DeadlinesAreNat DEF DeadlineInv
<1> QED
  BY <1>3, <1>4

-----------------------------------------------------------------------------
(* The join *)

JoinInv ==
    /\ joining \in 0 .. JoinBound + 1 /\ (~Joining => joining = 0)
    /\ Joining => joining <= SinceBegin

LEMMA JoinStep == IInv /\ JoinInv /\ [TimedNext]_timedVars => JoinInv'
<1> SUFFICES ASSUME IInv, JoinInv, [TimedNext]_timedVars PROVE JoinInv'
  OBVIOUS
<1>t. toNext \in -MaxLate .. Period /\ running \in BOOLEAN
  BY DEF IInv, TypeOK, PolicyType
<1> USE <1>t, DeadlinesAreNat DEF JoinInv, Joining, SinceBegin, policy, GoTo
<1>1. CASE Elapses
  BY <1>1 DEF Elapses, Tick, Older
<1>2. CASE Steps
  <2> joining' = IF Joining' THEN joining ELSE 0
    BY <1>2 DEF Steps
  <2>1. CASE Executor
    BY <2>1 DEF Executor, OnLowState, OnEnable, LowcmdSnapshot, LowcmdPublish, Shutdown
  <2>2. CASE Begin
    BY <2>2 DEF Begin
  <2>3. CASE LoopExit \/ Poll \/ StoreCommand \/ Snapshot \/ CheckSkips \/ CheckFails
    BY <2>3 DEF LoopExit, Poll, StoreCommand, Snapshot, CheckSkips, CheckFails
  <2>4. CASE CheckProceeds \/ FailSafe \/ Arm \/ Ramp \/ Commit
    BY <2>4 DEF CheckProceeds, FailSafe, Arm, Ramp, Commit
  <2>5. CASE DatagramArrives \/ RivalsChange
    BY <2>5 DEF DatagramArrives, RivalsChange
  <2> QED
    BY <1>2, <2>1, <2>2, <2>3, <2>4, <2>5 DEF Steps, PolicyThread
<1>3. CASE UNCHANGED timedVars
  BY <1>3 DEF timedVars, vars
<1> QED
  BY <1>1, <1>2, <1>3 DEF TimedNext

-----------------------------------------------------------------------------
(* The answer to a request *)

AnswerInv ==
    /\ unanswered \in 0 .. EnableBound + 1 /\ (~Unanswered => unanswered = 0)
    /\ Unanswered => IdleInv /\ RampingInv

\* A step that lets no time pass leaves the clock alone or resets it.
LEMMA StepsKeepClock ==
    Steps => \/ Unanswered' /\ unanswered' = unanswered
             \/ ~Unanswered' /\ unanswered' = 0
  BY DEF Steps

LEMMA AnswerStep == IInv /\ AnswerInv /\ [TimedNext]_timedVars => AnswerInv'
<1> SUFFICES ASSUME IInv, AnswerInv, [TimedNext]_timedVars PROVE AnswerInv'
  OBVIOUS
<1>t. /\ toNext \in -MaxLate .. Period /\ running \in BOOLEAN /\ requested \in BOOLEAN
      /\ haveState \in BOOLEAN /\ phase \in Phases /\ snap.phase \in Phases
      /\ rampAge \in 0 .. RampTime /\ planAge \in 0 .. RampTime
      /\ ppc \in {"sleep", "poll", "store", "snapshot", "check", "fail",
                  "arm", "ramp", "commit", "done"}
  BY DEF IInv, TypeOK, MemType, PolicyType, Snaps
<1>p. PhaseInv /\ ThreadsInv
  BY DEF IInv, SessionInv
<1>b. /\ SinceBegin \in Nat /\ SinceBegin = Period - toNext
      /\ SinceLast = SinceBegin + Period + Slip /\ SinceLast <= ReactionBound
  BY TickProgress DEF IInv, SinceBegin
<1>c. 0 \in 0 .. EnableBound + 1
  BY DeadlinesAreNat
<1>q. SinceBegin' = Period - toNext' /\ SinceLast' = SinceBegin' + Period + Slip
  BY DEF SinceBegin, SinceLast
<1>1. CASE Elapses
  <2>1. CASE ~Unanswered
    BY <1>1, <2>1, <1>c DEF Elapses, Tick, AnswerInv, Unanswered
  <2>2. CASE Unanswered
    <3>1. /\ toNext' = toNext - 1
          /\ UNCHANGED <<ppc, phase, requested, haveState, running>>
          /\ rampAge' = Older(rampAge, RampTime) /\ Unanswered'
          /\ ppc = "ramp" => planAge' = planAge
      BY <1>1, <2>2, <1>p DEF Elapses, Tick, Unanswered, ThreadsInv
    <3>2. unanswered' \in 0 .. EnableBound + 1 /\ unanswered' <= unanswered + 1
      BY <1>1, <2>2, DeadlinesAreNat DEF Elapses, Older, AnswerInv
    <3>3. ppc = "check" => CopyShowsRequest' = CopyShowsRequest
      BY <1>1 DEF Elapses, Tick, CopyShowsRequest, IInv, TypeOK, PolicyType, Snaps
    <3>4. SinceBegin' = SinceBegin + 1 /\ SinceLast' = SinceLast + 1
      BY <3>1, <1>t, <1>b, <1>q, DeadlinesAreNat
    <3>5. IdleInv'
      BY <2>2, <3>1, <3>2, <3>3, <3>4, <1>b, DeadlinesAreNat DEF AnswerInv, IdleInv
    <3>6. RampingInv'
      BY <2>2, <3>1, <3>2, <3>4, <1>t, <1>b, DeadlinesAreNat DEF AnswerInv, RampingInv, Older
    <3> QED
      BY <3>1, <3>2, <3>5, <3>6 DEF AnswerInv
  <2> QED
    BY <2>1, <2>2
<1>2. CASE Steps
  <2>1. CASE ~Unanswered'
    BY <1>2, <2>1, <1>c, StepsKeepClock DEF AnswerInv
  <2> SUFFICES ASSUME Unanswered' PROVE IdleInv' /\ RampingInv'
    BY <1>2, <2>1, StepsKeepClock DEF AnswerInv
  <2>2. unanswered' = unanswered /\ unanswered \in Nat
    BY <1>2, StepsKeepClock DEF AnswerInv
  <2>3. ~Unanswered => unanswered = 0
    BY DEF AnswerInv
  <2> USE <1>t, <1>b, <1>q, <2>2, <2>3, DeadlinesAreNat
      DEF AnswerInv, IdleInv, RampingInv, Unanswered, CopyShowsRequest, session, inputs, mem,
          policy, GoTo
  <2>4. ASSUME NEW r \in Reports, OnLowState(r) PROVE IdleInv' /\ RampingInv'
    BY <2>4 DEF OnLowState
  <2>5. ASSUME NEW b \in BOOLEAN, OnEnable(b) PROVE IdleInv' /\ RampingInv'
    BY <2>5 DEF OnEnable
  <2>6. CASE LowcmdSnapshot \/ LowcmdPublish \/ Shutdown
    BY <2>6 DEF LowcmdSnapshot, LowcmdPublish, Shutdown
  <2>7. CASE Begin
    BY <2>7 DEF Begin
  <2>8. CASE LoopExit \/ Poll \/ StoreCommand
    BY <2>8 DEF LoopExit, Poll, StoreCommand
  <2>9. CASE Snapshot
    BY <2>9 DEF Snapshot
  <2>10. CASE CheckSkips
    BY <2>10, <1>p DEF CheckSkips, PhaseInv
  <2>11. CASE CheckFails
    BY <2>11 DEF CheckFails
  <2>12. CASE CheckProceeds
    BY <2>12, <1>p DEF CheckProceeds, PhaseInv
  <2>13. CASE FailSafe
    BY <2>13 DEF FailSafe
  <2>14. CASE Arm
    BY <2>14, <1>p DEF Arm, PhaseInv
  <2>15. CASE Ramp
    BY <2>15 DEF Ramp
  <2>16. CASE Commit
    BY <2>16, <1>p DEF Commit, PhaseInv
  <2>17. CASE DatagramArrives \/ RivalsChange
    BY <2>17 DEF DatagramArrives, RivalsChange
  <2> QED
    BY <1>2, <2>4, <2>5, <2>6, <2>7, <2>8, <2>9, <2>10, <2>11, <2>12, <2>13, <2>14, <2>15,
       <2>16, <2>17 DEF Steps, Executor, PolicyThread
<1>3. CASE UNCHANGED timedVars
  BY <1>3 DEF timedVars, vars, mem, session, policy, AnswerInv, Unanswered, IdleInv, RampingInv,
     CopyShowsRequest, SinceBegin, SinceLast
<1> QED
  BY <1>1, <1>2, <1>3 DEF TimedNext

-----------------------------------------------------------------------------
(* The theorems *)

LEMMA TimedInvariance == TimedSpec => [](IInv /\ DeadlineInv)
<1>1. TimedInit => IInv /\ DeadlineInv
  BY DeadlineInit, TypeInit, SessionInit, TargetInit, RampClockInit, FaultInit
     DEF TimedInit, IInv
<1>2. IInv /\ DeadlineInv /\ [TimedNext]_timedVars => IInv' /\ DeadlineInv'
  <2>1. IInv /\ [TimedNext]_timedVars => IInv'
    BY TimedStepIsStep, TypeStep, SessionStep, TargetStep, RampClockStep, FaultStep DEF IInv
  <2>2. DeadlineInv <=> JoinInv /\ AnswerInv
    BY DEF DeadlineInv, JoinInv, AnswerInv
  <2>3. DeadlineInv' <=> JoinInv' /\ AnswerInv'
    BY DEF DeadlineInv, JoinInv, AnswerInv
  <2> QED
    BY <2>1, <2>2, <2>3, JoinStep, AnswerStep
<1> QED
  BY <1>1, <1>2, PTL DEF TimedSpec

\* An enable request is answered within EnableBound, for every period, lateness and ramp: the
\* deadline behind the liveness property EnableResolves.
THEOREM EnableIsAnswered == TimedSpec => []EnableAnswered
<1>1. IInv /\ DeadlineInv => EnableAnswered
  BY WithinBounds DEF IInv, EnableAnswered
<1> QED
  BY <1>1, TimedInvariance, PTL

\* The destructor's join waits for one late tick at most: the deadline behind the liveness
\* property StopsOnShutdown.
THEOREM JoinIsBounded == TimedSpec => []JoinReturns
<1>1. IInv /\ DeadlineInv => JoinReturns
  BY WithinBounds DEF IInv, JoinReturns
<1> QED
  BY <1>1, TimedInvariance, PTL
=============================================================================
