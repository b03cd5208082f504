-------------------------- MODULE BalletNodeProofs --------------------------
(***************************************************************************)
(* Proofs about BalletNode, for every value of its constants.              *)
(*                                                                         *)
(* The inductive invariant IInv is proved part by part: each lemma below   *)
(* shows that a step keeps one part, with one step per action under it.    *)
(* The parts are ordered so that each needs only those before it.          *)
(***************************************************************************)
EXTENDS BalletNode, TLAPS

USE ClockAssumption, SupervisorAssumption

\* An age that saturates stays in its range, does not fall and grows by one at most.
LEMMA OlderRange ==
    ASSUME NEW cap \in Nat, NEW age \in 0 .. cap
    PROVE  /\ Older(age, cap) \in 0 .. cap
           /\ age <= Older(age, cap) /\ Older(age, cap) <= age + 1
  BY DEF Older

\* The same for the ages the node keeps, each with the cap Tick gives it.
LEMMA OlderAges ==
    /\ \A a \in StateAges : Older(a, StateTimeout + 1) \in StateAges
    /\ \A a \in CommandAges : Older(a, CommandTimeout + 1) \in CommandAges
    /\ \A a \in 0 .. RampTime : Older(a, RampTime) \in 0 .. RampTime
  BY DEF Older, StateAges, CommandAges

\* The bounds the constants build are natural numbers.
LEMMA BoundsAreNat == ReactionBound \in Nat /\ FaultCap \in Nat /\ Slip \in Nat
  BY DEF ReactionBound, FaultCap, Slip

-----------------------------------------------------------------------------
(* Types *)

LEMMA TypeInit == Init => TypeOK
<1> SUFFICES ASSUME Init PROVE TypeOK
  OBVIOUS
<1>1. MemType
  <2>1. lowState \in AllReports /\ phase \in Phases /\ {rampQ0, qDesired} \subseteq Targets
    BY DEF Init, AllReports, Phases, Targets
  <2>2. stateAge \in StateAges /\ commandAge \in CommandAges /\ rampAge \in 0 .. RampTime
    BY DEF Init, StateAges, CommandAges
  <2>3. haveState \in BOOLEAN /\ haveCommand \in BOOLEAN /\ requested \in BOOLEAN
        /\ everArmed \in BOOLEAN /\ lastAction \in {"zero", "actor"}
    BY DEF Init
  <2> QED
    BY <2>1, <2>2, <2>3 DEF MemType
<1>2. PolicyType
  BY DEF Init, PolicyType, Snaps, NoSnap, AllReports, Phases, Targets, StateAges
<1>3. ExecType
  BY DEF Init, ExecType, Views, NoView, Frames, Silent, Phases, Targets, StateAges
<1>4. inbox \in BOOLEAN /\ rivals \in BOOLEAN /\ running \in BOOLEAN /\ operator \in BOOLEAN
  BY DEF Init
<1>5. watched \in Causes /\ faultAge \in 0 .. FaultCap
  BY BoundsAreNat DEF Init
<1> QED
  BY <1>1, <1>2, <1>3, <1>4, <1>5 DEF TypeOK

\* What is written under mu_.
LEMMA MemTypeStep == TypeOK /\ [Next]_vars => MemType'
<1> SUFFICES ASSUME TypeOK, [Next]_vars PROVE MemType'
  OBVIOUS
<1> USE DEF TypeOK, PolicyType, MemType, mem, session, inputs
<1>1. ASSUME NEW r \in Reports, OnLowState(r) PROVE MemType'
  BY <1>1 DEF OnLowState, StateAges
<1>2. ASSUME NEW b \in BOOLEAN, OnEnable(b) PROVE MemType'
  BY <1>2 DEF OnEnable, Phases
<1>3. CASE LowcmdSnapshot \/ LowcmdPublish \/ Shutdown
  BY <1>3 DEF LowcmdSnapshot, LowcmdPublish, Shutdown
<1>4. CASE Begin \/ LoopExit \/ Poll \/ Snapshot
  BY <1>4 DEF Begin, LoopExit, Poll, Snapshot
<1>5. CASE CheckSkips \/ CheckFails \/ CheckProceeds
  BY <1>5 DEF CheckSkips, CheckFails, CheckProceeds
<1>6. CASE StoreCommand
  BY <1>6 DEF StoreCommand, CommandAges
<1>7. CASE FailSafe
  BY <1>7 DEF FailSafe, Phases
<1>8. CASE Arm
  BY <1>8 DEF Arm, Phases
<1>9. CASE Ramp \/ Commit
  BY <1>9 DEF Ramp, Commit, Phases
<1>10. CASE DatagramArrives \/ RivalsChange
  BY <1>10 DEF DatagramArrives, RivalsChange
<1>11. CASE Tick
  <2>1. Older(stateAge, StateTimeout + 1) \in StateAges
    BY OlderAges
  <2>2. Older(commandAge, CommandTimeout + 1) \in CommandAges
    BY OlderAges
  <2>3. Older(rampAge, RampTime) \in 0 .. RampTime
    BY OlderAges
  <2> QED
    BY <1>11, <2>1, <2>2, <2>3 DEF Tick
<1>12. CASE UNCHANGED vars
  BY <1>12 DEF vars
<1> QED
  BY <1>1, <1>2, <1>3, <1>4, <1>5, <1>6, <1>7, <1>8, <1>9, <1>10, <1>11, <1>12
     DEF Next, Executor, PolicyThread, World

\* The policy thread's place, its deadline and its copies.
LEMMA PolicyTypeStep == TypeOK /\ [Next]_vars => PolicyType'
<1> SUFFICES ASSUME TypeOK, [Next]_vars PROVE PolicyType'
  OBVIOUS
<1> USE DEF TypeOK, MemType, PolicyType, policy, GoTo
<1>1. NoSnap \in Snaps /\ "zero" \in Targets /\ 0 \in 0 .. RampTime
  BY DEF NoSnap, Snaps, AllReports, Phases, Targets, StateAges
<1>2. CASE Executor
  BY <1>2 DEF Executor, OnLowState, OnEnable, LowcmdSnapshot, LowcmdPublish, Shutdown
<1>3. CASE Begin
  BY <1>3 DEF Begin
<1>4. CASE LoopExit \/ Poll \/ StoreCommand \/ FailSafe
  BY <1>4 DEF LoopExit, Poll, StoreCommand, FailSafe
<1>5. CASE Snapshot
  BY <1>5 DEF Snapshot, Snaps
<1>6. CASE CheckSkips \/ CheckFails
  BY <1>1, <1>6 DEF CheckSkips, CheckFails, DropLocals
<1>7. CASE CheckProceeds
  BY <1>1, <1>7 DEF CheckProceeds, Measured, Blend, Targets
<1>8. CASE Arm \/ Ramp \/ Commit
  BY <1>1, <1>8 DEF Arm, Ramp, Commit, DropLocals
<1>9. CASE DatagramArrives \/ RivalsChange
  BY <1>9 DEF DatagramArrives, RivalsChange
<1>10. CASE Tick
  <2>1. toNext' \in -MaxLate .. Period /\ planAge' \in 0 .. RampTime
    BY <1>10, OlderAges DEF Tick
  <2>2. snap' \in Snaps
    <3>1. Older(snap.stateAge, StateTimeout + 1) \in StateAges
      BY OlderAges DEF Snaps
    <3> QED
      BY <1>10, <3>1 DEF Tick, Snaps
  <2> QED
    BY <1>10, <2>1, <2>2 DEF Tick
<1>11. CASE UNCHANGED vars
  BY <1>11 DEF vars
<1> QED
  BY <1>2, <1>3, <1>4, <1>5, <1>6, <1>7, <1>8, <1>9, <1>10, <1>11 DEF Next, PolicyThread, World

\* The executor's place, its copy and the frame it sent.
LEMMA ExecTypeStep == TypeOK /\ [Next]_vars => ExecType'
<1> SUFFICES ASSUME TypeOK, [Next]_vars PROVE ExecType'
  OBVIOUS
<1> USE DEF TypeOK, MemType, ExecType, exec
<1>1. CASE PolicyThread
  BY <1>1 DEF PolicyThread, Begin, LoopExit, Poll, StoreCommand, Snapshot, CheckSkips,
     CheckFails, CheckProceeds, FailSafe, Arm, Ramp, Commit
<1>2. ASSUME NEW r \in Reports, OnLowState(r) PROVE ExecType'
  BY <1>2 DEF OnLowState
<1>3. ASSUME NEW b \in BOOLEAN, OnEnable(b) PROVE ExecType'
  BY <1>3 DEF OnEnable
<1>4. CASE LowcmdSnapshot
  BY <1>4 DEF LowcmdSnapshot, Views, Frames, Silent, Targets
<1>5. CASE LowcmdPublish
  BY <1>5 DEF LowcmdPublish, Frame, Stale, Views, Frames, NoView, Targets, Phases, StateAges
<1>6. CASE Shutdown
  BY <1>6 DEF Shutdown
<1>7. CASE DatagramArrives \/ RivalsChange
  BY <1>7 DEF DatagramArrives, RivalsChange
<1>8. CASE Tick
  <2>1. CASE xpc = "publish"
    <3>1. view.lag + 1 \in 0 .. ExecLag
      BY <1>8, <2>1 DEF Tick, Views
    <3>2. Older(view.stateAge, StateTimeout + 1) \in StateAges
      BY OlderAges DEF Views
    <3> QED
      BY <1>8, <2>1, <3>1, <3>2 DEF Tick, Views
  <2>2. CASE xpc # "publish"
    BY <1>8, <2>2 DEF Tick
  <2> QED
    BY <2>1, <2>2
<1>9. CASE UNCHANGED vars
  BY <1>9 DEF vars
<1> QED
  BY <1>1, <1>2, <1>3, <1>4, <1>5, <1>6, <1>7, <1>8, <1>9 DEF Next, Executor, World

LEMMA TypeStep == TypeOK /\ [Next]_vars => TypeOK'
<1> SUFFICES ASSUME TypeOK, [Next]_vars PROVE TypeOK'
  OBVIOUS
<1>1. MemType' /\ PolicyType' /\ ExecType'
  BY MemTypeStep, PolicyTypeStep, ExecTypeStep
<1>2. /\ inbox' \in BOOLEAN /\ rivals' \in BOOLEAN /\ running' \in BOOLEAN
      /\ operator' \in BOOLEAN /\ watched' \in Causes
  BY DEF TypeOK, outside, history, vars, Next, Executor, PolicyThread, World, OnLowState,
     OnEnable, LowcmdSnapshot, LowcmdPublish, Shutdown, Begin, LoopExit, Poll, StoreCommand,
     Snapshot, CheckSkips, CheckFails, CheckProceeds, FailSafe, Arm, Ramp, Commit,
     DatagramArrives, RivalsChange, Tick, KeepFaultAge
<1>3. faultAge' \in 0 .. FaultCap
  BY BoundsAreNat, OlderRange
     DEF TypeOK, history, vars, Next, Executor, PolicyThread, World, OnLowState,
     OnEnable, LowcmdSnapshot, LowcmdPublish, Shutdown, Begin, LoopExit, Poll, StoreCommand,
     Snapshot, CheckSkips, CheckFails, CheckProceeds, FailSafe, Arm, Ramp, Commit,
     DatagramArrives, RivalsChange, Tick, KeepFaultAge
<1> QED
  BY <1>1, <1>2, <1>3 DEF TypeOK

-----------------------------------------------------------------------------
(* Sessions: who may leave Idle, and on what grounds *)

LEMMA SessionInit == Init => SessionInv
  BY DEF Init, SessionInv, ThreadsInv, RunningNeedsRequest, NoPositionAfterDisable, PhaseInv

LEMMA SessionStep == TypeOK /\ SessionInv /\ [Next]_vars => SessionInv'
<1> SUFFICES ASSUME TypeOK, SessionInv, [Next]_vars PROVE SessionInv'
  OBVIOUS
<1>t. phase \in Phases /\ requested \in BOOLEAN /\ operator \in BOOLEAN /\ running \in BOOLEAN
  BY DEF TypeOK, MemType
<1> USE <1>t DEF SessionInv, ThreadsInv, RunningNeedsRequest, NoPositionAfterDisable, PhaseInv,
        mem, inputs, session, exec, policy, history, GoTo
<1>1. ASSUME NEW r \in Reports, OnLowState(r) PROVE SessionInv'
  BY <1>1 DEF OnLowState
<1>2. ASSUME NEW b \in BOOLEAN, OnEnable(b) PROVE SessionInv'
  BY <1>2 DEF OnEnable
<1>3. CASE LowcmdSnapshot
  BY <1>3 DEF LowcmdSnapshot
<1>4. CASE LowcmdPublish
  BY <1>4 DEF LowcmdPublish
<1>5. CASE Shutdown
  BY <1>5 DEF Shutdown
<1>6. CASE Begin
  BY <1>6 DEF Begin
<1>7. CASE LoopExit
  BY <1>7 DEF LoopExit
<1>8. CASE Poll
  BY <1>8 DEF Poll
<1>9. CASE StoreCommand
  BY <1>9 DEF StoreCommand
<1>10. CASE Snapshot
  BY <1>10 DEF Snapshot
<1>11. CASE CheckSkips
  BY <1>11 DEF CheckSkips
<1>12. CASE CheckFails
  BY <1>12 DEF CheckFails
<1>13. CASE CheckProceeds
  BY <1>13 DEF CheckProceeds, ChecksPass, CommandLost
<1>14. CASE FailSafe
  BY <1>14 DEF FailSafe
<1>15. CASE Arm
  BY <1>15 DEF Arm
<1>16. CASE Ramp
  BY <1>16 DEF Ramp
<1>17. CASE Commit
  BY <1>17 DEF Commit
<1>18. CASE DatagramArrives
  BY <1>18 DEF DatagramArrives
<1>19. CASE RivalsChange
  BY <1>19 DEF RivalsChange
<1>20. CASE Tick
  <2>1. /\ snap'.haveState = snap.haveState /\ snap'.requested = snap.requested
        /\ snap'.phase = snap.phase /\ view'.phase = view.phase
    BY <1>20 DEF Tick, TypeOK, PolicyType, ExecType, Snaps, Views
  <2> QED
    BY <1>20, <2>1 DEF Tick
<1>21. CASE UNCHANGED vars
  BY <1>21 DEF vars
<1> QED
  BY <1>1, <1>2, <1>3, <1>4, <1>5, <1>6, <1>7, <1>8, <1>9, <1>10, <1>11, <1>12, <1>13,
     <1>14, <1>15, <1>16, <1>17, <1>18, <1>19, <1>20, <1>21
     DEF Next, Executor, PolicyThread, World

-----------------------------------------------------------------------------
(* Targets: what the ramp and the actor hand to the lowcmd timer *)

\* The ramp of a session armed on a finite or a non-finite pose.
LEMMA BlendTargets ==
    \A q0 \in RampTargets, age \in 0 .. RampTime :
        Blend(q0, age) \in IF age = RampTime THEN {"default", "nonFinite"} ELSE RampTargets
  BY DEF Blend, RampTargets

LEMMA TargetInit == Init => FrameMatchesPhase /\ TargetInv
  BY DEF Init, FrameMatchesPhase, TargetInv, NoView, Silent

LEMMA TargetStep ==
    TypeOK /\ SessionInv /\ FrameMatchesPhase /\ TargetInv /\ [Next]_vars
        => FrameMatchesPhase' /\ TargetInv'
<1> DEFINE Inv == FrameMatchesPhase /\ TargetInv
<1> SUFFICES ASSUME TypeOK, SessionInv, Inv, [Next]_vars PROVE Inv'
  OBVIOUS
<1>p. PhaseInv
  BY DEF SessionInv
<1> USE DEF FrameMatchesPhase, TargetInv, RampTargets, PolicyTargets,
        mem, inputs, session, exec, policy, GoTo
<1>1. ASSUME NEW r \in Reports, OnLowState(r) PROVE Inv'
  BY <1>1 DEF OnLowState
<1>2. ASSUME NEW b \in BOOLEAN, OnEnable(b) PROVE Inv'
  BY <1>2 DEF OnEnable
<1>3. CASE LowcmdSnapshot
  BY <1>3 DEF LowcmdSnapshot, Silent
<1>4. CASE LowcmdPublish
  <2>1. view.phase \in Phases
    BY DEF TypeOK, ExecType, Views
  <2> QED
    BY <1>4, <2>1 DEF LowcmdPublish, Frame, NoView, Phases
<1>5. CASE Shutdown
  BY <1>5 DEF Shutdown
<1>6. CASE Begin \/ LoopExit \/ Poll \/ StoreCommand \/ Snapshot \/ CheckSkips \/ CheckFails
  BY <1>6 DEF Begin, LoopExit, Poll, StoreCommand, Snapshot, CheckSkips, CheckFails
<1>7. CASE CheckProceeds
  <2>1. CASE snap.phase = "Idle"
    BY <1>7, <2>1 DEF CheckProceeds, Measured
  <2>2. CASE snap.phase = "Ramping"
    <3>1. plan' = Blend(rampQ0, rampAge) /\ planAge' = rampAge /\ ppc' = "ramp"
      BY <1>7, <2>2 DEF CheckProceeds
    <3>2. phase = "Ramping" =>
            plan' \in IF planAge' = RampTime THEN {"default", "nonFinite"} ELSE RampTargets
      BY <3>1, BlendTargets DEF TypeOK, MemType
    <3> QED
      BY <1>7, <3>1, <3>2 DEF CheckProceeds
  <2>3. CASE snap.phase = "Active"
    BY <1>7, <2>3 DEF CheckProceeds
  <2> QED
    BY <1>7, <2>1, <2>2, <2>3 DEF CheckProceeds
<1>8. CASE FailSafe
  BY <1>8 DEF FailSafe
<1>9. CASE Arm
  BY <1>9, <1>p DEF Arm, PhaseInv
<1>10. CASE Ramp
  BY <1>10 DEF Ramp
<1>11. CASE Commit
  BY <1>11 DEF Commit
<1>12. CASE DatagramArrives \/ RivalsChange
  BY <1>12 DEF DatagramArrives, RivalsChange
<1>13. CASE Tick
  <2>1. view'.phase = view.phase /\ view'.q = view.q
    BY <1>13 DEF Tick, TypeOK, ExecType, Views
  <2>2. UNCHANGED <<phase, qDesired, rampQ0, lastAction, frame, ppc, plan>>
    BY <1>13 DEF Tick
  <2>3. ppc = "ramp" => planAge' = planAge
    BY <1>13 DEF Tick
  <2> QED
    BY <2>1, <2>2, <2>3
<1>14. CASE UNCHANGED vars
  BY <1>14 DEF vars
<1> QED
  BY <1>1, <1>2, <1>3, <1>4, <1>5, <1>6, <1>7, <1>8, <1>9, <1>10, <1>11, <1>12, <1>13, <1>14
     DEF Next, Executor, PolicyThread, World

-----------------------------------------------------------------------------
(* The ramp clock *)

LEMMA RampClockInit == Init => RampClockInv
  BY DEF Init, RampClockInv

LEMMA RampClockStep ==
    TypeOK /\ SessionInv /\ RampClockInv /\ [Next]_vars => RampClockInv'
<1> SUFFICES ASSUME TypeOK, SessionInv, RampClockInv, [Next]_vars PROVE RampClockInv'
  OBVIOUS
<1>t. rampAge \in 0 .. RampTime /\ planAge \in 0 .. RampTime /\ toNext \in -MaxLate .. Period
  BY DEF TypeOK, MemType, PolicyType
<1> USE <1>t DEF RampClockInv, mem, session, policy, GoTo
<1>1. CASE Executor
  BY <1>1 DEF Executor, OnLowState, OnEnable, LowcmdSnapshot, LowcmdPublish, Shutdown
<1>2. CASE CheckProceeds
  BY <1>2 DEF CheckProceeds
<1>3. CASE Arm \/ Ramp \/ Commit
  BY <1>3 DEF Arm, Ramp, Commit
<1>4. CASE Begin \/ LoopExit \/ Poll \/ StoreCommand \/ Snapshot \/ CheckSkips \/ CheckFails
           \/ FailSafe
  BY <1>4 DEF Begin, LoopExit, Poll, StoreCommand, Snapshot, CheckSkips, CheckFails, FailSafe
<1>5. CASE DatagramArrives \/ RivalsChange
  BY <1>5 DEF DatagramArrives, RivalsChange
<1>6. CASE Tick
  BY <1>6 DEF Tick, Older
<1>7. CASE UNCHANGED vars
  BY <1>7 DEF vars
<1> QED
  BY <1>1, <1>2, <1>3, <1>4, <1>5, <1>6, <1>7 DEF Next, PolicyThread, World

-----------------------------------------------------------------------------
(* The reaction to a fault *)

\* While the inputs, the rivals and the cause watched stand still, so does Fault.
LEMMA FaultFrame ==
    UNCHANGED <<inputs, rivals, watched>> => Fault' = Fault
  BY DEF inputs, Fault

\* A step that changes the inputs can end the fault, and does not age it.
LEMMA KeptFaultAge ==
    TypeOK /\ KeepFaultAge =>
        /\ faultAge' \in Nat /\ faultAge' <= faultAge /\ (~Fault' => faultAge' = 0)
        /\ watched' = watched
  BY BoundsAreNat DEF KeepFaultAge, TypeOK

LEMMA FaultInit == Init => FaultInv
  BY DEF Init, FaultInv, NoView

LEMMA FaultStep == TypeOK /\ SessionInv /\ FaultInv /\ [Next]_vars => FaultInv'
<1> SUFFICES ASSUME TypeOK, SessionInv, FaultInv, [Next]_vars PROVE FaultInv'
  OBVIOUS
<1>t. /\ faultAge \in Nat /\ toNext \in Int /\ toNext <= Period /\ -MaxLate <= toNext
      /\ stateAge \in Nat /\ snap.stateAge \in Nat /\ view.lag \in Nat
      /\ ppc \in {"sleep", "poll", "store", "snapshot", "check", "fail",
                  "arm", "ramp", "commit", "done"}
      /\ phase \in Phases /\ snap.phase \in Phases
  BY BoundsAreNat DEF TypeOK, MemType, PolicyType, ExecType, StateAges, Snaps, Views
<1>s. ThreadsInv /\ PhaseInv /\ RunningNeedsRequest
  BY DEF SessionInv
<1> USE <1>t, BoundsAreNat DEF FaultInv, SinceBegin, GoTo
<1>1. ASSUME NEW r \in Reports, OnLowState(r) PROVE FaultInv'
  <2>1. KeepFaultAge /\ stateAge' = 0 /\ UNCHANGED <<phase, policy, exec>>
    BY <1>1 DEF OnLowState
  <2> QED
    BY <2>1, KeptFaultAge DEF policy, exec
<1>2. ASSUME NEW b \in BOOLEAN, OnEnable(b) PROVE FaultInv'
  BY <1>2, FaultFrame DEF OnEnable, policy, exec, inputs, outside
<1>3. CASE LowcmdSnapshot
  BY <1>3, <1>s, FaultFrame
     DEF LowcmdSnapshot, ReactionBound, PhaseInv, policy, mem, outside, history, inputs
<1>4. CASE LowcmdPublish
  BY <1>4, FaultFrame DEF LowcmdPublish, policy, mem, outside, history, inputs
<1>5. CASE Shutdown
  BY <1>5, FaultFrame DEF Shutdown, policy, mem, outside, history, inputs
<1>6. CASE Begin
  BY <1>6, FaultFrame DEF Begin, Slip, exec, mem, outside, history, inputs
<1>7. CASE LoopExit \/ Poll
  BY <1>7, FaultFrame DEF LoopExit, Poll, exec, mem, outside, history, inputs
<1>8. CASE StoreCommand
  <2>1. /\ KeepFaultAge /\ ppc = "store" /\ ppc' = "snapshot"
        /\ UNCHANGED <<phase, toNext, exec>>
    BY <1>8 DEF StoreCommand
  <2> QED
    BY <2>1, KeptFaultAge DEF exec
<1>9. CASE Snapshot
  BY <1>9, FaultFrame DEF Snapshot, Fault, exec, mem, outside, history, inputs
<1>10. CASE CheckSkips
  BY <1>10, <1>s, FaultFrame
     DEF CheckSkips, PhaseInv, RunningNeedsRequest, exec, mem, outside, history, inputs
<1>11. CASE CheckFails
  BY <1>11, FaultFrame DEF CheckFails, exec, mem, outside, history, inputs
<1>12. CASE CheckProceeds
  <2>1. faultAge <= SinceBegin
    <3>1. CASE watched = "unsafe"
      BY <1>12, <3>1 DEF CheckProceeds, ChecksPass
    <3>2. CASE watched # "unsafe"
      BY <1>12, <3>2 DEF CheckProceeds, ChecksPass, Fault, Stale, RivalSeen, CommandLost
    <3> QED
      BY <3>1, <3>2
  <2> QED
    BY <1>12, <2>1, FaultFrame DEF CheckProceeds, exec, mem, outside, history, inputs
<1>13. CASE FailSafe
  BY <1>13, FaultFrame DEF FailSafe, exec, outside, history, inputs
<1>14. CASE Arm
  BY <1>14, FaultFrame DEF Arm, exec, outside, history, inputs
<1>15. CASE Ramp
  BY <1>15, FaultFrame DEF Ramp, exec, outside, history, inputs
<1>16. CASE Commit
  BY <1>16, FaultFrame DEF Commit, exec, outside, history, inputs
<1>17. CASE DatagramArrives
  BY <1>17, FaultFrame DEF DatagramArrives, policy, exec, mem, history, inputs
<1>18. CASE RivalsChange
  <2>1. KeepFaultAge /\ UNCHANGED <<mem, policy, exec>>
    BY <1>18 DEF RivalsChange
  <2> QED
    BY <2>1, KeptFaultAge DEF policy, exec, mem
<1>19. CASE Tick
  <2>1. faultAge' \in Nat /\ faultAge' <= faultAge + 1 /\ (~Fault => faultAge' = 0)
    BY <1>19 DEF Tick, Older
  <2>2. Fault => Fault'
    <3>1. stateAge > StateTimeout => stateAge' > StateTimeout
      BY <1>19 DEF Tick, Older, TypeOK, MemType, StateAges
    <3>2. commandAge > CommandTimeout => commandAge' > CommandTimeout
      BY <1>19 DEF Tick, Older, TypeOK, MemType, CommandAges
    <3> QED
      BY <1>19, <3>1, <3>2 DEF Tick, Fault, outside
  <2>3. snap'.haveState = snap.haveState /\ snap'.report = snap.report
        /\ view'.phase = view.phase /\ (xpc = "publish" => view'.lag = view.lag + 1)
    BY <1>19 DEF Tick, TypeOK, PolicyType, ExecType, Snaps, Views
  <2>4. ppc = "check" /\ snap.haveState => stateAge' <= snap'.stateAge
    BY <1>19 DEF Tick, Older, TypeOK, MemType, PolicyType, Snaps, StateAges
  <2>5. UNCHANGED <<ppc, phase, xpc, watched>> /\ (ppc # "done" => toNext' = toNext - 1)
    BY <1>19 DEF Tick
  <2> QED
    BY <2>1, <2>2, <2>3, <2>4, <2>5
<1>20. CASE UNCHANGED vars
  BY <1>20, FaultFrame DEF vars, policy, exec, mem, outside, history, inputs
<1> QED
  BY <1>1, <1>2, <1>3, <1>4, <1>5, <1>6, <1>7, <1>8, <1>9, <1>10, <1>11, <1>12, <1>13,
     <1>14, <1>15, <1>16, <1>17, <1>18, <1>19, <1>20
     DEF Next, Executor, PolicyThread, World

-----------------------------------------------------------------------------
(* The theorems *)

LEMMA Invariance == Spec => []IInv
<1>1. Init => IInv
  BY TypeInit, SessionInit, TargetInit, RampClockInit, FaultInit DEF IInv
<1>2. IInv /\ [Next]_vars => IInv'
  BY TypeStep, SessionStep, TargetStep, RampClockStep, FaultStep DEF IInv
<1> QED
  BY <1>1, <1>2, PTL DEF Spec

\* Every variable keeps its type: neither the deadline, nor an age, nor a copy in flight
\* leaves its range, for any timing of the two threads.
THEOREM TypeCorrect == Spec => []TypeOK
  BY Invariance, PTL DEF IInv

\* policy_tick's commits never bring up a node without a request, a LowState and a command.
THEOREM RequestStands == Spec => []RunningNeedsRequest
<1>1. IInv => RunningNeedsRequest
  BY DEF IInv, SessionInv
<1> QED
  BY <1>1, Invariance, PTL

\* A handled disable stops position control, with a commit or a frame in flight or not.
THEOREM DisableStops == Spec => []NoPositionAfterDisable
<1>1. IInv => NoPositionAfterDisable
  BY DEF IInv, SessionInv
<1> QED
  BY <1>1, Invariance, PTL

\* The lowcmd timer never pairs the gains of one stage with the target of another.
THEOREM FramesMatch == Spec => []FrameMatchesPhase
<1>1. IInv => FrameMatchesPhase
  BY DEF IInv
<1> QED
  BY <1>1, Invariance, PTL

\* A fault that persists takes the node out of Ramping or Active within ReactionBound,
\* for every period, lateness and timeout.
THEOREM WatchdogReacts == Spec => []WatchdogReaction
<1>1. IInv => WatchdogReaction
  <2>1. SUFFICES ASSUME IInv, phase # "Idle", ppc # "done" PROVE faultAge <= ReactionBound
    BY DEF WatchdogReaction
  <2>2. ppc # "arm"
    BY <2>1 DEF IInv, SessionInv, PhaseInv
  <2>3. faultAge \in Nat /\ toNext \in Int /\ -MaxLate <= toNext /\ Slip \in Nat
    BY <2>1, BoundsAreNat DEF IInv, TypeOK, PolicyType
  <2>4. faultAge <= SinceBegin + Period + Slip
    BY <2>1, <2>2, <2>3 DEF IInv, FaultInv, SinceBegin, TypeOK, PolicyType
  <2> QED
    BY <2>3, <2>4 DEF ReactionBound, SinceBegin
<1> QED
  BY <1>1, Invariance, PTL

\* No frame with position gains is published later than one executor delay after that.
THEOREM PositionFramesEnd == Spec => PositionFrameBound
<1>1. IInv /\ [Next]_vars =>
        (xpc = "publish" /\ xpc' = "idle" /\ frame'.gain \in {"ramp", "policy"} /\ ppc # "done"
            => faultAge <= ReactionBound + ExecLag)
  <2> SUFFICES ASSUME IInv, [Next]_vars, xpc = "publish", xpc' = "idle",
                      frame'.gain \in {"ramp", "policy"}, ppc # "done"
               PROVE  faultAge <= ReactionBound + ExecLag
    OBVIOUS
  <2>1. LowcmdPublish
    BY DEF Next, Executor, PolicyThread, World, OnLowState, OnEnable, LowcmdSnapshot, Shutdown,
       Begin, LoopExit, Poll, StoreCommand, Snapshot, CheckSkips, CheckFails, CheckProceeds,
       FailSafe, Arm, Ramp, Commit, DatagramArrives, RivalsChange, Tick, vars, exec
  <2>2. view.phase # "Idle"
    BY <2>1 DEF LowcmdPublish, Frame
  <2>3. faultAge <= ReactionBound + view.lag
    BY <2>2 DEF IInv, FaultInv
  <2>4. view.lag \in 0 .. ExecLag /\ faultAge \in Nat
    BY BoundsAreNat DEF IInv, TypeOK, ExecType, Views
  <2> QED
    BY <2>3, <2>4, BoundsAreNat
<1> QED
  BY <1>1, Invariance, PTL DEF Spec, PositionFrameBound

\* Active is reached only when ramp_seconds have passed on a clock started by this arming.
THEOREM RampIsNotCutShort == Spec => RampTakesItsTime
<1>1. IInv /\ [Next]_vars =>
        /\ phase = "Idle" /\ phase' = "Ramping" => rampAge' <= Period - toNext
        /\ phase = "Ramping" /\ phase' = "Active" => rampAge = RampTime
  <2> SUFFICES ASSUME IInv, [Next]_vars
               PROVE  /\ phase = "Idle" /\ phase' = "Ramping" => rampAge' <= Period - toNext
                      /\ phase = "Ramping" /\ phase' = "Active" => rampAge = RampTime
    OBVIOUS
  <2>1. CASE Arm
    BY <2>1 DEF Arm, IInv, RampClockInv, SessionInv, PhaseInv, session
  <2>2. CASE Ramp
    <3>1. planAge \in 0 .. RampTime /\ rampAge \in 0 .. RampTime
      BY DEF IInv, TypeOK, MemType, PolicyType
    <3> QED
      BY <2>2, <3>1 DEF Ramp, IInv, RampClockInv
  <2>3. CASE ~Arm /\ ~Ramp
    BY <2>3 DEF Next, Executor, PolicyThread, World, OnLowState, OnEnable, LowcmdSnapshot,
       LowcmdPublish, Shutdown, Begin, LoopExit, Poll, StoreCommand, Snapshot, CheckSkips,
       CheckFails, CheckProceeds, FailSafe, Commit, DatagramArrives, RivalsChange, Tick,
       vars, mem
  <2> QED
    BY <2>1, <2>2, <2>3
<1> QED
  BY <1>1, Invariance, PTL DEF Spec, RampTakesItsTime

-----------------------------------------------------------------------------
(* A robot that reports finite joint positions *)

\* No value that is not finite is remembered, planned, or on its way to the motors.
FiniteInv ==
    /\ lowState # "nanJoint" /\ snap.report # "nanJoint"
    /\ "nonFinite" \notin {rampQ0, plan, qDesired, view.q, frame.q}

LEMMA FiniteInit == Init => FiniteInv
  BY DEF Init, FiniteInv, NoSnap, NoView, Silent

LEMMA FiniteStep ==
    ASSUME "nanJoint" \notin Reports
    PROVE  TypeOK /\ FiniteInv /\ [Next]_vars => FiniteInv'
<1> SUFFICES ASSUME TypeOK, FiniteInv, [Next]_vars PROVE FiniteInv'
  OBVIOUS
<1> USE DEF FiniteInv, mem, inputs, session, exec, policy, GoTo
<1>1. ASSUME NEW r \in Reports, OnLowState(r) PROVE FiniteInv'
  BY <1>1 DEF OnLowState
<1>2. ASSUME NEW b \in BOOLEAN, OnEnable(b) PROVE FiniteInv'
  BY <1>2 DEF OnEnable
<1>3. CASE LowcmdSnapshot
  BY <1>3 DEF LowcmdSnapshot, Silent
<1>4. CASE LowcmdPublish
  BY <1>4 DEF LowcmdPublish, Frame, NoView
<1>5. CASE Begin \/ LoopExit \/ Poll \/ StoreCommand \/ FailSafe \/ Shutdown
  BY <1>5 DEF Begin, LoopExit, Poll, StoreCommand, FailSafe, Shutdown
<1>6. CASE Snapshot
  BY <1>6 DEF Snapshot
<1>7. CASE CheckSkips \/ CheckFails
  BY <1>7 DEF CheckSkips, CheckFails, DropLocals, NoSnap
<1>8. CASE CheckProceeds
  BY <1>8 DEF CheckProceeds, Measured, Blend, NoSnap
<1>9. CASE Arm \/ Ramp \/ Commit
  BY <1>9 DEF Arm, Ramp, Commit, DropLocals, NoSnap
<1>10. CASE DatagramArrives \/ RivalsChange
  BY <1>10 DEF DatagramArrives, RivalsChange
<1>11. CASE Tick
  <2>1. snap'.report = snap.report /\ view'.q = view.q
    BY <1>11 DEF Tick, TypeOK, PolicyType, ExecType, Snaps, Views
  <2> QED
    BY <1>11, <2>1 DEF Tick
<1>12. CASE UNCHANGED vars
  BY <1>12 DEF vars
<1> QED
  BY <1>1, <1>2, <1>3, <1>4, <1>5, <1>6, <1>7, <1>8, <1>9, <1>10, <1>11, <1>12
     DEF Next, Executor, PolicyThread, World

\* What docs/END_TO_END_DATA_FLOW.md:390 says of the end of the ramp is true of a robot that
\* never reports a joint position that is not finite.
THEOREM FiniteRampEndsAtDefault ==
    ASSUME "nanJoint" \notin Reports
    PROVE  Spec => RampEndsAtDefaultPose
<1>1. IInv /\ FiniteInv /\ [Next]_vars => (phase = "Ramping" /\ phase' = "Active" => qDesired' = "default")
  <2> SUFFICES ASSUME IInv, FiniteInv, [Next]_vars, phase = "Ramping", phase' = "Active"
               PROVE  qDesired' = "default"
    OBVIOUS
  <2>1. Ramp
    BY DEF Next, Executor, PolicyThread, World, OnLowState, OnEnable, LowcmdSnapshot,
       LowcmdPublish, Shutdown, Begin, LoopExit, Poll, StoreCommand, Snapshot, CheckSkips,
       CheckFails, CheckProceeds, FailSafe, Arm, Commit, DatagramArrives, RivalsChange, Tick,
       vars, mem
  <2>2. planAge = RampTime /\ qDesired' = plan
    BY <2>1 DEF Ramp
  <2> QED
    BY <2>1, <2>2 DEF Ramp, IInv, TargetInv, FiniteInv
<1> QED
  BY <1>1, Invariance, TypeCorrect, FiniteInit, FiniteStep, PTL DEF Spec, RampEndsAtDefaultPose

\* And no frame on /lowcmd then carries a target that is not finite: of the three places where
\* one could come from, the actor's is checked and the two others take what was measured.
THEOREM FramesAreFinite ==
    ASSUME "nanJoint" \notin Reports
    PROVE  Spec => [](frame.q # "nonFinite")
<1>1. FiniteInv => frame.q # "nonFinite"
  BY DEF FiniteInv
<1> QED
  BY <1>1, TypeCorrect, FiniteInit, FiniteStep, PTL DEF Spec

-----------------------------------------------------------------------------
(* The node implements the contract *)

\* The three phases are three different controls.
LEMMA ControlCases ==
    /\ Control("Idle") = "off" /\ Control("Ramping") = "ramp" /\ Control("Active") = "policy"
    /\ \A p \in Phases : /\ Control(p) = "off" => p = "Idle"
                         /\ Control(p) # "none"
  BY DEF Control, Phases

LEMMA ContractInit == Init => Contract!Init
  BY ControlCases DEF Init, Contract!Init, Looked, Silent

LEMMA ContractStep == IInv /\ [Next]_vars => [Contract!Next]_(Contract!vars)
<1> SUFFICES ASSUME IInv, [Next]_vars PROVE [Contract!Next]_(Contract!vars)
  OBVIOUS
<1>t. phase \in Phases /\ view.phase \in Phases
  BY DEF IInv, TypeOK, MemType, ExecType, Views
<1> USE DEF Contract!Next, Contract!vars, Looked, mem, session, exec
<1>1. ASSUME NEW b \in BOOLEAN, OnEnable(b) PROVE Contract!Enable \/ Contract!Withdraw
  BY <1>1, ControlCases DEF OnEnable, Contract!Enable, Contract!Withdraw
<1>2. CASE LowcmdSnapshot
  BY <1>2 DEF LowcmdSnapshot, Contract!Look, Silent
<1>3. CASE LowcmdPublish
  <2>1. frame'.gain \in {"damping"} \cup ({Control(view.phase)} \ {"off"})
    BY <1>3, <1>t, ControlCases DEF LowcmdPublish, Frame, Phases
  <2>2. Control(view.phase) # "none"
    BY <1>t, ControlCases
  <2> QED
    BY <1>3, <2>1, <2>2 DEF LowcmdPublish, Contract!Send
<1>4. CASE FailSafe
  BY <1>4, ControlCases DEF FailSafe, Contract!Withdraw
<1>5. CASE Arm
  <2>1. phase = "Idle"
    BY <1>5 DEF Arm, IInv, SessionInv, PhaseInv
  <2> QED
    BY <1>5, <2>1, ControlCases DEF Arm, Contract!Arm
<1>6. CASE Ramp
  BY <1>6, ControlCases DEF Ramp, Contract!Engage
<1>7. CASE Commit
  BY <1>7 DEF Commit
<1>8. ASSUME NEW r \in Reports, OnLowState(r) PROVE UNCHANGED Contract!vars
  BY <1>8 DEF OnLowState
<1>9. CASE Shutdown
  BY <1>9 DEF Shutdown
<1>10. CASE Begin \/ LoopExit \/ Poll \/ StoreCommand \/ Snapshot
  BY <1>10 DEF Begin, LoopExit, Poll, StoreCommand, Snapshot
<1>11. CASE CheckSkips \/ CheckFails \/ CheckProceeds
  BY <1>11 DEF CheckSkips, CheckFails, CheckProceeds
<1>12. CASE DatagramArrives \/ RivalsChange
  BY <1>12 DEF DatagramArrives, RivalsChange
<1>13. CASE Tick
  <2>1. view'.phase = view.phase
    BY <1>13 DEF Tick, IInv, TypeOK, ExecType, Views
  <2> QED
    BY <1>13, <2>1 DEF Tick
<1>14. CASE UNCHANGED vars
  BY <1>14 DEF vars
<1> QED
  BY <1>1, <1>2, <1>3, <1>4, <1>5, <1>6, <1>7, <1>8, <1>9, <1>10, <1>11, <1>12, <1>13, <1>14
     DEF Next, Executor, PolicyThread, World

\* The two threads, with their copies and re-checks, implement the sequential contract of
\* /lowcmd: each step is one step of the contract or changes nothing it speaks of.
THEOREM NodeImplementsContract == Spec => ImplementsContract
  BY ContractInit, ContractStep, Invariance, PTL DEF Spec, ImplementsContract, Contract!Spec

-----------------------------------------------------------------------------
(* The node implements the watch *)

LEMMA WatchInit == Init => Watch!Init
  BY DEF Init, WatchStage, Watch!Init

LEMMA WatchStep == IInv /\ [Next]_vars => [Watch!Next]_(Watch!vars)
<1> SUFFICES ASSUME IInv, [Next]_vars PROVE [Watch!Next]_(Watch!vars)
  OBVIOUS
<1>t. /\ phase \in Phases /\ snap.phase \in Phases /\ commandAge \in CommandAges
      /\ requested \in BOOLEAN /\ haveCommand \in BOOLEAN /\ toNext \in -MaxLate .. Period
  BY DEF IInv, TypeOK, MemType, PolicyType, Snaps
<1>p. PhaseInv
  BY DEF IInv, SessionInv
<1> USE DEF Watch!Next, Watch!vars, WatchStage, mem, inputs, session, policy, GoTo
<1>1. ASSUME NEW b \in BOOLEAN, OnEnable(b) PROVE Watch!Stop \/ UNCHANGED Watch!vars
  BY <1>1 DEF OnEnable, Watch!Stop
<1>2. CASE Begin
  BY <1>2 DEF Begin, Watch!Wake
<1>3. CASE LoopExit
  BY <1>3 DEF LoopExit, Watch!End
<1>4. CASE StoreCommand
  BY <1>4 DEF StoreCommand, Watch!Keep
<1>5. CASE CheckSkips
  <2>1. phase = "Idle"
    BY <1>5, <1>p, <1>t DEF CheckSkips, PhaseInv
  <2> QED
    BY <1>5, <2>1 DEF CheckSkips, Watch!Decide
<1>6. CASE CheckProceeds
  <2>1. haveCommand /\ commandAge <= CommandTimeout
    BY <1>6, <1>t DEF CheckProceeds, ChecksPass, CommandLost, CommandAges
  <2> QED
    BY <1>6, <1>t, <2>1 DEF CheckProceeds, Watch!Decide, Watch!CommandFresh
<1>7. CASE FailSafe
  BY <1>7 DEF FailSafe, Watch!Decide
<1>8. CASE Arm
  BY <1>8 DEF Arm, Watch!Stop
<1>9. CASE Ramp
  BY <1>9 DEF Ramp
<1>10. CASE Commit
  BY <1>10 DEF Commit
<1>11. CASE Tick
  <2>1. (IF haveCommand' THEN commandAge' ELSE 0)
          = IF haveCommand /\ (IF haveCommand THEN commandAge ELSE 0) <= CommandTimeout
            THEN (IF haveCommand THEN commandAge ELSE 0) + 1
            ELSE (IF haveCommand THEN commandAge ELSE 0)
    <3>1. commandAge \in Int /\ CommandTimeout \in Int /\ commandAge <= CommandTimeout + 1
      BY <1>t, ClockAssumption DEF CommandAges
    <3> QED
      BY <1>11, <3>1 DEF Tick, Older
  <2> QED
    BY <1>11, <2>1 DEF Tick, Watch!Tick
<1>12. CASE Poll \/ Snapshot \/ CheckFails
  BY <1>12 DEF Poll, Snapshot, CheckFails
<1>13. ASSUME NEW r \in Reports, OnLowState(r) PROVE UNCHANGED Watch!vars
  BY <1>13 DEF OnLowState
<1>14. CASE LowcmdSnapshot \/ LowcmdPublish \/ Shutdown
  BY <1>14 DEF LowcmdSnapshot, LowcmdPublish, Shutdown
<1>15. CASE DatagramArrives \/ RivalsChange
  BY <1>15 DEF DatagramArrives, RivalsChange
<1>16. CASE UNCHANGED vars
  BY <1>16 DEF vars
<1> QED
  BY <1>1, <1>2, <1>3, <1>4, <1>5, <1>6, <1>7, <1>8, <1>9, <1>10, <1>11, <1>12, <1>13,
     <1>14, <1>15, <1>16 DEF Next, Executor, PolicyThread, World

\* Two threads, a copy and a commit are one wake-up and one decision of the watch: no
\* interleaving lets the node drive but a decision on a fresh command, for every time-out.
THEOREM NodeImplementsWatch == Spec => ImplementsWatch
  BY WatchInit, WatchStep, Invariance, PTL DEF Spec, ImplementsWatch, Watch!Spec
=============================================================================
