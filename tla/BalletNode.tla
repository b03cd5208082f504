----------------------------- MODULE BalletNode -----------------------------
(***************************************************************************)
(* The ROS 2 control node G1BalletNode of                                  *)
(* src/src/g1_ballet_policy_node.cpp: two threads that share the state     *)
(* guarded by mu_.                                                         *)
(*                                                                         *)
(*  - The executor thread (rclcpp::spin) runs one callback at a time: the  *)
(*    LowState subscription, the enable subscription and the lowcmd timer. *)
(*    The timer callback copies the state under mu_, releases the mutex    *)
(*    and only then decides on a frame and publishes it: two steps here.   *)
(*  - The policy thread wakes once a period, drains the UDP socket, stores *)
(*    the command, copies the state under mu_, runs every check on the     *)
(*    copy without the mutex, and takes the mutex again to commit (or to   *)
(*    fail safe): one step for every critical section.                     *)
(*                                                                         *)
(* Time is counted in ticks.  A time stamp of the code is kept as its age, *)
(* "now - stamp", which Tick increments; an age saturates one above the    *)
(* largest value the code can tell apart.                                  *)
(***************************************************************************)
EXTENDS Integers

CONSTANTS
    Period,          \* ticks between two wake-ups of the policy thread (1 / policy_hz)
    MaxLate,         \* the most a policy tick may end or start after its deadline
    StateTimeout,    \* state_timeout_s
    CommandTimeout,  \* command_timeout_s
    RampTime,        \* ramp_seconds
    ExecLag,         \* the longest pause between the snapshot and the publication of a frame
    RejectRivals,    \* reject_other_lowcmd_publishers
    Reports,         \* what the robot may report in a LowState
    Watched          \* the causes of failure whose age is followed

ASSUME ClockAssumption ==
    /\ Period \in Nat \ {0}
    /\ MaxLate \in Nat \ {0}
    /\ StateTimeout \in Nat
    /\ CommandTimeout \in Nat
    /\ RampTime \in Nat \ {0}
    /\ ExecLag \in Nat \ {0}
(***************************************************************************)
(* What a LowState can be to the checks: safe; unsafe (a wrong             *)
(* mode_machine, a tilt over the limit or a non-finite roll or pitch); or  *)
(* safe for these checks with a non-finite joint position.                 *)
(***************************************************************************)
AllReports == {"safe", "unsafe", "nanJoint"}
Phases  == {"Idle", "Ramping", "Active"}
Targets == {"zero", "measured", "blend", "default", "actor", "nonFinite"}
Causes  == {"stateStale", "commandStale", "rival", "unsafe"}

ASSUME SupervisorAssumption ==
    /\ RejectRivals \in BOOLEAN
    /\ Reports \subseteq AllReports
    /\ Watched \subseteq Causes

VARIABLES
    \* guarded by mu_
    lowState, haveState, stateAge,      \* state_, have_state_, now - state_stamp_
    haveCommand, commandAge,            \* have_command_, now - command_stamp_
    requested,                          \* requested_enable_
    everArmed,                          \* ever_armed_
    phase,                              \* phase_
    rampQ0, rampAge,                    \* ramp_q0_, now - ramp_start_
    qDesired, lastAction,               \* q_desired_, last_action_
    \* the world outside
    inbox,                              \* a valid datagram waits in the socket
    rivals,                             \* another publisher of the lowcmd topic exists
    \* the policy thread
    ppc, toNext,                        \* where it is; next - now
    snap,                               \* its copy of the shared state
    plan, planAge,                      \* the target it is about to commit; now - ramp_start_
    \* the executor thread
    xpc, view,                          \* where it is; its copy of the shared state
    frame,                              \* the LowCmd frame last published, until the next is begun
    running,                            \* policy_thread_running_
    \* history, read by no action of the code
    operator,                           \* the value of the last enable message
    watched, faultAge                   \* a cause of failure, and how long it has held

mem     == <<lowState, haveState, stateAge, haveCommand, commandAge, requested,
             everArmed, phase, rampQ0, rampAge, qDesired, lastAction>>

ages    == <<stateAge, commandAge, rampAge>>
session == <<everArmed, rampQ0, rampAge, qDesired, lastAction>>
inputs  == <<lowState, haveState, stateAge, haveCommand, commandAge>>
outside == <<inbox, rivals>>
policy  == <<ppc, toNext, snap, plan, planAge>>
exec    == <<xpc, view, frame>>
history == <<operator, watched, faultAge>>
vars    == <<mem, outside, policy, exec, running, history>>

Older(age, cap) == IF age < cap THEN age + 1 ELSE cap

StateAges   == 0 .. StateTimeout + 1
CommandAges == 0 .. CommandTimeout + 1

(***************************************************************************)
(* The supervisor's promise to react: no later than two periods and the    *)
(* two late wake-ups that can surround them.                               *)
(***************************************************************************)
Slip          == IF MaxLate > Period THEN MaxLate ELSE 0
ReactionBound == 2 * Period + MaxLate + Slip
FaultCap      == ReactionBound + ExecLag + 1

NoSnap == [haveState |-> FALSE, stateAge |-> 0, report |-> "unsafe",
           requested |-> FALSE, phase |-> "Idle"]

NoView == [phase |-> "Idle", q |-> "zero", stateAge |-> 0, lag |-> 0]
Silent == [gain |-> "none", q |-> "zero", stale |-> FALSE]

Init ==
    /\ lowState = "unsafe" /\ haveState = FALSE /\ stateAge = StateTimeout + 1
    /\ haveCommand = FALSE /\ commandAge = CommandTimeout + 1
    /\ requested = FALSE /\ everArmed = FALSE /\ phase = "Idle"
    /\ rampQ0 = "zero" /\ rampAge = RampTime
    /\ qDesired = "zero" /\ lastAction = "zero"
    /\ inbox = FALSE /\ rivals \in {FALSE, RejectRivals}
    /\ ppc = "sleep" /\ toNext = 0 /\ snap = NoSnap /\ plan = "zero" /\ planAge = 0
    /\ xpc = "idle" /\ view = NoView /\ frame = Silent
    /\ running = TRUE
    /\ operator = FALSE /\ watched \in Watched /\ faultAge = 0

-----------------------------------------------------------------------------
(* The causes of failure, at this moment: not as the policy thread last copied them *)

Fault ==
    \/ watched = "stateStale"   /\ haveState /\ stateAge > StateTimeout
    \/ watched = "commandStale" /\ (~haveCommand \/ commandAge > CommandTimeout)
    \/ watched = "rival"        /\ RejectRivals /\ rivals
    \/ watched = "unsafe"       /\ lowState = "unsafe"

KeepFaultAge ==
    /\ UNCHANGED watched
    /\ faultAge' = IF Fault' THEN faultAge ELSE 0

-----------------------------------------------------------------------------
(* The executor thread *)

OnLowState(r) ==
    /\ xpc = "idle"
    /\ lowState' = r /\ haveState' = TRUE /\ stateAge' = 0
    /\ UNCHANGED <<haveCommand, commandAge, requested, phase, session,
                   outside, policy, exec, running, operator>>
    /\ KeepFaultAge

\* Regression: a disable withdraws the request and leaves the phase to the policy thread.
OnEnableKeepsPhase(b) ==
    /\ xpc = "idle"
    /\ requested' = b /\ operator' = b
    /\ UNCHANGED <<inputs, phase, session, outside, policy, exec, running, watched, faultAge>>

OnEnable(b) ==
    /\ xpc = "idle"
    /\ requested' = b
    /\ phase' = IF b THEN phase ELSE "Idle"
    /\ operator' = b
    /\ UNCHANGED <<inputs, session, outside, policy, exec, running, watched, faultAge>>

\* publish_lowcmd_tick up to the unlock; a tick that returns early changes nothing.
LowcmdSnapshot ==
    /\ xpc = "idle"
    /\ haveState /\ everArmed
    /\ xpc' = "publish"
    /\ view' = [phase |-> phase, q |-> qDesired, stateAge |-> stateAge, lag |-> 0]
    /\ frame' = Silent
    /\ UNCHANGED <<mem, outside, policy, running, history>>

Stale(age) == age > StateTimeout

\* Regression: damping for a stale LowState only, not for an idle node.
FrameForgetsIdle(v) ==
    IF Stale(v.stateAge)
    THEN [gain |-> "damping", q |-> "zero", stale |-> TRUE]
    ELSE [gain |-> IF v.phase = "Ramping" THEN "ramp" ELSE "policy", q |-> v.q, stale |-> FALSE]

Frame(v) ==
    IF Stale(v.stateAge) \/ v.phase = "Idle"
    THEN [gain |-> "damping", q |-> "zero", stale |-> Stale(v.stateAge)]
    ELSE [gain |-> IF v.phase = "Ramping" THEN "ramp" ELSE "policy", q |-> v.q, stale |-> FALSE]

\* Regression: q_desired_ is read again after the unlock.
LowcmdPublishUnlocked ==
    /\ xpc = "publish"
    /\ frame' = Frame([view EXCEPT !.q = qDesired])
    /\ xpc' = "idle" /\ view' = NoView
    /\ UNCHANGED <<mem, outside, policy, running, history>>

LowcmdPublish ==
    /\ xpc = "publish"
    /\ frame' = Frame(view)
    /\ xpc' = "idle" /\ view' = NoView
    /\ UNCHANGED <<mem, outside, policy, running, history>>

\* spin returns, the destructor clears policy_thread_running_ and joins the thread.
Shutdown ==
    /\ xpc = "idle"
    /\ xpc' = "stopped" /\ running' = FALSE
    /\ UNCHANGED <<mem, outside, policy, view, frame, history>>

-----------------------------------------------------------------------------
(* The policy thread *)

GoTo(pc) == ppc' = pc /\ UNCHANGED toNext

DropLocals == snap' = NoSnap /\ plan' = "zero" /\ planAge' = 0

\* Regression: the loop forgets to look at policy_thread_running_.
BeginAlways ==
    /\ ppc = "sleep" /\ toNext <= 0
    /\ ppc' = "poll"
    /\ toNext' = (IF toNext < -Period THEN 0 ELSE toNext) + Period
    /\ UNCHANGED <<mem, outside, snap, plan, planAge, exec, running, history>>

\* Regression: after a long pause next restarts a period from now, and the loop adds another.
BeginPutsOff ==
    /\ ppc = "sleep" /\ toNext <= 0 /\ running
    /\ ppc' = "poll"
    /\ toNext' = (IF toNext < -Period THEN Period ELSE toNext) + Period
    /\ UNCHANGED <<mem, outside, snap, plan, planAge, exec, running, history>>

\* policy_loop: woken at next; after a long pause next restarts from now.
Begin ==
    /\ ppc = "sleep" /\ toNext <= 0 /\ running
    /\ ppc' = "poll"
    /\ toNext' = (IF toNext < -Period THEN 0 ELSE toNext) + Period
    /\ UNCHANGED <<mem, outside, snap, plan, planAge, exec, running, history>>

LoopExit ==
    /\ ppc = "sleep" /\ toNext <= 0 /\ ~running
    /\ GoTo("done")
    /\ UNCHANGED <<mem, outside, snap, plan, planAge, exec, running, history>>

\* udp_->poll: drains the socket.
Poll ==
    /\ ppc = "poll"
    /\ inbox' = FALSE
    /\ GoTo(IF inbox THEN "store" ELSE "snapshot")
    /\ UNCHANGED <<mem, rivals, snap, plan, planAge, exec, running, history>>

StoreCommand ==
    /\ ppc = "store"
    /\ haveCommand' = TRUE /\ commandAge' = 0
    /\ GoTo("snapshot")
    /\ UNCHANGED <<lowState, haveState, stateAge, requested, phase, session,
                   outside, snap, plan, planAge, exec, running, operator>>
    /\ KeepFaultAge

Snapshot ==
    /\ ppc = "snapshot"
    /\ snap' = [haveState |-> haveState, stateAge |-> stateAge, report |-> lowState,
                requested |-> requested, phase |-> phase]
    /\ GoTo("check")
    /\ UNCHANGED <<mem, outside, plan, planAge, exec, running, history>>

\* Regression: a command once received is good for ever.
CommandNeverReceived == ~haveCommand
\* The checks on the copy.  The command stamp, ramp_start_ and ramp_q0_ are written by
\* this thread only, so the copy of them and the shared variable agree.
CommandLost == ~haveCommand \/ commandAge > CommandTimeout
RivalSeen   == RejectRivals /\ rivals

\* Regression: a stale LowState ends the tick without fail_safe.
CheckSkipsStale ==
    /\ ppc = "check"
    /\ ~snap.haveState \/ ~snap.requested \/ Stale(snap.stateAge)
    /\ GoTo("sleep") /\ DropLocals
    /\ UNCHANGED <<mem, outside, exec, running, history>>

CheckSkips ==
    /\ ppc = "check"
    /\ ~snap.haveState \/ ~snap.requested
    /\ GoTo("sleep") /\ DropLocals
    /\ UNCHANGED <<mem, outside, exec, running, history>>

\* Regression: the competing publishers are not counted.
ChecksPassWithRivals == ~Stale(snap.stateAge) /\ snap.report # "unsafe" /\ ~CommandLost

ChecksPass == ~Stale(snap.stateAge) /\ ~RivalSeen /\ snap.report # "unsafe" /\ ~CommandLost

\* A failed check; an exception of count_publishers, which asks the middleware and throws at
\* the latest when a signal has shut the context down before spin returns; a non-finite
\* observation; or an inference that throws or returns a non-finite action.
CheckFails ==
    /\ ppc = "check"
    /\ snap.haveState /\ snap.requested
    /\ ~ChecksPass \/ RejectRivals \/ snap.phase = "Active"
    /\ GoTo("fail") /\ DropLocals
    /\ UNCHANGED <<mem, outside, exec, running, history>>

Measured(report) == IF report = "nanJoint" THEN "nonFinite" ELSE "measured"

\* ramp_q0 + smooth * (default_q - ramp_q0), with smooth = 0 at age 0 and 1 from RampTime on
Blend(q0, age) ==
    IF q0 = "nonFinite" THEN "nonFinite"
    ELSE IF age = 0 THEN q0
    ELSE IF age < RampTime THEN "blend"
    ELSE "default"

CheckProceeds ==
    /\ ppc = "check"
    /\ snap.haveState /\ snap.requested /\ ChecksPass
    /\ \/ /\ snap.phase = "Idle" /\ GoTo("arm")
          /\ plan' = Measured(snap.report) /\ planAge' = 0
       \/ /\ snap.phase = "Ramping" /\ GoTo("ramp")
          /\ plan' = Blend(rampQ0, rampAge) /\ planAge' = rampAge
       \/ /\ snap.phase = "Active" /\ snap.report # "nanJoint" /\ GoTo("commit")
          /\ plan' = "actor" /\ planAge' = 0
    /\ snap' = NoSnap
    /\ UNCHANGED <<mem, outside, exec, running, history>>

\* Regression: fail_safe withdraws the request only.
FailSafeKeepsPhase ==
    /\ ppc = "fail"
    /\ requested' = FALSE
    /\ GoTo("sleep")
    /\ UNCHANGED <<inputs, phase, session, outside, snap, plan, planAge, exec, running, history>>

FailSafe ==
    /\ ppc = "fail"
    /\ requested' = FALSE /\ phase' = "Idle"
    /\ GoTo("sleep")
    /\ UNCHANGED <<inputs, session, outside, snap, plan, planAge, exec, running, history>>

\* Regression: the request is not read again before arming.
ArmUnconfirmed ==
    /\ ppc = "arm"
    /\ rampQ0' = plan /\ qDesired' = plan /\ rampAge' = planAge
    /\ lastAction' = "zero" /\ everArmed' = TRUE /\ phase' = "Ramping"
    /\ GoTo("sleep") /\ DropLocals
    /\ UNCHANGED <<inputs, requested, outside, exec, running, history>>

\* Regression: ramp_start_ keeps the time of an earlier session.
ArmKeepsRampStart ==
    /\ ppc = "arm"
    /\ IF requested
       THEN /\ rampQ0' = plan /\ qDesired' = plan
            /\ lastAction' = "zero" /\ everArmed' = TRUE /\ phase' = "Ramping"
       ELSE UNCHANGED <<everArmed, rampQ0, qDesired, lastAction, phase>>
    /\ GoTo("sleep") /\ DropLocals
    /\ UNCHANGED <<inputs, rampAge, requested, outside, exec, running, history>>

\* The commits re-read, under mu_, what an enable message may have changed meanwhile.
Arm ==
    /\ ppc = "arm"
    /\ IF requested
       THEN /\ rampQ0' = plan /\ qDesired' = plan /\ rampAge' = planAge
            /\ lastAction' = "zero" /\ everArmed' = TRUE /\ phase' = "Ramping"
       ELSE UNCHANGED <<session, phase>>
    /\ GoTo("sleep") /\ DropLocals
    /\ UNCHANGED <<inputs, requested, outside, exec, running, history>>

\* Regression: alpha > 1 after the clamp, never true.
RampNeverEnds ==
    /\ ppc = "ramp"
    /\ IF requested /\ phase = "Ramping" THEN qDesired' = plan ELSE UNCHANGED qDesired
    /\ GoTo("sleep") /\ DropLocals
    /\ UNCHANGED <<inputs, requested, phase, everArmed, rampQ0, rampAge, lastAction,
                   outside, exec, running, history>>

\* Regression: the phase is not read again before the ramp ends.
RampTrustsCopy ==
    /\ ppc = "ramp"
    /\ IF requested
       THEN /\ qDesired' = plan
            /\ IF planAge = RampTime
               THEN lastAction' = "zero" /\ phase' = "Active"
               ELSE UNCHANGED <<lastAction, phase>>
       ELSE UNCHANGED <<qDesired, lastAction, phase>>
    /\ GoTo("sleep") /\ DropLocals
    /\ UNCHANGED <<inputs, requested, everArmed, rampQ0, rampAge, outside, exec, running, history>>

Ramp ==
    /\ ppc = "ramp"
    /\ IF requested /\ phase = "Ramping"
       THEN /\ qDesired' = plan
            /\ IF planAge = RampTime
               THEN lastAction' = "zero" /\ phase' = "Active"
               ELSE UNCHANGED <<lastAction, phase>>
       ELSE UNCHANGED <<qDesired, lastAction, phase>>
    /\ GoTo("sleep") /\ DropLocals
    /\ UNCHANGED <<inputs, requested, everArmed, rampQ0, rampAge, outside, exec, running, history>>

\* Regression: the action kept for the next observation is the last target.
CommitKeepsTarget ==
    /\ ppc = "commit"
    /\ IF requested /\ phase = "Active"
       THEN qDesired' = plan /\ lastAction' = qDesired
       ELSE UNCHANGED <<qDesired, lastAction>>
    /\ GoTo("sleep") /\ DropLocals
    /\ UNCHANGED <<inputs, requested, phase, everArmed, rampQ0, rampAge, outside, exec, running, history>>

Commit ==
    /\ ppc = "commit"
    /\ IF requested /\ phase = "Active"
       THEN qDesired' = plan /\ lastAction' = "actor"
       ELSE UNCHANGED <<qDesired, lastAction>>
    /\ GoTo("sleep") /\ DropLocals
    /\ UNCHANGED <<inputs, requested, phase, everArmed, rampQ0, rampAge, outside, exec, running, history>>

PolicyThread ==
    \/ Begin \/ LoopExit \/ Poll \/ StoreCommand \/ Snapshot
    \/ CheckSkips \/ CheckFails \/ CheckProceeds
    \/ FailSafe \/ Arm \/ Ramp \/ Commit

-----------------------------------------------------------------------------
(* The world outside *)

DatagramArrives ==
    /\ ~inbox /\ inbox' = TRUE
    /\ UNCHANGED <<mem, rivals, policy, exec, running, history>>

\* Only a node that looks for rivals can tell them from none.
RivalsChange ==
    /\ RejectRivals
    /\ rivals' = ~rivals
    /\ UNCHANGED <<mem, inbox, policy, exec, running, operator>>
    /\ KeepFaultAge

\* Time passes, unless a thread has used up the delay it is allowed.
Tick ==
    /\ ppc # "done" => toNext > -MaxLate
    /\ xpc = "publish" => view.lag < ExecLag
    /\ stateAge' = Older(stateAge, StateTimeout + 1)
    /\ commandAge' = Older(commandAge, CommandTimeout + 1)
    /\ rampAge' = Older(rampAge, RampTime)
    /\ toNext' = IF ppc = "done" THEN toNext ELSE toNext - 1
    /\ snap' = IF ppc = "check"
               THEN [snap EXCEPT !.stateAge = Older(@, StateTimeout + 1)] ELSE snap
    /\ planAge' = IF ppc = "arm" THEN Older(planAge, RampTime) ELSE planAge
    /\ view' = IF xpc = "publish"
               THEN [view EXCEPT !.stateAge = Older(@, StateTimeout + 1), !.lag = @ + 1]
               ELSE view
    /\ faultAge' = IF Fault THEN Older(faultAge, FaultCap) ELSE 0
    /\ UNCHANGED <<lowState, haveState, haveCommand, requested, everArmed, phase, rampQ0,
                   qDesired, lastAction, outside, ppc, plan, xpc, frame, running,
                   operator, watched>>

Executor ==
    \/ \E r \in Reports : OnLowState(r)
    \/ \E b \in BOOLEAN : OnEnable(b)
    \/ LowcmdSnapshot \/ LowcmdPublish \/ Shutdown

World == DatagramArrives \/ RivalsChange \/ Tick

Next == Executor \/ PolicyThread \/ World

Spec == Init /\ [][Next]_vars

(***************************************************************************)
(* Fairness.  The policy thread is a loop of bounded steps; its sleep ends *)
(* because time passes; the lowcmd timer is periodic and its callback      *)
(* returns.  No message is owed to the node: the subscriptions, the        *)
(* datagrams, rivals and the shutdown are unfair.                          *)
(***************************************************************************)
Fairness ==
    /\ WF_vars(PolicyThread)
    /\ WF_vars(Tick)
    /\ WF_vars(LowcmdSnapshot)
    /\ WF_vars(LowcmdPublish)

FairSpec == Spec /\ Fairness

-----------------------------------------------------------------------------
(* Properties *)

Snaps == [haveState : BOOLEAN, stateAge : StateAges, report : AllReports,
          requested : BOOLEAN, phase : Phases]

Views == [phase : Phases, q : Targets, stateAge : StateAges, lag : 0 .. ExecLag]
Frames == [gain : {"none", "damping", "ramp", "policy"}, q : Targets, stale : BOOLEAN]

MemType ==
    /\ lowState \in AllReports /\ haveState \in BOOLEAN /\ stateAge \in StateAges
    /\ haveCommand \in BOOLEAN /\ commandAge \in CommandAges
    /\ requested \in BOOLEAN /\ everArmed \in BOOLEAN /\ phase \in Phases
    /\ rampQ0 \in Targets /\ rampAge \in 0 .. RampTime
    /\ qDesired \in Targets /\ lastAction \in {"zero", "actor"}

PolicyType ==
    /\ ppc \in {"sleep", "poll", "store", "snapshot", "check", "fail",
                "arm", "ramp", "commit", "done"}
    /\ toNext \in -MaxLate .. Period
    /\ snap \in Snaps /\ plan \in Targets /\ planAge \in 0 .. RampTime

ExecType == xpc \in {"idle", "publish", "stopped"} /\ view \in Views /\ frame \in Frames

\* Every variable keeps its type; in particular no deadline runs away from the clock
\* (the catch-up of policy_loop) and a target never stands in for an action.
TypeOK ==
    /\ MemType /\ PolicyType /\ ExecType
    /\ inbox \in BOOLEAN /\ rivals \in BOOLEAN /\ running \in BOOLEAN
    /\ operator \in BOOLEAN /\ watched \in Causes /\ faultAge \in 0 .. FaultCap

\* The node is out of Idle only while an enable request stands, with a LowState and a
\* command behind it, whatever callbacks ran between a tick's snapshot and its commit.
RunningNeedsRequest ==
    phase # "Idle" => requested /\ haveState /\ haveCommand /\ everArmed

\* Once the enable callback has handled a disable, nothing is out of Idle and no frame
\* on its way to the topic carries position gains, until the operator enables again.
NoPositionAfterDisable ==
    ~operator => phase = "Idle" /\ (xpc = "publish" => view.phase = "Idle")

\* A published frame pairs its gains with a target of the same stage: ramp gains with the
\* pose measured at arming or the blend, policy gains with the default pose or the
\* actor's target; and the actor is fed the action its last target came from.
FrameMatchesPhase ==
    /\ frame.gain = "ramp"   => frame.q \in {"measured", "blend", "nonFinite"}
    /\ frame.gain = "policy" => frame.q \in {"default", "actor", "nonFinite"}
    /\ phase = "Active" => (qDesired = "actor" <=> lastAction = "actor")

\* No short ramp: the ramp clock starts within the tick that arms, not at an earlier
\* session's ramp_start_, and Active is reached only when it shows ramp_seconds.
RampTakesItsTime ==
    [][/\ phase = "Idle" /\ phase' = "Ramping" => rampAge' <= Period - toNext
       /\ phase = "Ramping" /\ phase' = "Active" => rampAge = RampTime]_vars

\* A cause of failure that persists takes the node out of Ramping or Active within
\* ReactionBound ticks, wherever in the tick it began.
WatchdogReaction ==
    phase # "Idle" /\ ppc # "done" => faultAge <= ReactionBound

\* No frame with position gains leaves the node more than one executor delay after that.
PositionFrameBound ==
    [][xpc = "publish" /\ xpc' = "idle" /\ frame'.gain \in {"ramp", "policy"} /\ ppc # "done"
        => faultAge <= ReactionBound + ExecLag]_vars

\* An enable request with a LowState behind it is answered: the policy becomes active, or
\* the request is cancelled and must be sent again.
EnableResolves ==
    (requested /\ haveState) ~> (phase = "Active" \/ ~requested \/ ~running)

\* An armed node that has returned to Idle publishes damping, unless it arms again first.
IdleDamps ==
    (everArmed /\ phase = "Idle") ~> (frame.gain = "damping" \/ phase # "Idle" \/ ~running)

\* The destructor's join returns: the policy thread ends after a shutdown.
StopsOnShutdown == ~running ~> ppc = "done"

-----------------------------------------------------------------------------
(* What of the node the robot and the operator see *)

Control(p) == CASE p = "Idle" -> "off" [] p = "Ramping" -> "ramp" [] p = "Active" -> "policy"

Looked == IF xpc = "publish" THEN Control(view.phase) ELSE "none"

Contract == INSTANCE LowCmdContract
            WITH allowed <- requested, control <- Control(phase), armed <- everArmed,
                 looked <- Looked, sent <- frame.gain

\* docs/ARCHITECTURE.md, "State flow": seen through phase_, requested_enable_ and the frames,
\* the two threads with their copies and re-checks are the sequential machine of the
\* contract; no interleaving arms twice, skips the ramp, or enters a stage unrequested.
ImplementsContract == Contract!Spec

\* The watch sees the loop and the command.  A tick has decided when its checks are over: a
\* node about to arm counts as driving.
WatchStage ==
    CASE ppc = "done" -> "done"
      [] ppc \in {"poll", "store", "snapshot", "check", "fail"} -> "tick"
      [] OTHER -> "sleep"

Watch == INSTANCE CommandWatch
         WITH stage <- WatchStage,
              commandAge <- IF haveCommand THEN commandAge ELSE 0,
              driving <- phase # "Idle" \/ ppc = "arm"

\* Whatever an enable, a disable or a shutdown does between a tick's copy and its commit, a
\* tick ends with a node that drives only if its own checks found a fresh command; nothing
\* else lets the node drive, and a late tick never puts off the next beyond its deadline.
ImplementsWatch == Watch!Spec

-----------------------------------------------------------------------------
(***************************************************************************)
(* The inductive invariant.  The properties above say nothing of the       *)
(* copies in flight; its parts say how far a copy may lag behind the       *)
(* shared state while other callbacks run.                                 *)
(***************************************************************************)
RampTargets   == {"measured", "blend", "nonFinite"}
PolicyTargets == {"default", "actor", "nonFinite"}

ThreadsInv ==
    /\ xpc = "stopped" <=> ~running
    /\ ppc = "done" => ~running

\* Only the policy thread leaves Idle: since the snapshot the phase stood still or fell.
PhaseInv ==
    /\ requested => operator
    /\ ppc = "check" => /\ snap.haveState => haveState
                        /\ snap.phase # "Idle" => snap.haveState /\ snap.requested
                        /\ phase \in {snap.phase, "Idle"}
    /\ ppc = "arm" => phase = "Idle" /\ haveState /\ haveCommand
    /\ ppc = "ramp" => phase # "Active"
    /\ ppc = "commit" => phase # "Ramping"

TargetInv ==
    /\ phase = "Ramping" => qDesired \in RampTargets /\ rampQ0 \in RampTargets
    /\ phase = "Active" => qDesired \in PolicyTargets
    /\ view.phase = "Ramping" => view.q \in RampTargets
    /\ view.phase = "Active" => view.q \in PolicyTargets
    /\ ppc = "arm" => plan \in {"measured", "nonFinite"}
    /\ ppc = "ramp" /\ phase = "Ramping" =>
           plan \in IF planAge = RampTime THEN {"default", "nonFinite"} ELSE RampTargets
    /\ ppc = "commit" => plan = "actor"

RampClockInv ==
    /\ ppc = "arm" => planAge <= Period - toNext
    /\ ppc = "ramp" /\ phase = "Ramping" => planAge <= rampAge

\* How old the watched cause may be, by where the policy thread stands.  A tick that has
\* passed its checks has seen no fault since it began, Period - toNext ago; a tick that
\* has still to pass them follows one that had; the reset of next costs one Slip.
SinceBegin == Period - toNext

FaultInv ==
    /\ ~Fault => faultAge = 0
    /\ phase # "Idle" /\ ppc \in {"sleep", "ramp", "commit"} => faultAge <= SinceBegin
    /\ ppc = "arm" => faultAge <= SinceBegin
    /\ phase # "Idle" /\ ppc \in {"poll", "store", "snapshot", "check", "fail"} =>
           faultAge <= SinceBegin + Period + Slip
    /\ ppc = "check" /\ snap.haveState => stateAge <= snap.stateAge
    /\ ppc = "check" /\ watched = "unsafe" /\ snap.report # "unsafe" => faultAge <= SinceBegin
    /\ xpc = "publish" /\ view.phase # "Idle" /\ ppc # "done" =>
           faultAge <= ReactionBound + view.lag

SessionInv == ThreadsInv /\ RunningNeedsRequest /\ NoPositionAfterDisable /\ PhaseInv

IInv == TypeOK /\ SessionInv /\ FrameMatchesPhase /\ TargetInv /\ RampClockInv /\ FaultInv

-----------------------------------------------------------------------------
(* What the documents say and the code does not do: violated by the runs doc_* *)

\* docs/END_TO_END_DATA_FLOW.md:413-415, README_DETAILED.md:855-857: the request is cleared
\* when /lowstate is missing or stale.  The code keeps it when no LowState has come yet
\* (policy_tick returns), and when publish_lowcmd_tick alone sees the stale one and damps.
UnusableLowStateCancels ==
    /\ (requested /\ ~haveState) ~> (~requested \/ haveState \/ ~running)
    /\ (frame.gain = "damping" /\ frame.stale) ~> (~requested \/ ~running)

\* docs/END_TO_END_DATA_FLOW.md:390: the ramp ends at the ONNX default pose.
RampEndsAtDefaultPose ==
    [][phase = "Ramping" /\ phase' = "Active" => qDesired' = "default"]_vars
=============================================================================
