---------------------------- MODULE NodeDeadlines ----------------------------
(***************************************************************************)
(* BalletNode with two clocks that no action reads: how long the node has  *)
(* owed the operator an answer to an enable request, and how long its      *)
(* destructor has been waiting for the policy thread.  That both are       *)
(* answered in the end is liveness; by when they are is safety.            *)
(***************************************************************************)
EXTENDS BalletNode

VARIABLES
    unanswered,     \* how long an enable request has stood, with a LowState and short of Active
    joining         \* how long policy_thread_.join() has been waiting

timedVars == <<vars, unanswered, joining>>

Unanswered == requested /\ haveState /\ phase # "Active" /\ running
Joining    == ~running /\ ppc # "done"

\* To the end of a tick that sees the request and arms; through the ramp, but for the tick of
\* the clock that a policy tick must miss to go on ramping; to the end of one that sees it over.
EnableBound == ReactionBound + (RampTime - 1) + ReactionBound

\* What is left of a tick that has just begun, if it is as late as it may be.
JoinBound == Period + MaxLate

TimedInit == Init /\ unanswered = 0 /\ joining = 0

\* The clocks saturate above their bounds.
Elapses ==
    /\ Tick
    /\ unanswered' = IF Unanswered THEN Older(unanswered, EnableBound + 1) ELSE 0
    /\ joining'    = IF Joining THEN Older(joining, JoinBound + 1) ELSE 0

Steps ==
    /\ Executor \/ PolicyThread \/ DatagramArrives \/ RivalsChange
    /\ unanswered' = IF Unanswered' THEN unanswered ELSE 0
    /\ joining'    = IF Joining' THEN joining ELSE 0

TimedNext == Elapses \/ Steps

TimedSpec == TimedInit /\ [][TimedNext]_timedVars

TimedFairSpec == TimedSpec /\ Fairness

-----------------------------------------------------------------------------
(* Properties *)

\* An enable request with a LowState behind it is answered in time: within EnableBound ticks
\* the policy is active or the request has been cancelled, by a check that failed or by the
\* operator, whatever the other callbacks do meanwhile and wherever in a tick it came.
EnableAnswered == Unanswered => unanswered <= EnableBound

\* The destructor returns in time: once policy_thread_running_ is cleared no further tick
\* begins, and the join waits for the tick under way only.
JoinReturns == Joining => joining <= JoinBound

-----------------------------------------------------------------------------
(***************************************************************************)
(* The inductive invariant: how long the request has stood, by where the   *)
(* policy thread is.  A tick whose copy shows the request acts on it; one  *)
(* whose copy does not began before the request came.                      *)
(***************************************************************************)
SinceLast == SinceBegin + Period + Slip

CopyShowsRequest == snap.haveState /\ snap.requested /\ snap.phase = phase

IdleInv ==
    phase = "Idle" =>
        unanswered <= IF ppc \in {"sleep", "ramp", "commit"} \/ (ppc = "check" /\ ~CopyShowsRequest)
                      THEN SinceBegin ELSE SinceLast

RampingInv ==
    phase = "Ramping" =>
        unanswered <= IF rampAge < RampTime THEN rampAge + ReactionBound
                      ELSE IF ppc = "sleep" \/ (ppc = "ramp" /\ planAge < RampTime)
                           THEN ReactionBound + (RampTime - 1) + SinceBegin
                           ELSE ReactionBound + (RampTime - 1) + SinceLast

DeadlineInv ==
    /\ unanswered \in 0 .. EnableBound + 1 /\ (~Unanswered => unanswered = 0)
    /\ joining \in 0 .. JoinBound + 1 /\ (~Joining => joining = 0)
    /\ Unanswered => IdleInv /\ RampingInv
    /\ Joining => joining <= SinceBegin
=============================================================================
