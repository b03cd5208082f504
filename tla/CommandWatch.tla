---------------------------- MODULE CommandWatch ----------------------------
(***************************************************************************)
(* What policy_loop and policy_tick of src/src/g1_ballet_policy_node.cpp   *)
(* promise about the command: the loop wakes once a period and is late by  *)
(* MaxLate at most; every wake-up ends in a decision; and a decision lets  *)
(* the node drive only on a command no older than the time-out.            *)
(*                                                                         *)
(* It is the policy thread as CommandPath composes it, and BalletNode,     *)
(* with both its threads and their copies, implements it: what the path    *)
(* assumes of the node is what the node keeps.                             *)
(***************************************************************************)
EXTENDS Integers

CONSTANTS
    Period,          \* ticks between two wake-ups
    MaxLate,         \* the most a decision or a wake-up may come after its deadline
    CommandTimeout   \* command_timeout_s

VARIABLES
    toNext,          \* next - now
    stage,           \* asleep, in policy_tick, or ended
    haveCommand,     \* have_command_
    commandAge,      \* now - command_stamp_
    driving          \* phase_ is not Idle, or is about to leave it

vars == <<toNext, stage, haveCommand, commandAge, driving>>

Init ==
    /\ toNext = 0 /\ stage = "sleep"
    /\ haveCommand = FALSE /\ commandAge = 0 /\ driving = FALSE

\* policy_loop: woken at next; after a long pause next restarts from now.
Wake ==
    /\ stage = "sleep" /\ toNext <= 0 /\ stage' = "tick"
    /\ toNext' = (IF toNext < -Period THEN 0 ELSE toNext) + Period
    /\ UNCHANGED <<haveCommand, commandAge, driving>>

\* The store of what poll has found.
Keep ==
    /\ stage = "tick"
    /\ haveCommand' = TRUE /\ commandAge' = 0
    /\ UNCHANGED <<toNext, stage, driving>>

\* Regression: a command once received is good for ever.
CommandEverReceived == haveCommand

CommandFresh == haveCommand /\ commandAge <= CommandTimeout

\* The rest of policy_tick: without a fresh command fail_safe; with one the node may be
\* armed, go on, or stop for another reason.
Decide ==
    /\ stage = "tick" /\ stage' = "sleep"
    /\ driving' \in (IF CommandFresh THEN BOOLEAN ELSE {FALSE})
    /\ UNCHANGED <<toNext, haveCommand, commandAge>>

\* on_enable: a disable takes effect when its callback runs, within a tick or between two.
Stop == driving' = FALSE /\ UNCHANGED <<toNext, stage, haveCommand, commandAge>>

\* The loop sees policy_thread_running_ cleared.
End ==
    /\ stage = "sleep" /\ toNext <= 0 /\ stage' = "done"
    /\ UNCHANGED <<toNext, haveCommand, commandAge, driving>>

\* The command's age saturates where nothing tells ages apart.
Tick ==
    /\ stage # "done" => toNext > -MaxLate
    /\ toNext' = IF stage = "done" THEN toNext ELSE toNext - 1
    /\ commandAge' = IF haveCommand /\ commandAge <= CommandTimeout
                     THEN commandAge + 1 ELSE commandAge
    /\ UNCHANGED <<stage, haveCommand, driving>>

Next == Wake \/ Keep \/ Decide \/ Stop \/ End \/ Tick

Spec == Init /\ [][Next]_vars
=============================================================================
