------------------------------ MODULE Launcher ------------------------------
(***************************************************************************)
(* scripts/run_policy_on_robot.sh: every launch checks the robot, the      *)
(* topic, the port and the gamepad one after the other, leaves with --arm  *)
(* a background shell that enables the policy once a node appears, and     *)
(* becomes the node (exec).  The operator may start several launches, at   *)
(* once or one after the other, and interrupt each: the background shell   *)
(* survives, since a shell without job control has it ignore SIGINT.       *)
(*                                                                         *)
(* Of the node only what the launches share is kept: that it is up, whose  *)
(* /lowcmd publishers it has discovered, that an enable request stands,    *)
(* that it drives the motors.  DDS, external, takes its time: a node learns *)
(* of another, and of its end, at some later moment, a message reaches the *)
(* subscriptions that are matched by then, a query of the command line may *)
(* come back with nothing.                                                 *)
(***************************************************************************)
EXTENDS PolicyContract

CONSTANTS
    Launches,       \* the launches the operator may make
    WithArm,        \* those with --arm
    CheckOnly,      \* those with --check-only
    Policies,       \* the policy files that may lie at POLICY_PATH
    Tries,          \* how often the background shell looks for a node
    Waits           \* whether ros2 topic pub --once waits for a subscriber

ASSUME LauncherAssumption ==
    /\ WithArm \subseteq Launches /\ CheckOnly \subseteq Launches
    /\ Tries \in Nat \ {0} /\ Waits \in BOOLEAN
    /\ \A p \in Policies : IsPolicyFile(p)

VARIABLES
    at,         \* at[l]: where the launch is; "up" is the node spinning
    armer,      \* armer[l]: its background shell
    tries,      \* tries[l]: how often that shell will still look
    enabled,    \* the nodes whose requested_enable_ is set
    driving,    \* the nodes out of Phase::kIdle
    knows,      \* knows[l]: the other nodes whose publisher of /lowcmd l's node has discovered
    robot,      \* LowState is there, with mode_machine 5
    stream,     \* the gamepad is streaming
    policy,     \* the file at POLICY_PATH
    replaced,   \* the launches whose policy was replaced between its check and its loading
    loaded,     \* loaded[l]: what its node's constructor has read
    enabledBy,  \* history: the launch, or the operator's hand, whose message set the request
    unseen,     \* history: the nodes that were up then and not discovered
    seen        \* history: the launches that have seen the gamepad's stream

vars == <<at, armer, tries, enabled, driving, knows, robot, stream, enabledBy, unseen, seen,
          policy, replaced, loaded>>

world == <<robot, stream>>
requests == <<enabled, enabledBy, unseen>>
nodes == <<requests, driving, knows>>
files == <<policy, replaced, loaded>>

Up == {l \in Launches : at[l] = "up"}

\* A node has its name in the DDS graph from the first line of its constructor on.
Named == {l \in Launches : at[l] \in {"starting", "up"}}

NoFile == [type |-> "none"]

Init ==
    /\ at = [l \in Launches |-> "new"]
    /\ armer = [l \in Launches |-> "none"] /\ tries = [l \in Launches |-> 0]
    /\ enabled = {} /\ driving = {} /\ knows = [l \in Launches |-> {}]
    /\ robot \in BOOLEAN /\ stream \in BOOLEAN /\ seen = {}
    /\ enabledBy = [l \in Launches |-> "nobody"] /\ unseen = [l \in Launches |-> {}]
    /\ policy \in Policies /\ replaced = {}
    /\ loaded = [l \in Launches |-> NoFile]

-----------------------------------------------------------------------------
(* The checks, in the order of the script: each goes on or dies. *)

GoTo(l, place) == at' = [at EXCEPT ![l] = place]

Start(l) ==
    /\ at[l] = "new" /\ GoTo(l, "preflight")
    /\ UNCHANGED <<armer, tries, nodes, world, seen, files>>

\* Repository, tools, ROS 2, ONNX Runtime, contracts, and the policy by check_onnx.py.
Preflight(l) ==
    /\ at[l] = "preflight"
    /\ \E next \in {"dead"} \cup (IF CheckerAccepts(policy) THEN {"build"} ELSE {}) : GoTo(l, next)
    /\ UNCHANGED <<armer, tries, nodes, world, seen, files>>

Build(l) ==
    /\ at[l] = "build"
    /\ \E next \in {"lowstate", "dead"} : GoTo(l, next)
    /\ UNCHANGED <<armer, tries, nodes, world, seen, files>>

\* No LowState within the time allowed dies, a failed query as well.
CheckLowState(l) ==
    /\ at[l] = "lowstate"
    /\ \E next \in {"dead"} \cup (IF robot THEN {"lowcmd"} ELSE {}) : GoTo(l, next)
    /\ UNCHANGED <<armer, tries, nodes, world, seen, files>>

\* A failed query counts no publisher.
CheckLowcmd(l, answered) ==
    /\ at[l] = "lowcmd"
    /\ GoTo(l, IF answered /\ Up # {} THEN "dead" ELSE "port")
    /\ UNCHANGED <<armer, tries, nodes, world, seen, files>>

\* The node holds the port, and so does another launch that looks for the gamepad.
PortBound == Up # {} \/ \E k \in Launches : at[k] = "gamepad"

\* Without ss, or if it fails, the port counts as free.
CheckPort(l, answered) ==
    /\ at[l] = "port"
    /\ GoTo(l, IF answered /\ PortBound THEN "dead"
               ELSE IF l \in WithArm THEN "gamepad" ELSE "launch")
    /\ UNCHANGED <<armer, tries, nodes, world, seen, files>>

\* Regression: a stream is looked for and its absence is no reason to die.
CheckGamepadWarns(l) ==
    /\ at[l] = "gamepad"
    /\ \/ stream /\ GoTo(l, "launch") /\ seen' = seen \cup {l}
       \/ GoTo(l, "launch") /\ UNCHANGED seen
    /\ UNCHANGED <<armer, tries, nodes, world, files>>

\* One valid packet within the time allowed; another socket may have taken them.
CheckGamepad(l) ==
    /\ at[l] = "gamepad"
    /\ \/ stream /\ GoTo(l, "launch") /\ seen' = seen \cup {l}
       \/ GoTo(l, "dead") /\ UNCHANGED seen
    /\ UNCHANGED <<armer, tries, nodes, world, files>>

\* The last stage, up to the exec.
Launch(l) ==
    /\ at[l] = "launch"
    /\ IF l \in CheckOnly
       THEN GoTo(l, "dead") /\ UNCHANGED <<armer, tries>>
       ELSE /\ GoTo(l, "starting")
            /\ IF l \in WithArm
               THEN armer' = [armer EXCEPT ![l] = "seek"] /\ tries' = [tries EXCEPT ![l] = Tries]
               ELSE UNCHANGED <<armer, tries>>
    /\ UNCHANGED <<nodes, world, seen, files>>

-----------------------------------------------------------------------------
(* The callback of /ballet/enable, in every node that the message reaches *)

Request(reached, who) ==
    /\ enabled' = enabled \cup reached
    /\ enabledBy' = [l \in Launches |-> IF l \in reached \ enabled THEN who ELSE enabledBy[l]]
    /\ unseen' = [l \in Launches |->
                      IF l \in reached \ enabled THEN Up \ (knows[l] \cup {l}) ELSE unseen[l]]

Withdraw(reached) ==
    /\ enabled' = enabled \ reached
    /\ enabledBy' = [l \in Launches |-> IF l \in reached THEN "nobody" ELSE enabledBy[l]]
    /\ unseen' = [l \in Launches |-> IF l \in reached THEN {} ELSE unseen[l]]

-----------------------------------------------------------------------------
(* schedule_arm *)

\* Regression: the count starts over, an until loop for the for loop.
SeekForEver(l, answered) ==
    /\ armer[l] = "seek"
    /\ IF answered /\ Named # {}
       THEN armer' = [armer EXCEPT ![l] = "settle"] /\ UNCHANGED tries
       ELSE /\ tries' = [tries EXCEPT ![l] = IF @ = 1 THEN Tries ELSE @ - 1]
            /\ UNCHANGED armer
    /\ UNCHANGED <<at, nodes, world, seen, files>>

\* One turn of the loop: the name is the same for every node.
Seek(l, answered) ==
    /\ armer[l] = "seek"
    /\ IF answered /\ Named # {}
       THEN armer' = [armer EXCEPT ![l] = "settle"] /\ UNCHANGED tries
       ELSE /\ tries' = [tries EXCEPT ![l] = @ - 1]
            /\ armer' = IF tries[l] = 1 THEN [armer EXCEPT ![l] = "ended"] ELSE armer
    /\ UNCHANGED <<at, nodes, world, seen, files>>

\* Half a second later, the enable message, to the nodes matched by then.
Enable(l) ==
    /\ armer[l] = "settle"
    /\ armer' = [armer EXCEPT ![l] = "ended"]
    /\ \E reached \in SUBSET Up :
          /\ Waits => reached # {}
          /\ Request(reached, l)
    /\ UNCHANGED <<at, tries, driving, knows, world, seen, files>>

-----------------------------------------------------------------------------
(* The node *)

\* The constructor returns, or throws: for the policy, or for a reason of its own.
NodeStarts(l) ==
    /\ at[l] = "starting"
    /\ \/ GoTo(l, "dead") /\ UNCHANGED loaded
       \/ /\ GoTo(l, IF NodeLoads(policy) THEN "up" ELSE "refused")
          /\ loaded' = [loaded EXCEPT ![l] = policy]
    /\ UNCHANGED <<armer, tries, nodes, world, seen, policy, replaced>>

\* Discovery: a participant learns of another's publisher, and that it is gone, later.
Discover(l, k) ==
    /\ l \in Up /\ k \in Up \ (knows[l] \cup {l})
    /\ knows' = [knows EXCEPT ![l] = @ \cup {k}]
    /\ UNCHANGED <<at, armer, tries, requests, driving, world, seen, files>>

Forget(l, k) ==
    /\ k \in knows[l] \ Up
    /\ knows' = [knows EXCEPT ![l] = @ \ {k}]
    /\ UNCHANGED <<at, armer, tries, requests, driving, world, seen, files>>

\* Regression: competing publishers are not counted.
ChecksPassBesides(l) == robot /\ stream /\ l \in Up

\* The checks of policy_tick.  count_publishers counts those that this node has discovered.
ChecksPass(l) == robot /\ stream /\ l \in Up /\ knows[l] = {}

Drive(l) ==
    /\ l \in enabled \ driving /\ ChecksPass(l)
    /\ driving' = driving \cup {l}
    /\ UNCHANGED <<at, armer, tries, requests, knows, world, seen, files>>

\* Regression: fail_safe withdraws the request only.
FailSafeKeepsPhase(l) ==
    /\ l \in enabled /\ ~ChecksPass(l)
    /\ Withdraw({l})
    /\ UNCHANGED <<at, armer, tries, driving, knows, world, seen, files>>

FailSafe(l) ==
    /\ l \in enabled /\ ~ChecksPass(l)
    /\ Withdraw({l}) /\ driving' = driving \ {l}
    /\ UNCHANGED <<at, armer, tries, knows, world, seen, files>>

-----------------------------------------------------------------------------
(* The operator and the world *)

\* Ctrl+C, or a crash, at any time.
Interrupt(l) ==
    /\ at[l] \notin {"new", "refused", "dead"} /\ GoTo(l, "dead")
    /\ Withdraw({l}) /\ driving' = driving \ {l} /\ knows' = [knows EXCEPT ![l] = {}]
    /\ replaced' = replaced \ {l} /\ loaded' = [loaded EXCEPT ![l] = NoFile]
    /\ UNCHANGED <<armer, tries, world, seen, policy>>

EnableByHand ==
    /\ \E reached \in SUBSET Up : Request(reached, "hand")
    /\ UNCHANGED <<at, armer, tries, driving, knows, world, seen, files>>

DisableByHand ==
    /\ \E reached \in SUBSET Up : Withdraw(reached) /\ driving' = driving \ reached
    /\ UNCHANGED <<at, armer, tries, knows, world, seen, files>>

BetweenCheckAndLoad ==
    {"build", "lowstate", "lowcmd", "port", "gamepad", "launch", "starting"}

\* A new file is copied to POLICY_PATH.
ReplacePolicy ==
    /\ policy' \in Policies
    /\ replaced' = replaced \cup {l \in Launches : at[l] \in BetweenCheckAndLoad}
    /\ UNCHANGED <<at, armer, tries, nodes, world, seen, loaded>>

WorldChanges ==
    /\ robot' \in BOOLEAN /\ stream' \in BOOLEAN
    /\ UNCHANGED <<at, armer, tries, nodes, seen, files>>

Script(l) ==
    \/ Preflight(l) \/ Build(l) \/ CheckLowState(l) \/ CheckGamepad(l) \/ Launch(l)
    \/ \E answered \in BOOLEAN : CheckLowcmd(l, answered) \/ CheckPort(l, answered)

Armer(l) == Enable(l) \/ \E answered \in BOOLEAN : Seek(l, answered)

Node(l) == NodeStarts(l) \/ Drive(l) \/ FailSafe(l)

Discovery == \E l, k \in Launches : Discover(l, k) \/ Forget(l, k)

Next ==
    \/ \E l \in Launches : Start(l) \/ Script(l) \/ Armer(l) \/ Node(l) \/ Interrupt(l)
    \/ Discovery \/ EnableByHand \/ DisableByHand \/ WorldChanges \/ ReplacePolicy

Spec == Init /\ [][Next]_vars

\* A background shell is a bounded loop that nobody interrupts, the policy thread of a node
\* that drives looks once a period, and discovery, if late, is not for ever.
FairSpec ==
    /\ Spec
    /\ \A l \in Launches : WF_vars(Armer(l)) /\ WF_vars(l \in driving /\ FailSafe(l))
    /\ \A l, k \in Launches : WF_vars(Discover(l, k))

-----------------------------------------------------------------------------
(* Properties *)

Places == {"new", "preflight", "build", "lowstate", "lowcmd", "port", "gamepad", "launch",
           "starting", "up", "refused", "dead"}

\* The types, that only a node that is up can be enabled or drive, and that a background
\* shell never looks without a try left.
TypeOK ==
    /\ at \in [Launches -> Places]
    /\ armer \in [Launches -> {"none", "seek", "settle", "ended"}]
    /\ tries \in [Launches -> 0 .. Tries]
    /\ \A l \in Launches : armer[l] = "seek" => tries[l] # 0
    /\ driving \subseteq enabled /\ enabled \subseteq Up /\ seen \subseteq Launches
    /\ knows \in [Launches -> SUBSET Launches] /\ unseen \in [Launches -> SUBSET Launches]
    /\ \A l \in Launches : l \notin knows[l]
    /\ enabledBy \in [Launches -> Launches \cup {"hand", "nobody"}]
    /\ robot \in BOOLEAN /\ stream \in BOOLEAN
    /\ policy \in Policies /\ replaced \subseteq Launches /\ loaded \in [Launches -> Policies \cup {NoFile}]

\* Two launches may pass every check before either has a node, a failed query passes for a
\* free topic or port, and one message may reach both nodes.  Two nodes drive the motors
\* together only if one of them was enabled before it had discovered the other: a node that
\* was there and known at the enable is rejected until it ends, through every loss of the
\* stream, every new enable and every other node that comes and goes.
OnlyUndiscoveredRivals ==
    \A k, l \in driving : k # l => k \in unseen[l] \/ l \in unseen[k]

\* Such a pair does not last: one learns of the other, and its watchdog lets go.
Together == \E k, l \in driving : k # l
RivalsPart == Together ~> ~Together

\* A node is enabled by hand, or by the background shell of an --arm launch that has itself
\* seen the gamepad's stream and is done with its message: no other route leads to driving.
EnabledForAReason ==
    \A l \in enabled :
        \/ enabledBy[l] = "hand"
        \/ enabledBy[l] \in seen \cap WithArm /\ armer[enabledBy[l]] = "ended"

\* A node that drives has read scales and gains of the right sign, although only
\* check_onnx.py looks at them: both read the same numbers out of the same strings, unless
\* the file was replaced in between.
GainsWereChecked == \A l \in driving : l \in replaced \/ GainsFit(loaded[l])

\* A policy that passed check_onnx.py is refused by the node only for what that program does
\* not look at, or because it is another file by then.
RefusalExplained ==
    \A l \in Launches : at[l] = "refused" => l \in replaced \/ BeyondTheChecker(loaded[l])

\* A background shell stops looking for a node, also when none ever appears; and when the
\* node of its launch is up the shell comes to an end, by the message or for want of tries,
\* unless the node ends first.
ArmResolves ==
    \A l \in WithArm :
        /\ armer[l] = "seek" ~> armer[l] # "seek"
        /\ at[l] = "up" ~> (armer[l] = "ended" \/ at[l] = "dead")

-----------------------------------------------------------------------------
(* The inductive invariants behind them *)

\* How two nodes with a request stand to each other: the one enabled later knew of the
\* other, and cannot drive as long as that is up, or did not.
RivalsKnown ==
    \A k, l \in enabled : k # l =>
        \/ k \in unseen[l] \/ l \in unseen[k]
        \/ k \in knows[l] /\ l \notin driving
        \/ l \in knows[k] /\ k \notin driving

\* What a background shell stands for: its launch has seen the stream.
ShellsSawStream ==
    \A l \in Launches :
        /\ at[l] = "launch" /\ l \in WithArm => l \in seen
        /\ armer[l] \in {"seek", "settle"} => l \in seen \cap WithArm
        /\ armer[l] # "none" => at[l] \in {"starting", "up", "refused", "dead"}

\* What a launch has to do with a file that was not replaced under it.
FilesWereChecked ==
    \A l \in Launches :
        /\ at[l] \in BetweenCheckAndLoad => l \in replaced \/ CheckerAccepts(policy)
        /\ at[l] \in {"up", "refused"} =>
              /\ l \in replaced \/ CheckerAccepts(loaded[l])
              /\ loaded[l] \in Policies
              /\ at[l] = "up" <=> NodeLoads(loaded[l])

-----------------------------------------------------------------------------
\* scripts/run_policy_on_robot.sh:462, 482: without --arm the node starts disabled, and to
\* execute the policy one restarts with --arm.  While no --arm launch is left, only a message
\* by hand enables a node; but the background shell of an earlier launch outlives it.
SafeStartStaysDisabled ==
    [][\A l \in enabled' \ enabled : enabledBy'[l] # "hand" =>
         \E k \in WithArm : at[k] \notin {"new", "refused", "dead"}]_vars

\* scripts/check_onnx.py:161: "PASS: BALLET ONNX contract is compatible with this deploy
\* runtime".  The node of a launch that passed the check does not refuse the same file.
PassedIsCompatible == \A l \in Launches : at[l] = "refused" => l \in replaced
=============================================================================
