# A verification project for the G1 29-DoF ballet deployment

TLA+ models of `wbc_ballet-29dof_deploy`: the ROS 2 node that drives the G1 robot
with an ONNX policy, the UDP protocol that feeds it, the operator's application
that streams the commands and edits patterns, the way of a command from one to the
other, the script that launches the node, and the two programs that judge a
policy file. TLC checks small instances; TLAPS proves every safety property of
the passing runs for every value of the constants, and for five of the six
statements that the code does not keep, when it does keep them.

    tlc -config BalletNode.cfg MCBalletNode     # any row of "Runs"
    tlapm BalletNodeProofs.tla                  # any *Proofs module

Paths below are relative to the repository; `policy_node` is
`src/g1_ballet_policy_node.cpp` and `emulator` is `gamepad/game_emulator_run_v1.py`.


## 1. The system

    operator ──clicks──▶ PatternEditor ──Save & Play──▶ AxisControlApp
                                                            │ UDP, 244 bytes, 50 Hz
    operator ──shell──▶ run_policy_on_robot.sh              ▼
                          │ exec        │ background    socket of BalletUdpReceiver
                          ▼             ▼ shell             │ poll, once a period
    robot ──/lowstate──▶ executor thread ◀─/ballet/enable   ▼
                          │        └───── mu_ ─────── policy thread (50 Hz)
                          └──lowcmd timer (500 Hz)──▶ /lowcmd ──▶ motors

| component | state it keeps | operations | what it talks to |
|---|---|---|---|
| `G1BalletNode`, executor thread | with the policy thread, under `mu_`: `state_`, `have_state_`, `state_stamp_`, `requested_enable_`, `ever_armed_`, `phase_`, `q_desired_` … | `on_low_state`, `on_enable`, `publish_lowcmd_tick`, the destructor | `/lowstate`, `/ballet/enable`, `/lowcmd` |
| `G1BalletNode`, policy thread | `next` (its deadline), the copy of one tick; under `mu_` also `ramp_q0_`, `ramp_start_`, `last_action_`, the command and `command_stamp_` | `policy_loop`, `policy_tick`, `fail_safe` | the receiver, the ONNX session, the DDS graph (`count_publishers`) |
| `BalletUdpReceiver` | a bound socket and its queue | `poll` | the policy thread, by return value and output arrays |
| reference protocol (`reference/ballet_udp_protocol.py`) | `self.command` | `UdpCommandReceiver.poll`, `BalletCommand.from_bytes` | what the receiver says it matches |
| `AxisControlApp` (emulator) | sliders and switches, `pattern_*`, `_next_send_deadline`, `_next_gui_refresh_at` | `_stream_vector`, `pattern_frame_index`, `_schedule_next_stream`, `on_save` | UDP; the editor through `on_save` |
| `PatternEditor` (emulator) | tracks, pins, duration, active axis; what is saved between two windows | click and drag, Apply, Reset Axis, Reset All, Save & Play | `AxisControlApp` |
| launcher script | none but its place in the script; a background shell with `--arm` | live checks, `schedule_arm`, `exec` of the node | the DDS graph, the UDP port, other launches |
| policy file: `OnnxPolicy`, `scripts/check_onnx.py` | a graph and strings of metadata, constant once read | what each program accepts; inference | the launcher; the policy thread |
| packet inspector (`inspect_gamepad_udp.py`, `check_live_gamepad_udp`) | a socket bound with `SO_REUSEADDR` | reads what it gets | takes the node's datagrams |
| training reference (`reference/ballet_*.py`) | the 61-float command tensor | `UdpBalletCommand.compute`, the observation terms | a contract the node has to keep |
| LowCmd CRC (`motor_crc_hg.hpp`) | none | `get_crc` | `publish_lowcmd_tick` |
| static source checks (`check_contract.py`, `check_io_contract.py`) | none | one-shot searches for texts | files |

### What is hard about it

* **Two threads, one mutex, many copies.** The executor and the policy thread
  share everything under `mu_`, and hold it for short sections only: a policy tick
  copies, decides without the mutex, and commits; a lowcmd tick copies, and decides
  and publishes without the mutex. Between any two sections a LowState, a
  disable, a disable and a new enable, or a `fail_safe` may have happened.
* **Time.** Three time-outs (LowState, command, ramp) are read from copies, once
  a period, by a thread that may be late and drops deadlines when it is more
  than a period late. The emulator schedules against absolute deadlines as well.
* **The network.** Datagrams are lost, overtaken and repeated without a sequence
  number that would tell; they arrive during a drain, malformed ones among them;
  the socket's queue drops the newest when it is full; a later socket on the same
  port takes them all. The stamp a command gets is that of its processing.
* **Two programs, one format.** A command has three layouts (wire, tensor,
  observation), in Python and C++; a policy's metadata is split by both.
* **Discovery.** The node rejects competing publishers, but can count only those it has
  discovered so far; two nodes that come up together may each see none.
* **Failure in the middle.** A `send` that fails skips the end of a playback's
  callback; a query of the launcher that fails counts as "nothing there"; a
  launch that is interrupted leaves its background shell behind.
* **Long legal sequences.** Sessions that re-arm, edits that resample and are
  edited again, launches that overlap.

### What makes each component correct

* Node: position control only while a request stands and for a bounded time after
  any cause of failure; every frame pairs its gains with a target of the same
  stage; a ramp is never cut short; requests are answered; shutdown ends; seen from
  `/lowcmd`, the sequential machine of `docs/ARCHITECTURE.md`, "State flow".
* Receiver: last-value semantics, exactly those of the reference receiver.
* Command path: the policy observes what one sender's settings at one moment mean to
  training, and a node that drives follows a datagram that is not older than a bound.
* Policy file: what `check_onnx.py` passes the node can read, and reads alike.
* Stream: no pause longer than one period, one late start and one callback; a
  playback lasts as long as it says; it hands over in the neutral pose.
* Editor: a value for every frame, a frame for every pin; ends at the baseline;
  monotone between pins; an edit moves what it touches and nothing else.
* Launcher: two nodes drive together only if one was enabled before it had discovered
  the other, and not for long; every request has a message of its own behind it, by hand or
  of a shell that has seen the gamepad; a background shell that ends.

The list of what can go wrong, each at its line, is `hazards` in `PROJECT.json`.


## 2. The modules

| module | models | proofs |
|---|---|---|
| `LowCmdContract` | what the robot may rely on: the abstract specification of the node | |
| `CommandWatch` | what the policy loop promises about the command: an abstract specification of `BalletNode`, and the loop that `CommandPath` is composed with | |
| `BalletNode` | the node's two threads, its messages, time; implements the contract and the watch | `BalletNodeProofs` |
| `NodeDeadlines` | `BalletNode` with two clocks: how long an enable request and the destructor's join have waited | `NodeDeadlinesProofs` |
| `BalletProtocol` | a datagram of 2N + 3 floats, and its decoding by each side | |
| `UdpCommandReceiver` | the reference receiver: the abstract specification of the next | |
| `BalletUdpReceiver` | the node's receiver and the store after it | `BalletUdpReceiverProofs` |
| `BalletObservation` | the sender's vector, the node's observation, training's tensor and observation | `CommandPathProofs` |
| `CommandPath` | composes sender, network, inspector, `BalletUdpReceiver` and `CommandWatch` | `CommandPathProofs` |
| `GamepadStream` | `AxisControlApp` | `GamepadStreamProofs` |
| `PatternEditor` | `PatternEditor` and what is saved between two windows | `PatternEditorProofs` |
| `PolicyContract` | what `check_onnx.py` and `OnnxPolicy` accept | `LauncherProofs` |
| `Launcher` | `run_policy_on_robot.sh`, several launches, their nodes, what these have discovered, and policy files | `LauncherProofs` |
| `MC…` | the constants of an instance that a `.cfg` cannot write | |

In every module a definition whose comment begins with "Regression:" is a
plausible bug in the definition it precedes. It is no part of the specification:
each property of each run is shown to fail with one of them in its place
(`mutants` in `PROJECT.json`).

### BalletNode

Every section the code runs under `mu_`, and every stretch between two of them,
is one action. `ppc` and `xpc` say where the policy thread and the executor are.

| code | action |
|---|---|
| `on_low_state`, `on_enable` | `OnLowState`, `OnEnable` |
| `publish_lowcmd_tick` up to the unlock; after it | `LowcmdSnapshot`; `LowcmdPublish` |
| `policy_loop`: waking, advancing or resetting `next`, leaving | `Begin`, `LoopExit` |
| `policy_tick`: `poll`; the store under `mu_`; the copy under `mu_` | `Poll`; `StoreCommand`; `Snapshot` |
| the checks on the copy, the observation, the inference | `CheckSkips`, `CheckFails`, `CheckProceeds` |
| `fail_safe` | `FailSafe` |
| the three commits under `mu_` | `Arm`, `Ramp`, `Commit` |
| `spin` returns and the destructor runs | `Shutdown` |

A time stamp is kept as its age, "now − stamp", which `Tick` increments and which
saturates one above the largest value the code can tell apart; nothing a guard
or a property looks at is lost by that. `toNext` is `next − now`. A copy that
the code compares with the present (`snap.stateAge`, `view.stateAge`, `planAge`)
ages as well, as long as the comparison lies ahead.

Data is kept as far as a check of the code tells it apart. A LowState is *safe*,
*unsafe* (mode machine, tilt) or *safe with a non-finite joint*; the motor
targets are named by where they come from (`zero`, `measured`, `blend`,
`default`, `actor`, `nonFinite`); an inference is a choice between a finite
action and a failure. The 186 observations, gains, CRC and message layout are
left out here (`BalletObservation` has the observation). The order of the checks inside a tick is immaterial: each failing one
calls `fail_safe`, so `ChecksPass` is their conjunction.

`operator`, `watched` and `faultAge` are history: the last enable message, a
cause of failure chosen at the start, and how long it has held *in reality*,
not in a copy.

`LowCmdContract` knows no threads: an enable request stands or not, the motors are
driven by nothing, the ramp or the policy, and a frame is decided by one look at
that. The mapping is `phase_` for the control, `requested_enable_` for the request,
the timer's copy for the look, and the gains of the last frame. Most of the node's
steps are stutters of it; `CheckFails`, the re-checks in `Arm`, `Ramp` and `Commit`
and the order of their assignments are what makes the others legal steps.

`CommandWatch` is the node seen from its command: a loop that wakes once a period and is late
by `MaxLate` at most, a store, a decision that lets the node drive only on a command within
the time-out, and the operator's disable at any time. The mapping takes `phase_` out of Idle,
or a tick that has decided to leave it (`ppc = "arm"`), for driving, and everything after the
decision of a tick (`fail_safe`, the three commits) for its end. Until a first command has come the age is of no
account and mapped to 0. The age saturates one above the time-out, where nothing tells ages apart.

`NodeDeadlines` adds two clocks that no action reads. `unanswered` runs while a request stands
with a LowState behind it and the policy is not active; `joining` while `policy_thread_.join()`
waits. Both saturate one above the bound that is claimed for them.

### BalletProtocol, BalletUdpReceiver and the reference

A datagram is a sequence of floats and a flag that all of them are finite. The
node reads it by index (`NodeDecode`), the reference by slices (`FromBytes`).
Numbers are counted in halves, so that the mask's threshold is `1` and the target
range `-2 .. 2`. One turn of the receive loop is a step (`Receive`), so datagrams
may arrive inside a poll. `Read` is `recvfrom` with a buffer of one packet.
`Reference` instantiates `UdpCommandReceiver` with `command <- RefCommand`: what the
caller's arrays hold while a poll has found something, the stored command
otherwise; the store is a stutter of the reference.

### BalletObservation

Three layouts of one command: `Vector` is the sender's, targets – mask – twist; `Tensor`
is `UdpBalletCommand.compute`, twist – targets – mask, cut by `ballet_velocity`,
`masked_ballet_targets` and `ballet_mask`; `Assemble` is the node's concatenation of
ten terms. `TrainingObservation` concatenates the same ten in the order of
`BalletPolicyCfg`. The six terms of the robot's sensors are given to both sides; their
arithmetic in the simulator is outside the repository. Note that the node gates a
target by `mask >= 0.5` and training by equality with 1: they agree because both
decoders make a mask 0 or 1.

### CommandPath

The receiver's actions, conjoined with what happens to the history of the datagram
they move: `tags`, `localTag` and `origin` say when the settings behind a datagram were
sent and which they were. Between sender and socket the datagrams are in `air`: each
is lost, delivered, or delivered and kept, which is a copy to come; the set has no order, so
that of two under way the later may arrive first. `Others` are datagrams of other programs. A
valid one (`Disturb`) is somebody's settings as well, and takes the same way; a malformed one
(`Garble`) appears at the socket, since how long it was under way concerns nobody. While
`inspecting`, a later socket is bound to the port: `SO_REUSEADDR` gives it every
datagram, and the node starves.

The policy thread is the one of `CommandWatch`: each action of the thread is an action of the
watch (`Wake`, `Keep`, `Decide`, `Stop`, `Tick`) conjoined with the receiver's (`poll` as the first
call of a tick, the store) and with the history. Without a fresh command the node does not
drive; with one it may, and every other reason for which it stops is in the choice of `Decide`.
`BalletNode` is proved to implement the watch (`NodeImplementsWatch`): whatever its two threads do
to the command and its age, the watch has a step for, so what the path shows for every behaviour of
the watch covers the node. The step that ends the loop (`End`) is not composed: the path is
the node until its shutdown.

### GamepadStream

Deadlines and start times are kept as differences from now. A callback is `Play` or
`Live` followed by `Schedule`, up to `Work` ticks later; it begins up to `Late`
ticks after its deadline because other Tk callbacks run first. `ok` says whether
the send succeeds. Of a frame only "neutral or not" is kept, since this is all the
handover depends on.

### PatternEditor

Tracks and pins are kept as they are, with integers for values and quotients
rounded down; that keeps the order of values, as float32 rounding does. A duration
is counted in half stream periods so that Python's rounding of halves to even can
happen. A click and every motion of a drag is `Click`. The smoothstep is a cubic
over integers (`Segment`). One difference to float32: the code fills a segment with both of its
ends, and `y0 + (y1 - y0) * s` may miss `y1` by a rounding there and at every frame it fills
again, so what the model calls unchanged is unchanged up to that rounding.

### PolicyContract and Launcher

A policy file is a graph (number, type and dimension of its tensors) and metadata,
each string the sequence of its fields between commas. `CheckerAccepts` and
`NodeLoads` read them as `float_csv` and `split_floats`/`split_strings` do: an empty field
is an error for Python and skipped by `getline`; `1rad` is an error for Python and `1` for
`std::stof`; `1e39` and `1e-40` are numbers for Python and thrown out by `std::stof`. Spellings
that no exporter of numbers writes (underscores, hexadecimal) are left out.

Each launch is a process with a place in the script (`at`), and possibly a
background shell (`armer`), which looks for a node by its name (`Named`, from the first line of the
constructor on) a bounded number of times. A check that asks the outside may get no answer
(`answered`), which the script takes as "free". The file at `POLICY_PATH` is checked
in `Preflight`, may be replaced at any time (`replaced` remembers under whom) and is
read in `NodeStarts`, whose constructor throws for a file it does not accept.
Of the node it keeps up / enabled / driving; `Drive` and `FailSafe` are `policy_tick`
seen from outside.

The node counts the publishers it has discovered (`count_publishers`, line 571), not those there
are. `knows` is what each node's participant has learnt of: `Discover` and `Forget` follow the facts
at any later time, and `ChecksPass` looks at `knows` alone. An enable message reaches any subset of
the nodes that are up, the ones matched by then. `enabledBy` and `unseen` are history, written where a
request is set (`Request`) and cleared with it (`Withdraw`): whose message it was, and which nodes were
up then without being known.


## 3. Runs

| run | instance | what it shows |
|---|---|---|
| `node` | period 1, ticks up to 2 late (the reset of `next` happens), ramp of 2, reports of both kinds, rivals looked for, every cause watched | position control needs a standing request and what arming needs (`RunningNeedsRequest`); none after a disable, the frame in flight included (`NoPositionAfterDisable`); frames pair gains and targets (`FrameMatchesPhase`); no short ramp (`RampTakesItsTime`); every cause ends position control in time (`WatchdogReaction`, `PositionFrameBound`); the threads implement the contract (`ImplementsContract`) |
| `node_live` | smallest time-outs, ticks up to 2 late, rivals looked for, the two clocks of `NodeDeadlines`, fairness | a request is answered, within `EnableBound` (`EnableAnswered`) and at all (`EnableResolves`); the join returns, within `JoinBound` (`JoinReturns`) and at all (`StopsOnShutdown`); an armed idle node damps (`IdleDamps`); the threads implement the watch over the command (`ImplementsWatch`) |
| `path` | two joints, one setting, a valid and a malformed datagram of another program, a queue of two, two datagrams under way that may overtake and repeat each other, a delay of 1 | `SeesWhatWasSent`, `DrivesOnRecentData`; of the receiver inside, `NewestIsStored` and the refinement `MatchesReference` |
| `stream` | period 2, up to 3 late, 1 of work, GUI period 5, two patterns | `StreamKeepsUp`, `PlaybackOnTime`, `HandsOverNeutral`, and with fairness `PlaybackEnds` |
| `editor` | two axes, durations of 3, 6 and 7 frames, three edits | `EndsNeutral`, `MonotoneWhenBuilt`, `OtherPinsHold`, `ClickIsLocal` |
| `launcher` | two launches, `--arm` and plain; two tries; three policy files; discovery as late as can be | `OnlyUndiscoveredRivals`, `EnabledForAReason`, `GainsWereChecked`, `RefusalExplained`, and with fairness `ArmResolves` and `RivalsPart` |
| `doc_lowstate`, `doc_ramp`, `doc_oversized`, `doc_editor`, `doc_launcher`, `doc_checker` | as above; the receiver alone for `doc_oversized`, a third launch (`--arm --check-only`) for `doc_launcher`, one launch for `doc_checker` | statements of the documents that the code does not keep: section 5 |

Every passing run also checks its module's `TypeOK` (`PathTypeOK` in `path`), except
`node_live`, whose `TypeOK` is the one `node` checks and the proofs cover.

### Bounds, and why they are enough

* *Time constants of the node.* What matters is their order: a time-out can
  expire within a tick, between two ticks, during a ramp, and while a frame is in
  flight. Period and time-outs of 1, `ExecLag` 1 and a ramp of 2 ticks have all
  of these; `MaxLate` is above the period, the threshold of the reset of `next`.
  `StateTimeout = 0` in `node_live` makes a LowState stale at the next tick, so the
  run is about cancellation as well as success. The proofs hold for every value.
* *`MaxLate`* is also an assumption: a policy tick ends within it. Nothing in the
  code bounds a `poll` that never finds the socket empty, or an inference; the
  bounds on reaction are relative to how late such a tick may be.
* *`Watched`.* Following one cause at a time keeps the state space small and loses
  nothing: the causes do not interact in the bound, and the run picks any of the set.
* *`path`.* Two joints tell an index of a joint from its neighbour's, and a layout
  from another; the setting has a joint that is gated and one that is not. The
  strange datagrams differ where a decoder looks: finiteness, target beyond the range, masks
  about the threshold (a datagram of another length is in `doc_oversized`). A queue of two
  holds a valid and an invalid datagram, with arrivals during the poll. With two datagrams
  under way a later one may be sent, delivered, processed and stored while an earlier one, or a
  copy of it, is still to come and takes its place. The proofs hold for every number of joints,
  of datagrams under way, queue and delay.
* *Stream.* `Late > Period` makes deadlines be skipped; `Refresh` is no multiple
  of `Period`; one pattern has fewer frames than its duration has periods, the
  other (saved without Apply) more.
* *`MaxEdits = 3`* bounds clicks and Applies together; resets, saves, closings,
  reopenings and typing are not bounded. Three suffice for draw – Apply –
  draw, for pins that merge, and for a drag over an end. With five or fewer
  pins on an axis every configuration of neighbours of a click occurs.
* *Policies.* One file fits, one has a gain only the node reads, one only `check_onnx.py`
  accepts; `CheckerCovers` and `GainsAgree` are proved for every file.
* *Two launches* give an armed one racing a plain one: a rivalry is a matter of two nodes, and
  the message of one launch's shell may reach the node of the other, after the death of its own
  launch as well. A launch that is dead does not come back, a new launch is another member of
  `Launches`. The theorems hold for any number.

`CHECK_DEADLOCK` is on everywhere: no modelled system stops for good, since time,
datagrams or the operator go on.

### Fairness

* `BalletNode!Fairness`, of `FairSpec` and `TimedFairSpec`: weak fairness of the policy thread (a loop whose steps
  are bounded), of time, and of the two halves of the lowcmd timer's callback (a
  periodic timer on a spinning executor). No message is fair: the robot may fall
  silent, the operator may never enable, no datagram need come.
  The timer callback is fair, although the executor also has subscriptions to
  serve: they are finite bursts between two timer expirations, rclcpp's
  executor takes a timer that is ready before the next subscription.
* `GamepadStream!FairSpec`: the Tk loop runs what is due (weak), and a send
  succeeds again and again (strong fairness of `Play(TRUE)`): with a network that
  never sends again a playback does not end, and the code does not claim so.
* `Launcher!FairSpec`: the background shell, a bounded loop nobody interrupts; the checks of a
  node that drives, which its policy thread makes once a period; and `Discover`, which the
  participants repeat until it succeeds. Nothing else: not the script, the operator's hand,
  an arming, or the end of a node.


## 4. Proofs

All theorems are proved for every value of the constants under the assumptions the
modules name: `ClockAssumption`, `SupervisorAssumption` (node), `JointsAssumption`,
`PacketsAssumption`, `PathAssumption` (receiver and path), `StreamAssumption` (stream),
`EditorAssumption` (editor), `NamesAssumption`, `LauncherAssumption` (launcher). They
say that periods, ramps and lateness are naturals, and that the sets of inputs are
subsets of what a LowState, a datagram, a pattern or a policy file can be.

**BalletNode.** `TypeCorrect`, `RequestStands`, `DisableStops`, `FramesMatch`,
`WatchdogReacts`, `PositionFramesEnd`, `RampIsNotCutShort`, `NodeImplementsContract`,
`NodeImplementsWatch`, `FiniteRampEndsAtDefault`, `FramesAreFinite`. None of the properties
is inductive: they speak of the shared state, and the thread that changes it acts
on a copy. `IInv` says for each place of each thread how far its copy may lag:

* `PhaseInv`: only the policy thread leaves Idle, so between its copy and its
  commit the phase has stood still or fallen to Idle; a tick about to arm finds it
  Idle, one about to ramp does not find it Active.
* `TargetInv`: the targets in `q_desired_`, in the timer's copy and in the plan
  belong to the phase beside them. The crux is a disable and a new enable
  during a ramping tick: `ppc = "ramp" /\ phase = "Ramping"` then rules it out,
  because the new session is still Idle.
* `RampClockInv`: `ramp_start_` was set in the tick that arms, and a ramp's plan is
  no older than the ramp.
* `FaultInv`: how old a lasting cause may be, by where the policy thread stands. A
  tick that has passed its checks saw no cause since it began (`SinceBegin`); a
  tick that has still to check follows one that had, a period earlier, plus
  `Slip` when `next` was reset. Hence `ReactionBound = 2 Period + MaxLate + Slip`.

`Invariance` combines one lemma per part; each has one step per action. The
refinement rests on it: a commit of the policy thread is a step of the contract
because `PhaseInv` says what may have happened since the copy. So does the one to the
watch: a tick that goes on to its commit found the command fresh in its copy, the copy's command
is the stored one, and its age the stored age, because nobody else stores.

`FiniteRampEndsAtDefault` and `FramesAreFinite` assume that no LowState holds a non-finite joint
(`"nanJoint" \notin Reports`). The first is then what the documents say of a ramp's end, which
`doc_ramp` refutes without that assumption, so the missing test is the only way to miss the
default pose; the second says that no frame on `/lowcmd` holds a non-finite target. `FiniteInv`
follows the targets through the shared state, the ramp's start, the timer's copy and the plan.

**NodeDeadlines.** `EnableIsAnswered` and `JoinIsBounded` are the safety behind two of the
liveness properties, and stronger: by when. `EnableBound` is a reaction, the ramp less a
tick, and a reaction; small instances reach it, so it is not loose. A request that comes just after the copy of a tick is seen by the next one; a ramp
that a tick finds one tick of the clock short of its end goes on for a tick more. Neither
bound is inductive. `DeadlineInv` says how long the request may have stood by where the policy
thread is: in Idle, a tick whose copy shows the request acts on it, one whose copy does not
began before the request came (`IdleInv`); while ramping, no longer than the ramp plus a
reaction, until the ramp is over and the tick under way, or the next, sees it (`RampingInv`).
It uses the node's `IInv`, which holds because the clocks change nothing (every timed step is a
step of `Next`). TLC checked `DeadlineInv` on instances with other periods, latenesses and
ramps before it was proved.

**BalletUdpReceiver.** `DecodersAgree`: by index and by slices, for every packet and
number of joints. `ReceiverTypes`, and `NodeMatchesReference`: if no datagram is longer
than a packet, every behaviour of the node's receiver is one of the reference under
`RefCommand`/`RefPc`. The hypothesis is needed, see `doc_oversized`. The invariant is
`TypeOK`, whose last two conjuncts say that `got_valid` is false between ticks and
true at the store. `NewestStays`, under the same hypothesis, from `NewestInv`: the newest
valid datagram waits in the queue with no valid one behind it, or is in the
caller's arrays, or is stored.

**BalletObservation and CommandPath.** `ObservationsAgree` (node and training, position by
position) and `SettingsSurvive` (sender to observation) are facts about concatenations
and slices. `PathTypes`, `DataIsRecent`, `SeenAsSent` follow from two invariants;
`PathMatchesReference` and `PathKeepsNewest` from the receiver's theorems, since the path
runs the receiver as it is (`PathRunsReceiver`). Of the policy thread they use the actions of
`CommandWatch` and nothing else. `MeaningKept`: every copy on the way, in the air, in the queue, in the
caller's arrays and in the store, means what its tag says. `AgesBounded`: how old a tag
may be by where its datagram is; what waits in the queue was left by the drain of the
tick before, so it is younger than that tick plus the delay, and `poll` is the only
place where that grows by a period. Hence `DataBound`: the time-out, twice the
watchdog's reaction, and the delay.

**GamepadStream.** `StreamTypes`, `StreamIsTimely`, `PlaybackIsTimely`,
`PlaybackHandsOver`, from `StreamInvariance`. `GapInv` is the balance between the
last send and the next deadline; `PlayInv` says a playback that goes on had not
reached its end at its last send, and then showed the frame of that moment. Lemmas about the arithmetic carry it:
`NextDeadlineAhead` (the next deadline is ahead, within a period),
`FrameWithin` and `FrameAdvances` (`pattern_frame_index` stays in the pattern and
is monotone in time).

**PatternEditor.** `EditorTypes`, `EndsStayNeutral`, `BuiltIsMonotone`, `PinsHold`, `ClicksAreLocal`,
for every set of axes, range of values, duration and stroke. `EditorInv` is `Sound` for the window
and for the saved pattern, since reopening brings the latter back. The lemmas
below it: the pins around a frame exist (`Neighbours`, by well-foundedness of `<`
on the naturals, for `Before` and `After`); the cubic 3t² − 2t³ is between 0 and 1 and
rises (`CubicRises`); a quotient rounded down keeps order and interval (`FloorMonotone`,
`FloorBetween`), so that a rounded segment is monotone as well (`SegmentShape`,
`RebuildShape`); Python's rounding maps the pins into the new frames (`RoundShape`,
`RescaleShape`); interpolation stays between its neighbours and keeps both ends
(`ResampleShape`). For `ClicksAreLocal` the invariant had to say more than "monotone": a
track made from its pins is a fixed point of `Rebuild`, which is why filling the whole axis
again leaves the segments alone that the new pin does not touch. `RebuildTwice` (idempotence),
`FlatSound` (a flat track is one) and `RebuildLocal` (a new pin is no neighbour of the frames
behind another pin) carry it.

**PolicyContract and Launcher.** `CheckerCovers`: whatever `check_onnx.py` accepts the node
loads, unless it is `BeyondTheChecker`; `GainsAgree`: the signs it has looked at are
those the node reads. Both are for every file and list of joints. `CheckerGapIsExact` is the
converse: each of the three things that `BeyondTheChecker` lists makes the node refuse, so the list
is complete and has nothing in it that does not matter. `PassIsEnough` takes it to the system:
where no file is beyond the checker, what `doc_checker` refutes in general holds. `LauncherTypes`,
`RivalsWereUndiscovered`, `EnablesHaveReasons`, `GainsAreChecked`, `RefusalsAreExplained`. That two
drivers had not discovered each other is not inductive, since both may hold a request long before
either drives. `RivalsKnown` speaks of every two nodes with a request: the one enabled later either had
not discovered the other, or it knows it now and does not drive. What is known stays known while the
other is up, and a request ends with its node, so the second case lasts as long as both requests do; a
new enable decides anew. `ShellsSawStream` follows the promise of a background shell from the gamepad's check to
the message; `FilesWereChecked` follows the file from `Preflight` to the constructor.

**Only model-checked.** The liveness properties: `EnableResolves`, `IdleDamps`,
`StopsOnShutdown`, `PlaybackEnds`, `ArmResolves`, `RivalsPart`. Liveness is outside the proof system's
reach. Every other property of a passing run has a theorem. For three of the six the bound
behind them is proved (`EnableIsAnswered`, `JoinIsBounded`, `PlaybackIsTimely`), so that only "time
passes, and a thread that is due runs" is left to TLC. `IdleDamps` has no bound, since the period of
the lowcmd timer is not modelled; of `ArmResolves` the bound is the loop counter of the shell;
`RivalsPart` has none, since nothing in the code bounds how long DDS takes. `ArmResolves` says of every background shell that it stops looking, and
that it ends if its launch's node is up; a shell that has seen a node's name waits in
`ros2 topic pub --once` for a subscription, for ever if that node dies and no other comes.

**What the code does not keep, and when it does.** Of the six statements of section 5 one,
`doc_lowstate`, is a liveness property. Each of the others has a theorem that names what suffices for
it, so that the counterexample of its run is the only kind there is:

| run | the statement holds if | theorem |
|---|---|---|
| `doc_ramp` | no LowState holds a non-finite joint position | `FiniteRampEndsAtDefault` |
| `doc_oversized` | no datagram is longer than a packet | `NodeMatchesReference` |
| `doc_editor` | Apply never changes the number of frames | `ResamplingAlone` |
| `doc_launcher` | no background shell outlives its launch | `OrphansAlone` |
| `doc_checker` | no file is beyond what `check_onnx.py` looks at | `PassIsEnough` |

The conditions of `doc_editor` and `doc_launcher` are on behaviours (`[][~Resamples]_vars`,
`[]ShellsEndWithLaunch`), the others on constants.


## 5. Where the code and its documents disagree

Each is a run whose single property states the document; TLC shows a behaviour of
the code that violates it. Details and quotations are in `findings`.

* `doc_lowstate`: the documents clear the request when `/lowstate` is missing or
  stale. A request made before the first LowState stands, and arms at the first
  LowState; a gap only the 500 Hz timer saw is answered with damping, after which
  position control resumes without a new enable.
* `doc_ramp`: a non-finite joint position at arming makes the target of the whole
  ramp non-finite; the finiteness of inputs is tested in Active only.
* `doc_oversized`: a datagram longer than a packet is accepted by its head, where
  the reference ignores it.
* `doc_editor`: after Apply a track need not be monotone between two pins.
* `doc_launcher`: the background shell of a dead `--arm` launch enables the node of
  a later launch without `--arm`.
* `doc_checker`: a file that `check_onnx.py` calls compatible is refused by the node, which
  also looks at the element type of the tensors and reads numbers as float32.

An observation on data rather than code: the metadata of the committed
`policy/policy.onnx` has `joint_stiffness` 1.000 and `joint_damping` -0.000 for all 29
joints. Both programs accept it (a negative zero is not negative), and the properties
allow a gain of zero as the programs do.


## 6. Not modelled, and abstractions to know of

* The LowCmd CRC: a sequential pure function whose reference, the robot's firmware, is
  not in the repository; equality with a table would restate its loop.
* The static source checks: stateless searches for literal texts; the launcher has them
  in `Preflight`, which goes on or dies.
* The training configuration (simulator, learner, `g1_constants.py`): declarative, no
  operation of the deployed system. Of `ballet_commands.py` the tensor is modelled; the
  random generator, the curriculum's blend, the critic and the noise are not.
* The session and `infer` of ONNX Runtime: a choice between finite, non-finite and an
  exception, in `BalletNode`; "is there a session" is one bit in `PolicyContract`.
* Build files have no behaviour.
* DDS: messages reach the node or do not, in `Launcher` any subset of the nodes; discovery
  there takes any time, and only of nodes of this program (a foreign publisher of `/lowcmd` is
  `rival` in `BalletNode`).
* The executor runs one callback at a time, as `rclcpp::spin` does; the
  multi-threaded executor is not used by the code.
* The kernel's queue drops what finds it full; UDP reordering and duplication are
  covered, since any datagram may arrive at any time.
* The launcher's installation and detection stages are one step that goes on or dies.
* In `BalletNode` the receiver is one bit (`inbox`); `CommandPath` has the receiver and of
  the node its watch over the command. A product of both in full is out of TLC's reach; what
  ties them is that `CommandPath` is composed of `CommandWatch`, which `BalletNode` is
  proved to implement.
* Drawing, pixels, labels and logs of the emulator; the port and IP settings.


## 7. Plan

Written so far, in this order: the node with its contract, the receiver with its
abstract specification, the stream, the editor, the command path with the
observation, the policy file and the launcher; proofs for each; the watch, which
ties the command path to the node; deadlines for what was liveness only; a discovery that is late.

Left, in the order of what they would show:

1. How far `Resample` may take a track from the one its pins would give, as a bound.
2. How long two nodes may drive together if DDS tells a node of another within a given time:
   `RivalsPart` with a clock, as `NodeDeadlines` has them.
3. The stages of the launcher that build and detect (build stamps, a policy file that git
   calls dirty), if they turn out to hold state worth a property.

Runs are grouped by component and instance; a new question is added to the run
of its component where the instance allows it, and takes a run of its own only
when it needs other constants.
