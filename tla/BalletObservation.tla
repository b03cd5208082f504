------------------------- MODULE BalletObservation -------------------------
(***************************************************************************)
(* What the operator's settings become on their way to the policy: the     *)
(* sender's vector, the ten terms the node concatenates, and the ten terms *)
(* the training stack concatenates from its command tensor.  The six terms *)
(* of the robot's sensors are given: their arithmetic on the training side *)
(* is outside the repository.  The other four, which depend on the         *)
(* command, are computed.                                                  *)
(***************************************************************************)
EXTENDS BalletProtocol

Triples == [1 .. 3 -> Int]
PerJoint == [Joints -> Int]

\* The terms a LowState and the last action give.
Robots ==
    [base_ang_vel : Triples, imu_lin_acc : Triples, projected_gravity : Triples,
     joint_pos : PerJoint, joint_vel : PerJoint, actions : PerJoint,
     axis_actual_normalized : PerJoint]

-----------------------------------------------------------------------------
(* The sender: sliders, switches and twist; a pattern's frame has the same  *)
(* shape.                                                                   *)

Settings ==
    [targets : [Joints -> -One .. One], mask : [Joints -> {0, One}],
     velocity : [1 .. 3 -> -One .. One]]

\* Regression: the twist comes first, as in the training tensor.
VectorTwistFirst(s) ==
    LET visible_targets == [j \in Joints |-> IF s.mask[j] >= Half THEN s.targets[j] ELSE 0]
    IN  [floats |-> s.velocity \o visible_targets \o s.mask, finite |-> TRUE]

\* "Canonical UDP representation: an inactive axis always carries target 0."
Vector(s) ==
    LET visible_targets == [j \in Joints |-> IF s.mask[j] >= Half THEN s.targets[j] ELSE 0]
    IN  [floats |-> visible_targets \o s.mask \o s.velocity, finite |-> TRUE]

-----------------------------------------------------------------------------
(* The node's policy_tick *)

\* Regression: the target of an inactive joint is not gated.
AssembleUngated(robot, cmd) ==
    robot.base_ang_vel \o robot.imu_lin_acc \o robot.projected_gravity \o cmd.velocity
      \o robot.joint_pos \o robot.joint_vel \o robot.actions \o robot.axis_actual_normalized
      \o cmd.targets \o cmd.mask

Assemble(robot, cmd) ==
    LET gated == [i \in Joints |-> IF cmd.mask[i] >= Half THEN cmd.targets[i] ELSE 0]
    IN  robot.base_ang_vel \o robot.imu_lin_acc \o robot.projected_gravity \o cmd.velocity
          \o robot.joint_pos \o robot.joint_vel \o robot.actions \o robot.axis_actual_normalized
          \o gated \o cmd.mask

-----------------------------------------------------------------------------
(* The training stack *)

TargetStart == 3
TargetEnd   == TargetStart + N
MaskEnd     == TargetEnd + N

\* UdpBalletCommand.compute: the command of the protocol in the order of the tensor.
Tensor(c) == c.velocity \o c.targets \o c.mask

\* A Python slice.
Slice(tensor, first, end) == SubSeq(tensor, first + 1, end)

\* ballet_velocity, masked_ballet_targets and ballet_mask
VelocityCommands(tensor) == Slice(tensor, 0, TargetStart)
AxisMask(tensor)         == Slice(tensor, TargetEnd, MaskEnd)
AxisTargets(tensor) ==
    [j \in Joints |->
        IF AxisMask(tensor)[j] = One THEN Slice(tensor, TargetStart, TargetEnd)[j] ELSE 0]

\* BalletPolicyCfg: the terms in the order of the class, concatenated.
TrainingObservation(robot, tensor) ==
    robot.base_ang_vel \o robot.imu_lin_acc \o robot.projected_gravity
      \o VelocityCommands(tensor)
      \o robot.joint_pos \o robot.joint_vel \o robot.actions \o robot.axis_actual_normalized
      \o AxisTargets(tensor) \o AxisMask(tensor)
=============================================================================
