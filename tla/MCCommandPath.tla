---------------------------- MODULE MCCommandPath ----------------------------
(* Small instances of CommandPath for TLC: two joints, settings with a target that is     *)
(* gated and one that is not, and other programs' datagrams.                             *)
EXTENDS CommandPath

OneSetting == {[targets |-> <<2, -1>>, mask |-> <<0, 2>>, velocity |-> <<1, 0, -1>>]}

\* Not finite, and valid with a target out of range and masks about the threshold.
Strangers ==
    {[floats |-> <<1, 1, 2, 2, 1, 0, 0>>, finite |-> FALSE],
     [floats |-> <<3, -2, 1, 0, 5, 0, 0>>, finite |-> TRUE]}

AllPackets == {Vector(s) : s \in OneSetting} \cup Strangers

\* Every element of every term has a value of its own.
TwoJointRobot ==
    [base_ang_vel |-> <<11, 12, 13>>, imu_lin_acc |-> <<21, 22, 23>>,
     projected_gravity |-> <<31, 32, 33>>, joint_pos |-> <<41, 42>>, joint_vel |-> <<51, 52>>,
     actions |-> <<61, 62>>, axis_actual_normalized |-> <<71, 72>>]
=============================================================================
