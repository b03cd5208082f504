----------------------------- MODULE MCLauncher -----------------------------
(* Small instances of Launcher for TLC: the launches are in the .cfg files; two   *)
(* joints; a good policy and its faulty copies.                                   *)
EXTENDS Launcher

TwoJoints == <<"hip", "knee">>

Ones == <<"1", "1">>
Good ==
    [session |-> TRUE, inputs |-> 1, outputs |-> 1, type |-> "float32",
     inputDim |-> 24, outputDim |-> 2,
     metadata |-> [joint_names |-> TwoJoints, observation_names |-> TermNames,
                   default_joint_pos |-> <<"-1", "0">>, action_scale |-> <<"0.1", "1">>,
                   joint_stiffness |-> Ones, joint_damping |-> <<"0", "0">>,
                   observation_terms_scale |-> TermScales, command_names |-> <<"ballet">>]]
With(key, fields) == [Good EXCEPT !.metadata[key] = fields]
\* For the launches: one both accept, one only the node does, one only check_onnx.py does.
FewPolicies ==
    {Good, With("joint_damping", <<"-1", "1">>), With("default_joint_pos", <<"1e39", "0">>)}

\* What check_onnx.py accepts: a good policy, one without the optional metadata, one of
\* half-precision tensors, one with a number below the range of float32.
DocPolicies ==
    {Good, [Good EXCEPT !.type = "float16"], With("default_joint_pos", <<"1e-40", "0">>),
     [Good EXCEPT !.metadata = [key \in RequiredKeys |-> Good.metadata[key]]]}
=============================================================================
