-------------------------- MODULE PolicyContract ---------------------------
(***************************************************************************)
(* The two programs that judge a policy file: scripts/check_onnx.py before *)
(* it is used, and the constructor OnnxPolicy of the node when it is       *)
(* loaded.  Each splits the same metadata strings in its own language.     *)
(*                                                                         *)
(* A string of the metadata is the sequence of its fields between commas,  *)
(* stripped.  Of the ways to write a number one of each kind is told       *)
(* apart: 1e39 and 1e-40 are numbers of Python's float that a float32      *)
(* cannot hold, 1rad is a number with a text behind it, "" an empty field. *)
(* Not among them are the spellings no exporter of numbers uses: digits    *)
(* grouped by underscores, hexadecimal numbers, and the white space that   *)
(* only Python strips.                                                     *)
(***************************************************************************)
EXTENDS Integers, Sequences, FiniteSets

CONSTANT JointNames     \* EXPECTED_JOINTS and kJointNames: 29 on the robot

ASSUME NamesAssumption == JointNames \in Seq(STRING \ {""}) /\ JointNames # <<>>

NumJoints == Len(JointNames)
ObsDim    == 4 * 3 + 6 * NumJoints

TermNames ==
    <<"base_ang_vel", "imu_lin_acc", "projected_gravity", "velocity_commands", "joint_pos",
      "joint_vel", "actions", "axis_actual_normalized", "axis_target_normalized", "axis_mask">>
TermScales == [i \in 1 .. 10 |-> IF i = 2 THEN "0.1" ELSE "1"]

FloatKeys    == {"default_joint_pos", "action_scale", "joint_stiffness", "joint_damping"}
RequiredKeys == {"joint_names", "observation_names"} \cup FloatKeys
OptionalKeys == {"observation_terms_scale", "command_names"}

Numbers     == {"-1", "0", "0.1", "1", "1e39", "1e-40"}
OutOfRange  == {"1e39", "1e-40"}

\* What both programs look at.  Whether a session can be made of the file (its external data
\* is there, its operators are known) is ONNX Runtime's answer.
IsPolicyFile(p) ==
    /\ p.session \in BOOLEAN /\ p.type \in {"float32", "float16", "double"}
    /\ {p.inputs, p.outputs, p.inputDim, p.outputDim} \subseteq Nat
    /\ DOMAIN p.metadata \subseteq RequiredKeys \cup OptionalKeys
    /\ \A key \in DOMAIN p.metadata : p.metadata[key] \in Seq(STRING)

\* What the two ask of the graph alike.
GraphFits(p) ==
    /\ p.inputs = 1 /\ p.outputs = 1
    /\ p.inputDim = ObsDim /\ p.outputDim = NumJoints

-----------------------------------------------------------------------------
(* check_onnx.py *)

\* float_csv: float() of every field, and no NaN or Inf.
FloatCsv(fields, n) ==
    /\ Len(fields) = n
    /\ \A i \in DOMAIN fields : fields[i] \in Numbers

Positive(x) == x \in Numbers \ {"-1", "0"}
Negative(x) == x = "-1"

\* Regression: the signs are not looked at.
SignsFitAlways(md) == TRUE

SignsFit(md) ==
    /\ \A i \in DOMAIN md["action_scale"] : Positive(md["action_scale"][i])
    /\ \A key \in {"joint_stiffness", "joint_damping"} :
          \A i \in DOMAIN md[key] : ~Negative(md[key][i])

OptionalsFit(md) ==
    /\ "observation_terms_scale" \in DOMAIN md =>
          /\ FloatCsv(md["observation_terms_scale"], 10)
          /\ md["observation_terms_scale"] = TermScales
    /\ "command_names" \in DOMAIN md => md["command_names"] = <<"ballet">>

CheckerAccepts(p) ==
    LET md == p.metadata
    IN  /\ GraphFits(p)
        /\ RequiredKeys \subseteq DOMAIN md
        /\ md["joint_names"] = JointNames
        /\ md["observation_names"] = TermNames
        /\ \A key \in FloatKeys : FloatCsv(md[key], NumJoints)
        /\ SignsFit(md)
        /\ OptionalsFit(md)

-----------------------------------------------------------------------------
(* OnnxPolicy *)

\* split_strings: getline gives no field behind a last comma.
SplitStrings(fields) ==
    IF fields # <<>> /\ fields[Len(fields)] = ""
    THEN SubSeq(fields, 1, Len(fields) - 1)
    ELSE fields

\* split_floats skips empty fields; what stof does not throw at, and is finite.
Kept(fields)  == {i \in DOMAIN fields : fields[i] # ""}
\* Regression: a zero is taken for a missing number.
StofReadsNonzero == {"-1", "0.1", "1", "1rad"}
StofReads     == {"-1", "0", "0.1", "1", "1rad"}
ToArray(fields) ==
    /\ Cardinality(Kept(fields)) = NumJoints
    /\ \A i \in Kept(fields) : fields[i] \in StofReads

NodeLoads(p) ==
    LET md == p.metadata
    IN  /\ p.session
        /\ GraphFits(p) /\ p.type = "float32"
        /\ RequiredKeys \subseteq DOMAIN md
        /\ SplitStrings(md["joint_names"]) = JointNames
        /\ SplitStrings(md["observation_names"]) = TermNames
        /\ \A key \in FloatKeys : ToArray(md[key])

-----------------------------------------------------------------------------
(* Properties of a file *)

\* What check_onnx.py does not look at.
BeyondTheChecker(p) ==
    \/ ~p.session \/ p.type # "float32"
    \/ \E key \in FloatKeys : \E i \in DOMAIN p.metadata[key] : p.metadata[key][i] \in OutOfRange

\* As the node reads them: no action is inverted or ignored, no gain drives a joint away from
\* its target.  A gain of zero is allowed by both programs.
GainsFit(p) ==
    /\ \A i \in Kept(p.metadata["action_scale"]) : p.metadata["action_scale"][i] \notin {"-1", "0"}
    /\ \A key \in {"joint_stiffness", "joint_damping"} :
          \A i \in Kept(p.metadata[key]) : p.metadata[key][i] # "-1"
=============================================================================
