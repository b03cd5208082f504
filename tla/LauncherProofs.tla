-------------------------- MODULE LauncherProofs ---------------------------
(***************************************************************************)
(* The launches, for any number of them, any policy files and any number   *)
(* of joints; and the two programs that judge a policy file, for every     *)
(* file.                                                                   *)
(***************************************************************************)
EXTENDS Launcher, FiniteSetTheorems, SequenceTheorems, TLAPS

-----------------------------------------------------------------------------
(* The two programs *)

\* A file with all the floats in float32's range and no empty field counts the same in both.
LEMMA FloatsAgree ==
    ASSUME NEW fields \in Seq(STRING), FloatCsv(fields, NumJoints),
           \A i \in DOMAIN fields : fields[i] \notin OutOfRange
    PROVE  ToArray(fields)
<1>1. \A i \in DOMAIN fields : fields[i] \in StofReads /\ fields[i] # ""
  BY DEF FloatCsv, Numbers, OutOfRange, StofReads
<1>a. DOMAIN fields = 1 .. Len(fields) /\ Len(fields) = NumJoints /\ Len(fields) \in Nat
  BY LenProperties DEF FloatCsv
<1>2. Kept(fields) = 1 .. NumJoints
  BY <1>1, <1>a DEF Kept
<1>3. NumJoints \in Nat
  BY <1>a
<1>4. Cardinality(1 .. NumJoints) = NumJoints
  BY <1>3, FS_Interval
<1> QED
  BY <1>1, <1>2, <1>4 DEF ToArray, Kept

\* The names' last field is not empty, so neither program drops one.
LEMMA NamesAgree == SplitStrings(JointNames) = JointNames /\ SplitStrings(TermNames) = TermNames
<1>a. JointNames \in Seq(STRING \ {""}) /\ JointNames # <<>>
  BY NamesAssumption
<1>b. Len(JointNames) \in 1 .. Len(JointNames) /\ DOMAIN JointNames = 1 .. Len(JointNames)
  <2>1. Len(JointNames) \in Nat \ {0}
    BY <1>a, EmptySeq, Zenon
  <2>2. DOMAIN JointNames = 1 .. Len(JointNames)
    BY <1>a, LenProperties
  <2> QED
    BY <2>1, <2>2
<1>c. JointNames \in [1 .. Len(JointNames) -> STRING \ {""}]
  BY <1>a, LenProperties
<1>1. JointNames[Len(JointNames)] # ""
  BY <1>b, <1>c
<1>2. TermNames[Len(TermNames)] = "axis_mask"
  BY DEF TermNames
<1>3. "axis_mask" # ""
  OBVIOUS
<1> QED
  BY <1>1, <1>2, <1>3 DEF SplitStrings

\* For every file that check_onnx.py accepts and the node refuses, the reason is one of those
\* that check_onnx.py does not look at: the session, the tensors' type, the range of a number.
THEOREM CheckerCovers ==
    ASSUME NEW p, IsPolicyFile(p), CheckerAccepts(p), ~NodeLoads(p)
    PROVE  BeyondTheChecker(p)
<1> SUFFICES ASSUME ~BeyondTheChecker(p) PROVE NodeLoads(p)
  OBVIOUS
<1> DEFINE md == p.metadata
<1>1. p.session /\ p.type = "float32"
      /\ \A key \in FloatKeys : \A i \in DOMAIN md[key] : md[key][i] \notin OutOfRange
  BY DEF BeyondTheChecker
<1>2. /\ GraphFits(p) /\ RequiredKeys \subseteq DOMAIN md
      /\ md["joint_names"] = JointNames /\ md["observation_names"] = TermNames
      /\ \A key \in FloatKeys : FloatCsv(md[key], NumJoints)
  BY DEF CheckerAccepts
<1>3. \A key \in FloatKeys : md[key] \in Seq(STRING)
  BY <1>2 DEF IsPolicyFile, RequiredKeys
<1>4. \A key \in FloatKeys : ToArray(md[key])
  BY <1>1, <1>2, <1>3, FloatsAgree
<1> QED
  BY <1>1, <1>2, <1>4, NamesAgree DEF NodeLoads

\* And each of the three is a reason: of the files that check_onnx.py accepts, the node loads
\* exactly those it has nothing against beyond that program.
THEOREM CheckerGapIsExact ==
    ASSUME NEW p, IsPolicyFile(p), CheckerAccepts(p)
    PROVE  NodeLoads(p) <=> ~BeyondTheChecker(p)
<1>1. ASSUME NodeLoads(p), NEW key \in FloatKeys, NEW i \in DOMAIN p.metadata[key]
      PROVE  p.metadata[key][i] \notin OutOfRange
  <2>1. p.metadata[key][i] = "" \/ p.metadata[key][i] \in StofReads
    BY <1>1 DEF NodeLoads, ToArray, Kept
  <2> QED
    BY <2>1 DEF StofReads, OutOfRange
<1>2. NodeLoads(p) => ~BeyondTheChecker(p)
  BY <1>1 DEF NodeLoads, BeyondTheChecker
<1> QED
  BY <1>2, CheckerCovers

\* A file that check_onnx.py accepts gives the node positive scales and no negative gain.
THEOREM GainsAgree ==
    ASSUME NEW p, CheckerAccepts(p)
    PROVE  GainsFit(p)
  BY DEF CheckerAccepts, SignsFit, Positive, Negative, Numbers, GainsFit, Kept

-----------------------------------------------------------------------------
(* Types *)

LEMMA LauncherTypeInit == Init => TypeOK
  BY LauncherAssumption DEF Init, TypeOK, Places, Up

LEMMA RequestType ==
    ASSUME TypeOK, NEW reached \in SUBSET Up, NEW who \in Launches \cup {"hand"},
           Request(reached, who)
    PROVE  /\ enabled' = enabled \cup reached
           /\ enabledBy' \in [Launches -> Launches \cup {"hand", "nobody"}]
           /\ unseen' \in [Launches -> SUBSET Launches]
  BY DEF Request, TypeOK, Up

LEMMA WithdrawType ==
    ASSUME TypeOK, NEW reached, Withdraw(reached)
    PROVE  /\ enabled' = enabled \ reached
           /\ enabledBy' \in [Launches -> Launches \cup {"hand", "nobody"}]
           /\ unseen' \in [Launches -> SUBSET Launches]
  BY DEF Withdraw, TypeOK

LEMMA LauncherTypeStep == TypeOK /\ [Next]_vars => TypeOK'
<1> SUFFICES ASSUME TypeOK, [Next]_vars PROVE TypeOK'
  OBVIOUS
<1> USE DEF TypeOK, Places, Up, world, nodes, requests, files, GoTo
<1>1. ASSUME NEW l \in Launches, Start(l) PROVE TypeOK'
  BY <1>1 DEF Start
<1>2. ASSUME NEW l \in Launches, Preflight(l) \/ Build(l) \/ CheckLowState(l) PROVE TypeOK'
  BY <1>2 DEF Preflight, Build, CheckLowState
<1>3. ASSUME NEW l \in Launches, NEW answered \in BOOLEAN,
             CheckLowcmd(l, answered) \/ CheckPort(l, answered)
      PROVE  TypeOK'
  BY <1>3 DEF CheckLowcmd, CheckPort
<1>4. ASSUME NEW l \in Launches, CheckGamepad(l) PROVE TypeOK'
  BY <1>4 DEF CheckGamepad
<1>5. ASSUME NEW l \in Launches, Launch(l) PROVE TypeOK'
  <2>1. Tries \in 0 .. Tries /\ Tries # 0
    BY LauncherAssumption
  <2> QED
    BY <1>5, <2>1 DEF Launch
<1>6. ASSUME NEW l \in Launches, NEW answered \in BOOLEAN, Seek(l, answered) PROVE TypeOK'
  <2>1. CASE answered /\ Named # {}
    BY <1>6, <2>1 DEF Seek
  <2>2. CASE ~(answered /\ Named # {})
    <3>1. Tries \in Nat /\ tries[l] \in 0 .. Tries /\ tries[l] # 0
      BY <1>6, LauncherAssumption DEF Seek
    <3>2. tries[l] - 1 \in 0 .. Tries /\ (tries[l] # 1 => tries[l] - 1 # 0)
      BY <3>1
    <3>3. /\ tries' = [tries EXCEPT ![l] = tries[l] - 1]
          /\ armer' = IF tries[l] = 1 THEN [armer EXCEPT ![l] = "ended"] ELSE armer
          /\ UNCHANGED <<at, nodes, world, seen, files>>
      BY <1>6, <2>2 DEF Seek
    <3> QED
      BY <3>2, <3>3
  <2> QED
    BY <2>1, <2>2
<1>7. ASSUME NEW l \in Launches, Enable(l) PROVE TypeOK'
  <2>1. PICK reached \in SUBSET Up : Request(reached, l)
    BY <1>7 DEF Enable
  <2>2. /\ enabled' = enabled \cup reached
        /\ enabledBy' \in [Launches -> Launches \cup {"hand", "nobody"}]
        /\ unseen' \in [Launches -> SUBSET Launches]
    BY <2>1, RequestType
  <2> QED
    BY <1>7, <2>2 DEF Enable
<1>8. ASSUME NEW l \in Launches, NodeStarts(l) PROVE TypeOK'
  BY <1>8 DEF NodeStarts
<1>9. ASSUME NEW l \in Launches, Drive(l) PROVE TypeOK'
  BY <1>9 DEF Drive
<1>10. ASSUME NEW l \in Launches, FailSafe(l) PROVE TypeOK'
  BY <1>10, WithdrawType DEF FailSafe
<1>11. ASSUME NEW l \in Launches, Interrupt(l) PROVE TypeOK'
  BY <1>11, WithdrawType DEF Interrupt
<1>12. ASSUME NEW l \in Launches, NEW k \in Launches, Discover(l, k) \/ Forget(l, k) PROVE TypeOK'
  BY <1>12 DEF Discover, Forget
<1>13. CASE EnableByHand
  BY <1>13, RequestType DEF EnableByHand
<1>14. CASE DisableByHand
  BY <1>14, WithdrawType DEF DisableByHand
<1>15. CASE WorldChanges \/ ReplacePolicy
  BY <1>15 DEF WorldChanges, ReplacePolicy
<1>16. CASE UNCHANGED vars
  BY <1>16 DEF vars
<1> QED
  BY <1>1, <1>2, <1>3, <1>4, <1>5, <1>6, <1>7, <1>8, <1>9, <1>10, <1>11, <1>12, <1>13, <1>14,
     <1>15, <1>16 DEF Next, Script, Armer, Node, Discovery

\* Type correctness of the launches, for any number of them.
THEOREM LauncherTypes == Spec => []TypeOK
  BY LauncherTypeInit, LauncherTypeStep, PTL DEF Spec

-----------------------------------------------------------------------------
(* Who drives and why *)

\* Two requests, and what the newer of them says of the other node.
Pair(k, l) ==
    \/ k \in unseen[l] \/ l \in unseen[k]
    \/ k \in knows[l] /\ l \notin driving
    \/ l \in knows[k] /\ k \notin driving

\* Whoever asks, the nodes that are enabled anew have looked round at that moment.
LEMMA RequestKnows ==
    ASSUME TypeOK, RivalsKnown, NEW reached \in SUBSET Up, NEW who, Request(reached, who),
           UNCHANGED <<driving, knows>>
    PROVE  RivalsKnown'
<1> SUFFICES ASSUME NEW k \in enabled', NEW l \in enabled', k # l PROVE Pair(k, l)'
  BY DEF RivalsKnown, Pair
<1>1. k \in Up /\ l \in Up /\ k \in Launches /\ l \in Launches
  BY DEF TypeOK, Request, Up
<1>2. ASSUME k \in enabled, l \in enabled PROVE Pair(k, l)'
  <2>1. unseen'[k] = unseen[k] /\ unseen'[l] = unseen[l]
    BY <1>1, <1>2 DEF Request
  <2> QED
    BY <1>2, <2>1 DEF RivalsKnown, Pair
<1>3. ASSUME l \notin enabled PROVE Pair(k, l)'
  <2>1. l \in reached /\ l \notin driving
    BY <1>3 DEF Request, TypeOK
  <2>2. unseen'[l] = Up \ (knows[l] \cup {l})
    BY <1>1, <1>3, <2>1 DEF Request
  <2> QED
    BY <1>1, <2>1, <2>2 DEF Pair
<1>4. ASSUME k \notin enabled PROVE Pair(k, l)'
  <2>1. k \in reached /\ k \notin driving
    BY <1>4 DEF Request, TypeOK
  <2>2. unseen'[k] = Up \ (knows[k] \cup {k})
    BY <1>1, <1>4, <2>1 DEF Request
  <2> QED
    BY <1>1, <2>1, <2>2 DEF Pair
<1> QED
  BY <1>2, <1>3, <1>4

\* A request that stands keeps what it says, while no node but those without one is forgotten.
LEMMA RivalsStay ==
    ASSUME TypeOK, RivalsKnown, enabled' \subseteq enabled, driving' \subseteq driving,
           \A l \in enabled' : unseen'[l] = unseen[l] /\ knows[l] \cap enabled' \subseteq knows'[l]
    PROVE  RivalsKnown'
  BY DEF RivalsKnown

LEMMA RivalsStep == TypeOK /\ RivalsKnown /\ [Next]_vars => RivalsKnown'
<1> SUFFICES ASSUME TypeOK, RivalsKnown, [Next]_vars PROVE RivalsKnown'
  OBVIOUS
<1> USE DEF nodes, requests
<1>1. ASSUME UNCHANGED nodes PROVE RivalsKnown'
  BY <1>1 DEF RivalsKnown
<1>2. ASSUME NEW l \in Launches, Start(l) \/ Script(l) PROVE RivalsKnown'
  BY <1>1, <1>2 DEF Start, Script, Preflight, Build, CheckLowState, CheckLowcmd, CheckPort,
                    CheckGamepad, Launch
<1>3. ASSUME NEW l \in Launches, NEW answered \in BOOLEAN, Seek(l, answered) PROVE RivalsKnown'
  BY <1>1, <1>3 DEF Seek
<1>4. ASSUME NEW l \in Launches, Enable(l) PROVE RivalsKnown'
  BY <1>4, RequestKnows DEF Enable
<1>5. ASSUME NEW l \in Launches, NodeStarts(l) PROVE RivalsKnown'
  BY <1>1, <1>5 DEF NodeStarts
<1>6. ASSUME NEW l \in Launches, Drive(l) PROVE RivalsKnown'
  <2>1. knows[l] = {} /\ driving' = driving \cup {l} /\ UNCHANGED <<requests, knows>>
    BY <1>6 DEF Drive, ChecksPass
  <2> QED
    BY <2>1 DEF RivalsKnown
<1>7. ASSUME NEW l \in Launches, FailSafe(l) PROVE RivalsKnown'
  <2>1. /\ enabled' = enabled \ {l} /\ driving' \subseteq driving /\ knows' = knows
        /\ \A m \in enabled' : unseen'[m] = unseen[m]
    BY <1>7 DEF FailSafe, Withdraw, TypeOK, Up
  <2> QED
    BY <2>1, RivalsStay
<1>8. ASSUME NEW l \in Launches, Interrupt(l) PROVE RivalsKnown'
  <2>1. /\ enabled' = enabled \ {l} /\ driving' \subseteq driving
        /\ \A m \in enabled' : unseen'[m] = unseen[m] /\ knows'[m] = knows[m]
    BY <1>8 DEF Interrupt, Withdraw, TypeOK, Up
  <2> QED
    BY <2>1, RivalsStay
<1>9. ASSUME NEW l \in Launches, NEW k \in Launches, Discover(l, k) \/ Forget(l, k)
      PROVE  RivalsKnown'
  <2>1. /\ UNCHANGED <<requests, driving>>
        /\ \A m \in enabled : knows[m] \cap Up \subseteq knows'[m]
    BY <1>9 DEF Discover, Forget, TypeOK, Up
  <2> QED
    BY <2>1, RivalsStay DEF TypeOK
<1>10. CASE EnableByHand
  BY <1>10, RequestKnows DEF EnableByHand
<1>11. CASE DisableByHand
  <2>1. PICK reached \in SUBSET Up : Withdraw(reached) /\ driving' = driving \ reached
    BY <1>11 DEF DisableByHand
  <2>2. /\ enabled' \subseteq enabled /\ driving' \subseteq driving /\ knows' = knows
        /\ \A m \in enabled' : unseen'[m] = unseen[m]
    BY <1>11, <2>1 DEF DisableByHand, Withdraw, TypeOK, Up
  <2> QED
    BY <2>2, RivalsStay
<1>12. CASE WorldChanges \/ ReplacePolicy \/ UNCHANGED vars
  BY <1>1, <1>12 DEF WorldChanges, ReplacePolicy, vars
<1> QED
  BY <1>2, <1>3, <1>4, <1>5, <1>6, <1>7, <1>8, <1>9, <1>10, <1>11, <1>12
     DEF Next, Armer, Node, Discovery

\* However many launches overlap and however late discovery is, two nodes drive together only
\* if one of them was enabled before it had discovered the other.
THEOREM RivalsWereUndiscovered == Spec => []OnlyUndiscoveredRivals
<1>1. Init => RivalsKnown
  BY DEF Init, RivalsKnown
<1>2. TypeOK /\ RivalsKnown => OnlyUndiscoveredRivals
  BY DEF TypeOK, RivalsKnown, OnlyUndiscoveredRivals
<1> QED
  BY <1>1, <1>2, LauncherTypes, RivalsStep, PTL DEF Spec

LEMMA ShellsStep == TypeOK /\ ShellsSawStream /\ [Next]_vars => ShellsSawStream'
<1> SUFFICES ASSUME TypeOK, ShellsSawStream, [Next]_vars PROVE ShellsSawStream'
  OBVIOUS
<1> USE DEF world, files, GoTo
<1> DEFINE Fits(l, place, shell, saw) ==
       /\ place = "launch" /\ l \in WithArm => l \in saw
       /\ shell \in {"seek", "settle"} => l \in saw \cap WithArm
       /\ shell # "none" => place \in {"starting", "up", "refused", "dead"}
<1>0. /\ \A k \in Launches : Fits(k, at[k], armer[k], seen)
      /\ at \in [Launches -> Places] /\ armer \in [Launches -> {"none", "seek", "settle", "ended"}]
      /\ seen \subseteq Launches
  BY DEF ShellsSawStream, TypeOK
<1> SUFFICES ASSUME NEW k \in Launches PROVE Fits(k, at'[k], armer'[k], seen')
  BY DEF ShellsSawStream
<1> DEFINE Goal == Fits(k, at'[k], armer'[k], seen')
<1>1. ASSUME NEW l \in Launches, Start(l) PROVE Goal
  BY <1>0, <1>1 DEF Start
<1>2. ASSUME NEW l \in Launches, Preflight(l) \/ Build(l) \/ CheckLowState(l) PROVE Goal
  BY <1>0, <1>2 DEF Preflight, Build, CheckLowState
<1>3. ASSUME NEW l \in Launches, NEW answered \in BOOLEAN,
             CheckLowcmd(l, answered) \/ CheckPort(l, answered)
      PROVE  Goal
  BY <1>0, <1>3 DEF CheckLowcmd, CheckPort
<1>4. ASSUME NEW l \in Launches, CheckGamepad(l) PROVE Goal
  BY <1>0, <1>4 DEF CheckGamepad
<1>5. ASSUME NEW l \in Launches, Launch(l) PROVE Goal
  BY <1>0, <1>5 DEF Launch
<1>6. ASSUME NEW l \in Launches, NEW answered \in BOOLEAN, Seek(l, answered) PROVE Goal
  <2>1. \/ armer' = armer
        \/ armer' = [armer EXCEPT ![l] = "settle"] \/ armer' = [armer EXCEPT ![l] = "ended"]
    BY <1>6 DEF Seek
  <2>2. armer[l] = "seek" /\ UNCHANGED <<at, seen>>
    BY <1>6 DEF Seek
  <2> QED
    BY <1>0, <2>1, <2>2
<1>7. ASSUME NEW l \in Launches, Enable(l) PROVE Goal
  BY <1>0, <1>7 DEF Enable
<1>8. ASSUME NEW l \in Launches, NodeStarts(l) PROVE Goal
  BY <1>0, <1>8 DEF NodeStarts
<1>9. ASSUME NEW l \in Launches, Drive(l) \/ FailSafe(l) PROVE Goal
  BY <1>0, <1>9 DEF Drive, FailSafe
<1>13. ASSUME Discovery PROVE Goal
  BY <1>0, <1>13 DEF Discovery, Discover, Forget
<1>10. ASSUME NEW l \in Launches, Interrupt(l) PROVE Goal
  BY <1>0, <1>10 DEF Interrupt
<1>11. ASSUME EnableByHand \/ DisableByHand \/ WorldChanges \/ ReplacePolicy PROVE Goal
  BY <1>0, <1>11 DEF EnableByHand, DisableByHand, WorldChanges, ReplacePolicy
<1>12. ASSUME UNCHANGED vars PROVE Goal
  BY <1>0, <1>12 DEF vars
<1> QED
  BY <1>1, <1>2, <1>3, <1>4, <1>5, <1>6, <1>7, <1>8, <1>9, <1>10, <1>11, <1>12,
     <1>13 DEF Next, Script, Armer, Node

\* A shell is done with its message for good, and what was seen stays seen.
LEMMA ReasonsStay ==
    ASSUME EnabledForAReason, enabled' \subseteq enabled, seen \subseteq seen',
           \A l \in enabled' : enabledBy'[l] = enabledBy[l],
           \A k \in WithArm : armer[k] = "ended" => armer'[k] = "ended"
    PROVE  EnabledForAReason'
  BY DEF EnabledForAReason

LEMMA ReasonStep ==
    TypeOK /\ ShellsSawStream /\ EnabledForAReason /\ [Next]_vars => EnabledForAReason'
<1> SUFFICES ASSUME TypeOK, ShellsSawStream, EnabledForAReason, [Next]_vars
             PROVE  EnabledForAReason'
  OBVIOUS
<1> USE DEF nodes, requests
<1>0. WithArm \subseteq Launches /\ armer \in [Launches -> {"none", "seek", "settle", "ended"}]
  BY LauncherAssumption DEF TypeOK
<1>1. \A k \in Launches : armer[k] = "ended" => at[k] # "launch"
  BY DEF ShellsSawStream
<1>2. ASSUME NEW l \in Launches, Start(l) \/ Script(l) PROVE EnabledForAReason'
  <2>1. UNCHANGED requests /\ seen \subseteq seen'
    BY <1>2 DEF Start, Script, Preflight, Build, CheckLowState, CheckLowcmd, CheckPort,
                CheckGamepad, Launch
  <2>2. \A k \in Launches : armer[k] = "ended" => armer'[k] = "ended"
    BY <1>0, <1>1, <1>2 DEF Start, Script, Preflight, Build, CheckLowState, CheckLowcmd, CheckPort,
                      CheckGamepad, Launch
  <2> QED
    BY <1>0, <2>1, <2>2, ReasonsStay
<1>3. ASSUME NEW l \in Launches, NEW answered \in BOOLEAN, Seek(l, answered)
      PROVE  EnabledForAReason'
  <2>1. UNCHANGED <<requests, seen>> /\ armer[l] = "seek"
        /\ \A k \in Launches : k # l => armer'[k] = armer[k]
    BY <1>0, <1>3 DEF Seek
  <2> QED
    BY <1>0, <2>1, ReasonsStay
<1>4. ASSUME NEW l \in Launches, Enable(l) PROVE EnabledForAReason'
  <2>1. /\ l \in seen \cap WithArm /\ armer' = [armer EXCEPT ![l] = "ended"] /\ seen' = seen
        /\ \E reached \in SUBSET Up : Request(reached, l)
    BY <1>4 DEF Enable, ShellsSawStream
  <2>2. \A m \in enabled' : \/ m \in enabled /\ enabledBy'[m] = enabledBy[m]
                           \/ enabledBy'[m] = l
    BY <2>1 DEF Request, Up, TypeOK
  <2> QED
    BY <1>0, <2>1, <2>2 DEF EnabledForAReason
<1>5. ASSUME NEW l \in Launches, NodeStarts(l) \/ Drive(l) PROVE EnabledForAReason'
  <2>1. UNCHANGED <<requests, seen, armer>>
    BY <1>5 DEF NodeStarts, Drive
  <2> QED
    BY <2>1, ReasonsStay
<1>6. ASSUME NEW l \in Launches, FailSafe(l) \/ Interrupt(l) PROVE EnabledForAReason'
  <2>1. Withdraw({l}) /\ UNCHANGED <<seen, armer>>
    BY <1>6 DEF FailSafe, Interrupt
  <2>2. enabled' \subseteq enabled /\ \A m \in enabled' : enabledBy'[m] = enabledBy[m]
    BY <2>1 DEF Withdraw, TypeOK, Up
  <2> QED
    BY <2>1, <2>2, ReasonsStay
<1>7. CASE EnableByHand
  <2>1. (\E reached \in SUBSET Up : Request(reached, "hand")) /\ UNCHANGED <<seen, armer>>
    BY <1>7 DEF EnableByHand
  <2>2. \A m \in enabled' : \/ m \in enabled /\ enabledBy'[m] = enabledBy[m]
                           \/ enabledBy'[m] = "hand"
    BY <2>1 DEF Request, Up, TypeOK
  <2> QED
    BY <2>1, <2>2 DEF EnabledForAReason
<1>8. CASE DisableByHand
  <2>1. (\E reached \in SUBSET Up : Withdraw(reached)) /\ UNCHANGED <<seen, armer>>
    BY <1>8 DEF DisableByHand
  <2>2. enabled' \subseteq enabled /\ \A m \in enabled' : enabledBy'[m] = enabledBy[m]
    BY <2>1 DEF Withdraw, TypeOK, Up
  <2> QED
    BY <2>1, <2>2, ReasonsStay
<1>9. CASE Discovery \/ WorldChanges \/ ReplacePolicy \/ UNCHANGED vars
  <2>1. UNCHANGED <<requests, seen, armer>>
    BY <1>9 DEF Discovery, Discover, Forget, WorldChanges, ReplacePolicy, vars
  <2> QED
    BY <2>1, ReasonsStay
<1> QED
  BY <1>2, <1>3, <1>4, <1>5, <1>6, <1>7, <1>8, <1>9 DEF Next, Armer, Node

\* Every request that stands was set by hand, or by the one message of the shell of an --arm
\* launch that has seen the gamepad's stream.
THEOREM EnablesHaveReasons == Spec => []EnabledForAReason
<1>1. Init => ShellsSawStream /\ EnabledForAReason
  BY DEF Init, ShellsSawStream, EnabledForAReason
<1> QED
  BY <1>1, LauncherTypes, ShellsStep, ReasonStep, PTL DEF Spec

-----------------------------------------------------------------------------
(* The files *)

LEMMA FilesStep == TypeOK /\ FilesWereChecked /\ [Next]_vars => FilesWereChecked'
<1> SUFFICES ASSUME TypeOK, FilesWereChecked, [Next]_vars PROVE FilesWereChecked'
  OBVIOUS
<1> USE DEF world, files, GoTo, BetweenCheckAndLoad
<1> DEFINE Fits(place, excused, now, read) ==
             /\ place \in BetweenCheckAndLoad => excused \/ CheckerAccepts(now)
             /\ place \in {"up", "refused"} =>
                   /\ excused \/ CheckerAccepts(read)
                   /\ read \in Policies
                   /\ place = "up" <=> NodeLoads(read)
<1>0. /\ \A k \in Launches : Fits(at[k], k \in replaced, policy, loaded[k])
      /\ at \in [Launches -> Places] /\ policy \in Policies /\ replaced \subseteq Launches
      /\ loaded \in [Launches -> Policies \cup {NoFile}]
  BY DEF FilesWereChecked, TypeOK
<1> SUFFICES ASSUME NEW k \in Launches PROVE Fits(at'[k], k \in replaced', policy', loaded'[k])
  BY DEF FilesWereChecked
<1> DEFINE Goal == Fits(at'[k], k \in replaced', policy', loaded'[k])
<1>1. ASSUME NEW l \in Launches, Start(l) PROVE Goal
  BY <1>0, <1>1 DEF Start
<1>2. ASSUME NEW l \in Launches, Preflight(l) \/ Build(l) \/ CheckLowState(l) PROVE Goal
  BY <1>0, <1>2 DEF Preflight, Build, CheckLowState
<1>3. ASSUME NEW l \in Launches, NEW answered \in BOOLEAN,
             CheckLowcmd(l, answered) \/ CheckPort(l, answered)
      PROVE  Goal
  BY <1>0, <1>3 DEF CheckLowcmd, CheckPort
<1>4. ASSUME NEW l \in Launches, CheckGamepad(l) PROVE Goal
  BY <1>0, <1>4 DEF CheckGamepad
<1>5. ASSUME NEW l \in Launches, Launch(l) PROVE Goal
  BY <1>0, <1>5 DEF Launch
<1>6. ASSUME NEW l \in Launches, Armer(l) PROVE Goal
  BY <1>0, <1>6 DEF Armer, Enable, Seek
<1>8. ASSUME NEW l \in Launches, NodeStarts(l) PROVE Goal
  BY <1>0, <1>8 DEF NodeStarts
<1>9. ASSUME NEW l \in Launches, Drive(l) \/ FailSafe(l) PROVE Goal
  BY <1>0, <1>9 DEF Drive, FailSafe
<1>13. ASSUME Discovery PROVE Goal
  BY <1>0, <1>13 DEF Discovery, Discover, Forget
<1>10. ASSUME NEW l \in Launches, Interrupt(l) PROVE Goal
  BY <1>0, <1>10 DEF Interrupt
<1>11. ASSUME EnableByHand \/ DisableByHand \/ WorldChanges \/ ReplacePolicy PROVE Goal
  BY <1>0, <1>11 DEF EnableByHand, DisableByHand, WorldChanges, ReplacePolicy
<1>12. ASSUME UNCHANGED vars PROVE Goal
  BY <1>0, <1>12 DEF vars
<1> QED
  BY <1>1, <1>2, <1>3, <1>4, <1>5, <1>6, <1>8, <1>9, <1>10, <1>11, <1>12,
     <1>13 DEF Next, Script, Node

LEMMA FilesInvariant == Spec => []FilesWereChecked
<1>1. Init => FilesWereChecked
  BY DEF Init, FilesWereChecked, BetweenCheckAndLoad
<1> QED
  BY <1>1, LauncherTypes, FilesStep, PTL DEF Spec

\* A driving node has scales and gains of the right sign unless its file was replaced after the
\* check, for every set of files.
THEOREM GainsAreChecked == Spec => []GainsWereChecked
<1>1. TypeOK /\ FilesWereChecked => GainsWereChecked
  <2> SUFFICES ASSUME TypeOK, FilesWereChecked, NEW l \in driving, l \notin replaced
               PROVE  GainsFit(loaded[l])
    BY DEF GainsWereChecked
  <2>1. l \in Launches /\ at[l] = "up"
    BY DEF TypeOK, Up
  <2>2. CheckerAccepts(loaded[l])
    BY <2>1 DEF FilesWereChecked
  <2> QED
    BY <2>2, GainsAgree
<1> QED
  BY <1>1, LauncherTypes, FilesInvariant, PTL

\* A file that passed check_onnx.py and was not replaced is refused only for what that program
\* does not look at.
THEOREM RefusalsAreExplained == Spec => []RefusalExplained
<1>1. FilesWereChecked => RefusalExplained
  <2> SUFFICES ASSUME FilesWereChecked, NEW l \in Launches, at[l] = "refused", l \notin replaced
               PROVE  BeyondTheChecker(loaded[l])
    BY DEF RefusalExplained
  <2>1. CheckerAccepts(loaded[l]) /\ loaded[l] \in Policies /\ ~NodeLoads(loaded[l])
    BY DEF FilesWereChecked
  <2>2. IsPolicyFile(loaded[l])
    BY <2>1, LauncherAssumption
  <2> QED
    BY <2>1, <2>2, CheckerCovers
<1> QED
  BY <1>1, FilesInvariant, PTL

\* What "PASS: BALLET ONNX contract is compatible" is true of: where no file differs in what
\* check_onnx.py does not look at, the node of a launch that passed never refuses its file.
THEOREM PassIsEnough ==
    ASSUME \A p \in Policies : CheckerAccepts(p) => ~BeyondTheChecker(p)
    PROVE  Spec => []PassedIsCompatible
<1>1. FilesWereChecked => PassedIsCompatible
  <2> SUFFICES ASSUME FilesWereChecked, NEW l \in Launches, at[l] = "refused", l \notin replaced
               PROVE  FALSE
    BY DEF PassedIsCompatible
  <2>1. CheckerAccepts(loaded[l]) /\ loaded[l] \in Policies /\ ~NodeLoads(loaded[l])
    BY DEF FilesWereChecked
  <2> QED
    BY <2>1, LauncherAssumption, CheckerCovers
<1> QED
  BY <1>1, FilesInvariant, PTL

-----------------------------------------------------------------------------
(* Safe starts *)

\* What the code does not see to: a background shell is gone when its launch is.
ShellsEndWithLaunch ==
    \A l \in Launches : armer[l] \in {"seek", "settle"} => at[l] \notin {"refused", "dead"}

\* Only a launch with --arm that has got to its last stage has a background shell.
ShellsAreArms ==
    \A l \in Launches : armer[l] # "none" => l \in WithArm /\ at[l] # "new"

LEMMA ShellsAreArmsStep == TypeOK /\ ShellsAreArms /\ [Next]_vars => ShellsAreArms'
<1> SUFFICES ASSUME TypeOK, ShellsAreArms, [Next]_vars, NEW k \in Launches, armer'[k] # "none"
             PROVE  k \in WithArm /\ at'[k] # "new"
  BY DEF ShellsAreArms
<1> USE DEF ShellsAreArms, world, files, GoTo
<1>0. /\ at \in [Launches -> Places] /\ k \in Launches
      /\ armer \in [Launches -> {"none", "seek", "settle", "ended"}]
  BY DEF TypeOK
<1> DEFINE Goal == k \in WithArm /\ at'[k] # "new"
<1>1. ASSUME NEW l \in Launches, Start(l) PROVE Goal
  BY <1>0, <1>1 DEF Start
<1>2. ASSUME NEW l \in Launches, Preflight(l) \/ Build(l) \/ CheckLowState(l) \/ CheckGamepad(l)
      PROVE  Goal
  BY <1>0, <1>2 DEF Preflight, Build, CheckLowState, CheckGamepad
<1>3. ASSUME NEW l \in Launches, NEW answered \in BOOLEAN,
             CheckLowcmd(l, answered) \/ CheckPort(l, answered)
      PROVE  Goal
  BY <1>0, <1>3 DEF CheckLowcmd, CheckPort
<1>4. ASSUME NEW l \in Launches, Launch(l) PROVE Goal
  BY <1>0, <1>4 DEF Launch
<1>5. ASSUME NEW l \in Launches, NEW answered \in BOOLEAN, Seek(l, answered) PROVE Goal
  <2>1. armer[l] = "seek" /\ at' = at /\ \A m \in Launches : m # l => armer'[m] = armer[m]
    BY <1>0, <1>5 DEF Seek
  <2> QED
    BY <2>1
<1>6. ASSUME NEW l \in Launches, Enable(l) PROVE Goal
  BY <1>0, <1>6 DEF Enable
<1>7. ASSUME NEW l \in Launches, Node(l) \/ Interrupt(l) PROVE Goal
  BY <1>0, <1>7 DEF Node, NodeStarts, Drive, FailSafe, Interrupt
<1>8. CASE Discovery \/ EnableByHand \/ DisableByHand \/ WorldChanges \/ ReplacePolicy \/ UNCHANGED vars
  BY <1>0, <1>8 DEF Discovery, Discover, Forget, EnableByHand, DisableByHand, WorldChanges,
                    ReplacePolicy, vars
<1> QED
  BY <1>1, <1>2, <1>3, <1>4, <1>5, <1>6, <1>7, <1>8 DEF Next, Script, Armer

\* What lines 462 and 482 of run_policy_on_robot.sh promise of a safe start is true as long as
\* the shell of schedule_arm does not outlive its launch: nothing else, and no interleaving of
\* launches, enables a node that the operator has not enabled.
THEOREM OrphansAlone == Spec /\ []ShellsEndWithLaunch => SafeStartStaysDisabled
<1> DEFINE Step == \A l \in enabled' \ enabled : enabledBy'[l] # "hand" =>
                      \E k \in WithArm : at[k] \notin {"new", "refused", "dead"}
<1>1. Init => ShellsAreArms
  BY DEF Init, ShellsAreArms
<1>2. TypeOK /\ ShellsAreArms /\ ShellsEndWithLaunch /\ [Next]_vars => [Step]_vars
  <2> SUFFICES ASSUME TypeOK, ShellsAreArms, ShellsEndWithLaunch, Next PROVE Step
    OBVIOUS
  <2>1. ASSUME NEW l \in Launches, Enable(l) PROVE Step
    <3>1. l \in WithArm /\ at[l] \notin {"new", "refused", "dead"}
      BY <2>1 DEF Enable, ShellsAreArms, ShellsEndWithLaunch
    <3> QED
      BY <3>1
  <2>2. ASSUME enabled' \subseteq enabled PROVE Step
    BY <2>2
  <2>3. ASSUME NEW l \in Launches, Start(l) \/ Script(l) PROVE enabled' = enabled
    BY <2>3 DEF Start, Script, Preflight, Build, CheckLowState, CheckLowcmd, CheckPort,
                CheckGamepad, Launch, nodes, requests
  <2>4. ASSUME NEW l \in Launches, NEW answered \in BOOLEAN, Seek(l, answered)
        PROVE  enabled' = enabled
    BY <2>4 DEF Seek, nodes, requests
  <2>5. ASSUME NEW l \in Launches, Node(l) \/ Interrupt(l) PROVE enabled' \subseteq enabled
    BY <2>5 DEF Node, NodeStarts, Drive, FailSafe, Interrupt, Withdraw, nodes, requests
  <2>6. ASSUME EnableByHand PROVE Step
    BY <2>6 DEF EnableByHand, Request, TypeOK, Up
  <2>7. ASSUME Discovery \/ DisableByHand \/ WorldChanges \/ ReplacePolicy
        PROVE  enabled' \subseteq enabled
    BY <2>7 DEF Discovery, Discover, Forget, DisableByHand, Withdraw, WorldChanges,
                ReplacePolicy, nodes, requests
  <2> QED
    BY <2>1, <2>2, <2>3, <2>4, <2>5, <2>6, <2>7 DEF Next, Armer
<1> QED
  BY <1>1, <1>2, LauncherTypes, ShellsAreArmsStep, PTL DEF Spec, SafeStartStaysDisabled
=============================================================================
