--------------------------- MODULE LowCmdContract ---------------------------
(***************************************************************************)
(* What the robot may rely on, whatever the threads of the node do: the    *)
(* state flow of docs/ARCHITECTURE.md ("State flow") with the frames on    *)
(* /lowcmd.  Position control is entered stage by stage, each time with an *)
(* enable request standing; withdrawing the request ends it in the same    *)
(* step; a frame is decided by one look at the control, and at most one    *)
(* look is outstanding.                                                    *)
(***************************************************************************)

VARIABLES
    allowed,    \* an enable request stands
    control,    \* what drives the motors: nothing, the ramp or the policy
    armed,      \* position control has been entered once
    looked,     \* the control the next frame is decided on, if it is under way
    sent        \* the gains of the last frame, until the next is under way

vars == <<allowed, control, armed, looked, sent>>

Controls == {"off", "ramp", "policy"}

Init ==
    /\ allowed = FALSE /\ control = "off" /\ armed = FALSE
    /\ looked = "none" /\ sent = "none"

Enable ==
    /\ allowed' = TRUE
    /\ UNCHANGED <<control, armed, looked, sent>>

\* A disable, a watchdog or a fault: re-entry needs a new request.
Withdraw ==
    /\ allowed' = FALSE /\ control' = "off"
    /\ UNCHANGED <<armed, looked, sent>>

Arm ==
    /\ allowed /\ control = "off"
    /\ control' = "ramp" /\ armed' = TRUE
    /\ UNCHANGED <<allowed, looked, sent>>

Engage ==
    /\ allowed /\ control = "ramp"
    /\ control' = "policy"
    /\ UNCHANGED <<allowed, armed, looked, sent>>

\* No output before the first arm.
Look ==
    /\ armed /\ looked = "none"
    /\ looked' = control /\ sent' = "none"
    /\ UNCHANGED <<allowed, control, armed>>

\* Damping, always allowed, or the gains of the stage looked at.
Send ==
    /\ looked # "none"
    /\ sent' \in {"damping"} \cup ({looked} \ {"off"})
    /\ looked' = "none"
    /\ UNCHANGED <<allowed, control, armed>>

Next == Enable \/ Withdraw \/ Arm \/ Engage \/ Look \/ Send

Spec == Init /\ [][Next]_vars
=============================================================================
