--------------------------- MODULE PatternEditor ----------------------------
(***************************************************************************)
(* The pattern editor, class PatternEditor of                              *)
(* gamepad/game_emulator_run_v1.py, with the state the application keeps   *)
(* between two windows (on_save of AxisControlApp).  A track is the value  *)
(* of one axis in every frame; pins are the frames the user has set, and   *)
(* the track between two of them is a smoothstep.                          *)
(*                                                                         *)
(* Values are integers in -Full .. Full and quotients are rounded down,    *)
(* which like the rounding of float32 keeps the order of values.  A        *)
(* duration is counted in half stream periods.                             *)
(***************************************************************************)
EXTENDS Integers, FiniteSets

CONSTANTS
    Axes, Baseline,     \* the axes and their neutral values
    Full,               \* the largest value of an axis
    Durations,          \* what the user may type as duration
    FirstDuration,      \* the duration a first window starts with
    LeastDuration,      \* Apply raises the duration to this
    Strokes,            \* the values the user draws
    MaxEdits            \* bound on the clicks and Applies explored

ASSUME EditorAssumption ==
    /\ Full \in Nat \ {0} /\ MaxEdits \in Nat
    /\ Baseline \in [Axes -> -Full .. Full]
    /\ Durations \subseteq Nat \ {0} /\ Strokes \subseteq -Full .. Full
    /\ FirstDuration \in Nat \ {0} /\ LeastDuration \in Nat \ {0}

VARIABLES
    open,       \* the window exists
    typed,      \* duration_s: what the entry shows
    T,          \* the number of frames
    tracks,     \* tracks[a][i]
    pins,       \* pins[a]
    active,     \* active_axis
    saved,      \* editor_tracks, editor_pins, editor_duration_s, or NotSaved
    built,      \* history: the axes whose track has been made from the pins they have
    edits       \* counts what MaxEdits bounds

vars == <<open, typed, T, tracks, pins, active, saved, built, edits>>

NotSaved == [T |-> 0]

\* Python's round of n / d: a half goes to the even neighbour.
Round(n, d) ==
    LET q == n \div d
        r == 2 * (n % d)
    IN  IF r > d \/ (r = d /\ q % 2 = 1) THEN q + 1 ELSE q

\* Both ends included: never fewer than three frames.
FramesOf(duration) == IF Round(duration, 2) < 2 THEN 3 ELSE Round(duration, 2) + 1

Ends(n) == {0, n - 1}
Flat(a, n) == [i \in 0 .. n - 1 |-> Baseline[a]]

Init ==
    /\ open = FALSE /\ saved = NotSaved
    /\ typed = FirstDuration /\ T = FramesOf(FirstDuration)
    /\ tracks = [a \in Axes |-> Flat(a, T)] /\ pins = [a \in Axes |-> Ends(T)]
    /\ active \in Axes
    /\ built = Axes /\ edits = 0

-----------------------------------------------------------------------------
\* __init__: a first window is flat, a later one continues from what was saved.
Open ==
    /\ ~open /\ open' = TRUE
    /\ \E a \in Axes : active' = a
    /\ IF saved = NotSaved
       THEN /\ typed' = FirstDuration /\ T' = FramesOf(FirstDuration)
            /\ tracks' = [a \in Axes |-> Flat(a, T')]
            /\ pins' = [a \in Axes |-> Ends(T')]
            /\ built' = Axes
       ELSE /\ typed' = saved.duration /\ T' = saved.T
            /\ tracks' = saved.tracks
            /\ pins' = [a \in Axes |-> saved.pins[a] \cup Ends(saved.T)]
            /\ built' = saved.built
    /\ UNCHANGED <<saved, edits>>

\* The window is closed without Save.
Close ==
    /\ open /\ open' = FALSE
    /\ UNCHANGED <<typed, T, tracks, pins, active, saved, built, edits>>

TypeDuration(d) ==
    /\ open /\ typed' = d
    /\ UNCHANGED <<open, T, tracks, pins, active, saved, built, edits>>

\* resample_track: the value at each new frame, interpolated between the old ones around it.
Resample(y, old, new) ==
    [j \in 0 .. new - 1 |->
        LET lo == (j * (old - 1)) \div (new - 1)
            r  == (j * (old - 1)) % (new - 1)
        IN  IF r = 0 THEN y[lo] ELSE y[lo] + ((y[lo + 1] - y[lo]) * r) \div (new - 1)]

\* Regression: the pins keep their frames.
RescaleNoPins(p, old, new) == p \cup Ends(new)

RescalePins(p, old, new) == {Round(i * (new - 1), old - 1) : i \in p} \cup Ends(new)

\* _apply_duration
Apply ==
    /\ open /\ edits < MaxEdits
    /\ typed' = IF typed < LeastDuration THEN LeastDuration ELSE typed
    /\ LET new == FramesOf(typed')
       IN  IF new = T
           THEN UNCHANGED <<T, tracks, pins, built>>
           ELSE /\ tracks' = [a \in Axes |-> Resample(tracks[a], T, new)]
                /\ pins' = [a \in Axes |-> RescalePins(pins[a], T, new)]
                /\ T' = new
                /\ built' = {}
    /\ edits' = edits + 1
    /\ UNCHANGED <<open, active, saved>>

\* The pins around a frame that is not a pin.
Before(p, i) == CHOOSE k \in p : k < i /\ \A m \in p : m < i => m <= k
After(p, i)  == CHOOSE k \in p : k > i /\ \A m \in p : m > i => m >= k

\* Regression: 3t^2 - t^3 for the smoothstep.
SegmentOvershoots(y, i0, i1, i) ==
    LET n == i1 - i0
        k == i - i0
    IN  y[i0] + ((y[i1] - y[i0]) * k * k * (3 * n - k)) \div (n * n * n)

\* _fill_segment_monotone: smoothstep between the pins i0 and i1, at the frame i.
Segment(y, i0, i1, i) ==
    LET n == i1 - i0
        k == i - i0
    IN  y[i0] + ((y[i1] - y[i0]) * k * k * (3 * n - 2 * k)) \div (n * n * n)

\* Regression: a segment is filled one frame short, its last frame, a pin, included.
RebuildShort(y, p) ==
    LET y0(i) == y[Before(p, i)]
        n(i)  == (IF i \in p THEN i ELSE After(p, i)) - Before(p, i) + 1
        k(i)  == i - Before(p, i)
        y1(i) == y[Before(p, i) + n(i) - 1]
    IN  [i \in DOMAIN y |->
            IF i = 0 THEN y[i]
            ELSE y0(i) + ((y1(i) - y0(i)) * k(i) * k(i) * (3 * n(i) - 2 * k(i)))
                             \div (n(i) * n(i) * n(i))]

\* _rebuild_axis_from_pins
Rebuild(y, p) ==
    [i \in DOMAIN y |-> IF i \in p THEN y[i] ELSE Segment(y, Before(p, i), After(p, i), i)]

\* Regression: a click on the first or last frame draws there.
PinEndsToo(a, y) == y

\* The ends of a track stay at the baseline.
PinEnds(a, y) == [i \in DOMAIN y |-> IF i \in Ends(T) THEN Baseline[a] ELSE y[i]]

\* _on_click_drag, for a click and for every motion of a drag.
Click(a, i, v) ==
    /\ open /\ edits < MaxEdits
    /\ i \in 0 .. T - 1
    /\ active' = a
    /\ LET p == pins[a] \cup {i} \cup Ends(T)
       IN  /\ pins' = [pins EXCEPT ![a] = p]
           /\ tracks' = [tracks EXCEPT ![a] = Rebuild(PinEnds(a, [@ EXCEPT ![i] = v]), p)]
    /\ built' = built \cup {a}
    /\ edits' = edits + 1
    /\ UNCHANGED <<open, typed, T, saved>>

Enter(a) ==
    /\ open /\ active' = a
    /\ UNCHANGED <<open, typed, T, tracks, pins, saved, built, edits>>

\* Reset Axis and Reset All
Reset(axes) ==
    /\ open
    /\ tracks' = [a \in Axes |-> IF a \in axes THEN Flat(a, T) ELSE tracks[a]]
    /\ pins' = [a \in Axes |-> IF a \in axes THEN Ends(T) ELSE pins[a]]
    /\ built' = built \cup axes
    /\ UNCHANGED <<open, typed, T, active, saved, edits>>

\* _save_and_play: hands the pattern over, with the duration of the entry, and closes.
SaveAndPlay ==
    /\ open /\ open' = FALSE
    /\ saved' = [T |-> T, tracks |-> [a \in Axes |-> PinEnds(a, tracks[a])], pins |-> pins,
                 duration |-> typed, built |-> built]
    /\ UNCHANGED <<typed, T, tracks, pins, active, built, edits>>

Next ==
    \/ Open \/ Close \/ SaveAndPlay \/ Apply
    \/ \E d \in Durations : TypeDuration(d)
    \/ \E a \in Axes, i \in 0 .. T - 1, v \in Strokes : Click(a, i, v)
    \/ \E a \in Axes : Enter(a)
    \/ Reset({active}) \/ Reset(Axes)

Spec == Init /\ [][Next]_vars

-----------------------------------------------------------------------------
(* Properties *)

\* A frame exists for every pin and a value for every frame, after any sequence of edits,
\* changes of the duration and reopenings; _draw_axis indexes the one with the other.
TypeOK ==
    /\ open \in BOOLEAN /\ typed \in Nat \ {0} /\ T \in Nat /\ T >= 3
    /\ active \in Axes /\ built \subseteq Axes /\ edits \in 0 .. MaxEdits
    /\ tracks \in [Axes -> [0 .. T - 1 -> -Full .. Full]]
    /\ pins \in [Axes -> SUBSET (0 .. T - 1)]
    /\ \A a \in Axes : Ends(T) \subseteq pins[a]

\* A pattern starts and ends in the neutral pose, also through a drag over its ends and a
\* new duration; playback hands the robot over on that assumption.
EndsNeutral == \A a \in Axes : tracks[a][0] = Baseline[a] /\ tracks[a][T - 1] = Baseline[a]

\* A click changes no other pin, of its own axis or of another.
OtherPinsHold ==
    [][edits' # edits /\ T' = T =>
         \E b \in Axes, i \in 0 .. T - 1 :
            \A a \in Axes : \A p \in pins[a] :
                tracks'[a][p] # tracks[a][p] => a = b /\ p = i]_vars

\* A click or a drag on an axis that was made from its pins reshapes the track between the
\* neighbouring pins only, though the code fills the whole axis again, and leaves the other
\* axes alone.  (On one that Apply has interpolated it redraws every segment.)
ClickIsLocal ==
    [][edits' # edits /\ T' = T =>
         \E b \in Axes, i \in 0 .. T - 1 :
            \A a \in built, j \in 0 .. T - 1 :
                tracks'[a][j] # tracks[a][j] =>
                    a = b /\ \A m \in pins[a] : ~(i < m /\ m <= j) /\ ~(j <= m /\ m < i)]_vars

Monotone(y, p) ==
    \A i, j \in DOMAIN y :
        i < j /\ (\A m \in i + 1 .. j - 1 : m \notin p) =>
            LET lo == IF i \in p THEN i ELSE Before(p, i)
                hi == IF j \in p THEN j ELSE After(p, j)
            IN  IF y[lo] <= y[hi] THEN y[i] <= y[j] ELSE y[i] >= y[j]

\* Between two pins a track is monotone, as long as it was made from these pins: drawn or
\* reset since the number of frames last changed.
MonotoneWhenBuilt == \A a \in built : Monotone(tracks[a], pins[a])

-----------------------------------------------------------------------------
(* The inductive invariant behind them, of the window and of what is saved *)

Sound(n, ts, ps, made) ==
    /\ n \in Nat /\ n >= 3 /\ made \subseteq Axes
    /\ ts \in [Axes -> [0 .. n - 1 -> -Full .. Full]]
    /\ ps \in [Axes -> SUBSET (0 .. n - 1)]
    /\ \A a \in Axes : /\ Ends(n) \subseteq ps[a]
                       /\ ts[a][0] = Baseline[a] /\ ts[a][n - 1] = Baseline[a]
    /\ \A a \in made : Monotone(ts[a], ps[a]) /\ Rebuild(ts[a], ps[a]) = ts[a]

EditorInv ==
    /\ open \in BOOLEAN /\ typed \in Nat \ {0} /\ active \in Axes /\ edits \in 0 .. MaxEdits
    /\ Sound(T, tracks, pins, built)
    /\ saved # NotSaved => /\ saved.duration \in Nat \ {0}
                           /\ Sound(saved.T, saved.tracks, saved.pins, saved.built)

-----------------------------------------------------------------------------
\* gamepad/game_emulator_run_v1.py:159: between the pins the track is a monotone smooth
\* transition.  Not after Apply, which rounds the pins and interpolates the track.
MonotoneBetweenPins == \A a \in Axes : Monotone(tracks[a], pins[a])
=============================================================================
