------------------------- MODULE GamepadStreamProofs ------------------------
(***************************************************************************)
(* Proofs about GamepadStream, for every period, refresh, lateness, length *)
(* of a callback and set of patterns.                                      *)
(***************************************************************************)
EXTENDS GamepadStream, TLAPS

\* Division rounds down.
LEMMA QuotientBounds ==
    ASSUME NEW x \in Nat, NEW p \in Nat \ {0}
    PROVE  /\ x \div p \in Nat
           /\ p * (x \div p) <= x
           /\ x < p * (x \div p + 1)
<1>1. x \div p \in Nat
    OBVIOUS
<1>2. p * (x \div p) <= x
    OBVIOUS
<1>3. x < p * (x \div p + 1)
    OBVIOUS
<1> QED BY <1>1, <1>2, <1>3

\* However many deadlines were missed, the next one lies ahead, at most a period away.
LEMMA NextDeadlineAhead ==
    ASSUME NEW t \in Int, t <= 0
    PROVE  NextDeadline(t) \in 1 .. Period
<1>1. CASE t + Period > 0
    BY <1>1, StreamAssumption DEF NextDeadline
<1>2. ASSUME t + Period <= 0,
             NEW x \in Nat, x = -(t + Period),
             NEW q, q = x \div Period
      PROVE  NextDeadline(t) \in 1 .. Period
    <2>1. q \in Nat /\ Period * q <= x /\ x < Period * (q + 1)
        BY <1>2, QuotientBounds, StreamAssumption
    <2>2. /\ Period * q \in Nat
          /\ (q + 1) * Period = Period * q + Period
          /\ Period * (q + 1) = Period * q + Period
        BY <2>1, StreamAssumption
    <2>3. NextDeadline(t) = (t + Period) + (q + 1) * Period
        BY <1>2 DEF NextDeadline
    <2> QED BY <1>2, <2>1, <2>2, <2>3, StreamAssumption
<1> QED BY <1>1, <1>2, StreamAssumption

\* The frame of a moment within the pattern is a frame of the pattern.
LEMMA FrameWithin ==
    ASSUME NEW e \in Nat, NEW n \in Nat \ {0}, NEW d \in Nat \ {0}, e < d
    PROVE  (e * n) \div d \in 0 .. n
<1>1. e * n \in Nat /\ e * n < d * n
    OBVIOUS
<1>2. ASSUME NEW q, q = (e * n) \div d
      PROVE  q \in Nat /\ q <= n
    <2>1. q \in Nat /\ d * q <= e * n
        BY <1>1, <1>2, QuotientBounds
    <2>2. q > n => d * q >= d * n
        BY <2>1
    <2> QED BY <1>1, <2>1, <2>2
<1> QED BY <1>2

\* Time only moves the playback forward.
LEMMA FrameAdvances ==
    ASSUME NEW e \in Nat, NEW f \in Nat, e <= f, NEW n \in Nat \ {0}, NEW d \in Nat \ {0}
    PROVE  (e * n) \div d <= (f * n) \div d
<1>1. e * n \in Nat /\ f * n \in Nat /\ e * n <= f * n
    OBVIOUS
<1>2. ASSUME NEW q, q = (e * n) \div d,
             NEW r, r = (f * n) \div d
      PROVE  q <= r
    <2>1. q \in Nat /\ d * q <= e * n
        BY <1>1, <1>2, QuotientBounds
    <2>2. r \in Nat /\ f * n < d * (r + 1)
        BY <1>1, <1>2, QuotientBounds
    <2>3. q >= r + 1 => d * q >= d * (r + 1)
        BY <2>1, <2>2
    <2>4. d * q \in Nat /\ d * (r + 1) \in Nat
        BY <2>1, <2>2
    <2> QED BY <1>1, <2>1, <2>2, <2>3, <2>4
<1> QED BY <1>2

\* What a pattern is.
LEMMA PatternShape ==
    ASSUME pattern \in Patterns \cup {NoPattern}
    PROVE  /\ pattern.frames \in Nat \ {0, 1}
           /\ pattern.duration \in Nat \ {0}
BY StreamAssumption DEF NoPattern

\* FrameIndex is the index of a frame, the last one from the end of the pattern on, and
\* never decreases.
LEMMA FrameIndexShape ==
    ASSUME NEW p \in [frames : Nat \ {0, 1}, duration : Nat \ {0}], NEW e \in Nat
    PROVE  /\ FrameIndex(e, p) \in 0 .. p.frames - 1
           /\ e >= p.duration => FrameIndex(e, p) = p.frames - 1
           /\ FrameIndex(0, p) = 0
           /\ \A f \in Nat : e <= f => FrameIndex(e, p) <= FrameIndex(f, p)
<1>1. p.frames - 1 \in Nat \ {0} /\ p.duration \in Nat \ {0}
    OBVIOUS
<1>2. ASSUME NEW g \in Nat PROVE FrameIndex(g, p) \in 0 .. p.frames - 1
    <2>1. g < p.duration => (g * (p.frames - 1)) \div p.duration \in 0 .. p.frames - 1
        BY <1>1, FrameWithin
    <2> QED BY <1>1, <2>1 DEF FrameIndex
<1>3. ASSUME NEW f \in Nat, e <= f PROVE FrameIndex(e, p) <= FrameIndex(f, p)
    <2>1. CASE f >= p.duration
        <3>1. FrameIndex(f, p) = p.frames - 1
            BY <2>1 DEF FrameIndex
        <3> QED BY <1>1, <1>2, <3>1
    <2>2. CASE f < p.duration
        <3>1. (e * (p.frames - 1)) \div p.duration <= (f * (p.frames - 1)) \div p.duration
            BY <1>1, <1>3, FrameAdvances
        <3>2. ~(e >= p.duration) /\ ~(f >= p.duration)
            BY <1>1, <1>3, <2>2
        <3> QED BY <3>1, <3>2 DEF FrameIndex
    <2> QED BY <1>1, <2>1, <2>2
<1>4. FrameIndex(0, p) = 0
    <2>1. (0 * (p.frames - 1)) \div p.duration = 0
        BY <1>1
    <2> QED BY <1>1, <2>1 DEF FrameIndex
<1> QED BY <1>2, <1>3, <1>4 DEF FrameIndex

-----------------------------------------------------------------------------
LEMMA StreamInit == Init => StreamInv
<1> SUFFICES ASSUME Init PROVE StreamInv
    OBVIOUS
<1>1. /\ NoPattern.frames = 2 /\ NoPattern.duration = 1
      /\ EndsBy(pattern) \in Nat /\ MaxGap \in Nat
    BY StreamAssumption DEF Init, NoPattern, EndsBy, MaxGap
<1>2. TypeOK
    <2>1. playing \in BOOLEAN /\ failed \in BOOLEAN
        BY Zenon DEF Init
    <2>2. toDeadline \in -(Late + Work) .. Period
        BY StreamAssumption DEF Init
    <2>3. elapsed \in 0 .. EndsBy(pattern) + 1 /\ index \in 0 .. pattern.frames - 1
        BY <1>1 DEF Init
    <2>4. toRefresh \in 0 .. Refresh /\ work \in 0 .. Work /\ sinceSent \in 0 .. MaxGap + 1
        BY <1>1, StreamAssumption DEF Init
    <2> QED BY <2>1, <2>2, <2>3, <2>4 DEF Init, TypeOK, Contents
<1>3. GapInv
    BY StreamAssumption DEF Init, GapInv
<1>4. PlayInv
    BY DEF Init, PlayInv
<1> QED BY <1>2, <1>3, <1>4 DEF StreamInv, Init

LEMMA StreamStep == StreamInv /\ [Next]_vars => StreamInv'
<1> SUFFICES ASSUME StreamInv, [Next]_vars PROVE StreamInv'
    OBVIOUS
<1> USE StreamAssumption
<1>1. /\ pattern.frames \in Nat \ {0, 1} /\ pattern.duration \in Nat \ {0}
      /\ EndsBy(pattern) \in Nat /\ MaxGap \in Nat /\ elapsed \in Nat
      /\ pattern \in [frames : Nat \ {0, 1}, duration : Nat \ {0}]
    BY PatternShape DEF StreamInv, TypeOK, EndsBy, MaxGap, NoPattern
<1>2. FrameIndex(elapsed, pattern) \in 0 .. pattern.frames - 1
    BY <1>1, FrameIndexShape
<1>3. CASE Move
    BY <1>3 DEF Move, StreamInv, TypeOK, GapInv, PlayInv, PlayedWhenSent, Contents
<1>4. ASSUME NEW p \in Patterns, Save(p) PROVE StreamInv'
    <2>1. p \in [frames : Nat \ {0, 1}, duration : Nat \ {0}]
        OBVIOUS
    <2>2. FrameIndex(0, p) \in 0 .. p.frames - 1 /\ EndsBy(p) \in Nat
        BY <2>1, FrameIndexShape DEF EndsBy, MaxGap
    <2>p. FrameIndex(0, p) = 0
        BY <2>1, FrameIndexShape
    <2>3. TypeOK'
        BY <1>4, <2>1, <2>2 DEF Save, StreamInv, TypeOK
    <2>4. GapInv'
        BY <1>4 DEF Save, StreamInv, GapInv
    <2>5. PlayInv'
        <3>1. PlayedWhenSent' = 0
            BY <1>4 DEF Save, StreamInv, TypeOK, PlayedWhenSent
        <3> QED BY <1>1, <1>4, <2>1, <2>2, <2>p, <3>1 DEF Save, StreamInv, TypeOK, PlayInv
    <2> QED BY <1>4, <2>3, <2>4, <2>5 DEF Save, StreamInv
<1>5. ASSUME NEW ok \in BOOLEAN, Play(ok) PROVE StreamInv'
    <2> USE <1>5 DEF Play
    <2>1. Content(index', pattern) \in Contents
        BY DEF Content, Contents
    <2>0. (elapsed < pattern.duration) \in BOOLEAN
        BY <1>1
    <2>a. /\ failed' \in BOOLEAN /\ playing' \in BOOLEAN
          /\ ~failed' => ok
          /\ ok => (playing' <=> elapsed < pattern.duration)
        BY <2>0, Zenon DEF StreamInv, TypeOK
    <2>b. /\ ok => sinceSent' = 0
          /\ ~ok => sinceSent' = sinceSent
        OBVIOUS
    <2>2. TypeOK'
        <3>1. ui' \in Contents /\ packet' \in Contents
            BY <2>1 DEF StreamInv, TypeOK
        <3>2. toDeadline' \in -(Late + Work) .. Period /\ sinceSent' \in 0 .. MaxGap + 1
            BY <1>1, <2>b DEF StreamInv, TypeOK
        <3>3. toRefresh' \in 0 .. Refresh
            <4>1. toRefresh' \in {toRefresh, Refresh}
                BY Zenon
            <4> QED BY <4>1 DEF StreamInv, TypeOK
        <3> QED BY <1>2, <2>a, <3>1, <3>2, <3>3 DEF StreamInv, TypeOK
    <2>3. GapInv'
        BY <2>a, <2>b DEF StreamInv, TypeOK, GapInv
    <2>4. PlayInv'
        <3>1. ok => PlayedWhenSent' = elapsed
            BY <1>1, <2>b DEF PlayedWhenSent
        <3> QED BY <1>1, <1>2, <2>a, <2>b, <3>1 DEF StreamInv, TypeOK, PlayInv
    <2>5. ~playing' => ui' = "neutral"
        <3>1. CASE ok /\ elapsed >= pattern.duration
            <4>1. index' = pattern.frames - 1
                BY <1>1, <1>5, <3>1, FrameIndexShape DEF Play
            <4> QED BY <3>1, <4>1 DEF SyncUi, Content
        <3>2. CASE ~ok
            BY <3>2, Zenon DEF StreamInv
        <3> QED BY <1>1, <2>a, <3>1, <3>2
    <2> QED BY <2>2, <2>3, <2>4, <2>5 DEF StreamInv
<1>6. ASSUME NEW ok \in BOOLEAN, Live(ok) PROVE StreamInv'
    <2>a. failed' \in BOOLEAN /\ (~failed' => ok)
        BY <1>6, Zenon DEF Live
    <2>b. /\ ok => sinceSent' = 0
          /\ ~ok => sinceSent' = sinceSent
        BY <1>6 DEF Live
    <2>1. TypeOK'
        BY <1>1, <1>6, <2>a DEF Live, StreamInv, TypeOK
    <2>2. GapInv'
        BY <1>6, <2>a, <2>b DEF Live, StreamInv, TypeOK, GapInv
    <2>3. PlayInv'
        BY <1>6 DEF Live, PlayInv
    <2> QED BY <1>6, <2>1, <2>2, <2>3 DEF Live, StreamInv
<1>7. CASE Schedule
    <2>1. NextDeadline(toDeadline) \in 1 .. Period
        BY <1>7, NextDeadlineAhead DEF Schedule, StreamInv, TypeOK, GapInv
    <2>2. TypeOK'
        BY <1>7, <2>1 DEF Schedule, StreamInv, TypeOK
    <2>3. GapInv'
        BY <1>7, <2>1 DEF Schedule, StreamInv, TypeOK, GapInv
    <2>4. PlayInv'
        BY <1>7 DEF Schedule, StreamInv, PlayInv, PlayedWhenSent
    <2> QED BY <1>7, <2>2, <2>3, <2>4 DEF Schedule, StreamInv
<1>8. CASE Tick
    <2>1. /\ elapsed' \in 0 .. EndsBy(pattern) + 1 /\ elapsed <= elapsed'
          /\ elapsed' <= elapsed + 1
        BY <1>1, <1>8 DEF Tick, Longer, StreamInv, TypeOK
    <2>2. /\ sinceSent' \in 0 .. MaxGap + 1 /\ sinceSent' <= sinceSent + 1
          /\ sinceSent <= MaxGap => sinceSent' = sinceSent + 1
        BY <1>1, <1>8 DEF Tick, Longer, StreamInv, TypeOK
    <2>3. toRefresh' \in 0 .. Refresh
        BY <1>8 DEF Tick, StreamInv, TypeOK
    <2>4. TypeOK'
        <3>1. toDeadline' \in -(Late + Work) .. Period /\ work' \in 0 .. Work
            BY <1>8 DEF Tick, StreamInv, TypeOK, GapInv
        <3> QED BY <1>8, <2>1, <2>2, <2>3, <3>1 DEF Tick, StreamInv, TypeOK
    <2>5. GapInv'
        BY <1>8, <2>2 DEF Tick, StreamInv, TypeOK, GapInv
    <2>6. ~failed => sinceSent <= MaxGap
        BY DEF StreamInv, TypeOK, GapInv, MaxGap
    <2>7. FrameIndex(elapsed, pattern) <= FrameIndex(elapsed', pattern)
          /\ FrameIndex(elapsed', pattern) \in 0 .. pattern.frames - 1
        BY <1>1, <2>1, FrameIndexShape
    <2>9. playing /\ ~failed => PlayedWhenSent' = PlayedWhenSent
        <3>1. playing /\ ~failed => elapsed' = elapsed + 1 /\ sinceSent' = sinceSent + 1
            <4>1. playing /\ ~failed => elapsed < pattern.duration + sinceSent /\ sinceSent <= MaxGap
                BY <2>6 DEF StreamInv, PlayInv
            <4>2. sinceSent \in Nat /\ EndsBy(pattern) = pattern.duration + MaxGap
                BY <1>1 DEF StreamInv, TypeOK, EndsBy
            <4> QED BY <1>1, <1>8, <2>2, <4>1, <4>2 DEF Tick, Longer
        <3>2. sinceSent \in Nat
            BY <1>1 DEF StreamInv, TypeOK
        <3> QED BY <1>1, <3>1, <3>2 DEF PlayedWhenSent
    <2>8. PlayInv'
        BY <1>1, <1>2, <1>8, <2>1, <2>2, <2>6, <2>7, <2>9 DEF Tick, StreamInv, TypeOK, PlayInv
    <2> QED BY <1>8, <2>4, <2>5, <2>8 DEF Tick, StreamInv
<1>9. CASE UNCHANGED vars
    BY <1>9 DEF vars, StreamInv, TypeOK, GapInv, PlayInv, PlayedWhenSent
<1> QED BY <1>3, <1>4, <1>5, <1>6, <1>7, <1>8, <1>9 DEF Next, Callback, User

\* The inductive invariant holds in every state.
THEOREM StreamInvariance == Spec => []StreamInv
<1>1. Init => StreamInv
    BY StreamInit
<1>2. StreamInv /\ [Next]_vars => StreamInv'
    BY StreamStep
<1> QED BY <1>1, <1>2, PTL DEF Spec

\* Every variable keeps its type; in particular no time and no set of saved patterns makes
\* pattern_frame_index leave the pattern.
THEOREM StreamTypes == Spec => []TypeOK
<1>1. StreamInv => TypeOK
    BY DEF StreamInv
<1> QED BY <1>1, StreamInvariance, PTL

\* The absolute deadlines of _schedule_next_stream keep the stream within one period, one
\* late start and one callback between two sends that succeed.
THEOREM StreamIsTimely == Spec => []StreamKeepsUp
<1>1. StreamInv => StreamKeepsUp
    BY StreamAssumption DEF StreamInv, TypeOK, GapInv, StreamKeepsUp, MaxGap
<1> QED BY <1>1, StreamInvariance, PTL

\* Delayed callbacks skip frames of a pattern and never stretch it: the frame sent is always
\* the one of its moment.
THEOREM PlaybackIsTimely == Spec => []PlaybackOnTime
<1>1. ASSUME StreamInv PROVE PlaybackOnTime
    <2>1. ~failed => sinceSent <= MaxGap
        BY <1>1, StreamAssumption DEF StreamInv, TypeOK, GapInv, MaxGap
    <2>2. pattern.duration \in Nat /\ MaxGap \in Nat /\ elapsed \in Nat /\ sinceSent \in Nat
        BY <1>1, PatternShape, StreamAssumption DEF StreamInv, TypeOK, EndsBy, MaxGap
    <2> QED BY <1>1, <2>1, <2>2 DEF StreamInv, PlayInv, PlaybackOnTime, EndsBy
<1> QED BY <1>1, StreamInvariance, PTL

\* Whatever the user does, a playback leaves the neutral pose on the wire and on the sliders.
THEOREM PlaybackHandsOver == Spec => HandsOverNeutral
<1> DEFINE Step == /\ playing /\ ~playing' => ui' = "neutral" /\ packet' = "neutral"
                   /\ packet' = "moved" /\ packet # "moved" => playing
<1>1. StreamInv /\ [Next]_vars => [Step]_vars
    <2> SUFFICES ASSUME StreamInv, Next PROVE Step
        OBVIOUS
    <2>1. ASSUME NEW ok \in BOOLEAN, Play(ok) PROVE Step
        <3>1. CASE ok /\ elapsed >= pattern.duration
            <4>1. pattern.frames \in Nat \ {0, 1} /\ index' = pattern.frames - 1
                BY <2>1, <3>1, PatternShape DEF Play, StreamInv, TypeOK, FrameIndex
            <4> QED BY <2>1, <3>1, <4>1 DEF Play, SyncUi, Content
        <3>2. pattern.duration \in Nat /\ elapsed \in Int
            BY PatternShape DEF StreamInv, TypeOK
        <3>3. ok => (playing' <=> elapsed < pattern.duration)
            BY <2>1, Zenon DEF Play
        <3>4. ~ok => playing'
            BY <2>1, Zenon DEF Play
        <3>5. CASE ~playing'
            BY <3>1, <3>2, <3>3, <3>4, <3>5
        <3>6. packet' = "moved" /\ packet # "moved" => playing
            BY <2>1 DEF Play
        <3> QED BY <3>5, <3>6
    <2>2. ASSUME NEW ok \in BOOLEAN, Live(ok) PROVE Step
        BY <2>2 DEF Live, StreamInv
    <2>3. CASE Move \/ (\E p \in Patterns : Save(p)) \/ Schedule \/ Tick
        BY <2>3 DEF Move, Save, Schedule, Tick
    <2> QED BY <2>1, <2>2, <2>3 DEF Next, Callback, User
<1>2. [][StreamInv /\ [Next]_vars]_vars => [][Step]_vars
    BY <1>1, PTL
<1> QED BY <1>1, StreamInvariance, PTL DEF Spec, HandsOverNeutral
=============================================================================
