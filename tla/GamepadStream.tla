--------------------------- MODULE GamepadStream ----------------------------
(***************************************************************************)
(* The operator's application, class AxisControlApp of                     *)
(* gamepad/game_emulator_run_v1.py: one Tk thread that sends a packet at   *)
(* absolute deadlines, from the sliders and switches or, during a          *)
(* playback, from the pattern saved by the editor.  A callback may start   *)
(* up to Late ticks after its deadline (other Tk callbacks run first) and  *)
(* work for up to Work ticks; a send may fail.                             *)
(*                                                                         *)
(* Of a frame or of the sliders only one thing is told apart: whether it   *)
(* is the neutral pose with every axis masked off, as the first and last   *)
(* frame of a saved pattern are.                                           *)
(***************************************************************************)
EXTENDS Integers

CONSTANTS
    Period,         \* STREAM_PERIOD_S
    Refresh,        \* GUI_REFRESH_PERIOD_S
    Late, Work,     \* the delay and the length of a callback
    Patterns        \* what the editor may save: [frames, duration]

ASSUME StreamAssumption ==
    /\ Period \in Nat \ {0} /\ Refresh \in Nat \ {0} /\ Late \in Nat /\ Work \in Nat
    /\ Patterns \subseteq [frames : Nat \ {0, 1}, duration : Nat \ {0}]

VARIABLES
    pattern,        \* pattern_total and pattern_duration_s, or NoPattern
    playing,        \* pattern_active
    elapsed,        \* now - pattern_started_at
    index,          \* pattern_index
    ui,             \* what sliders and switches show
    toRefresh,      \* _next_gui_refresh_at - now
    toDeadline,     \* _next_send_deadline - now
    tpc, work,      \* the Tk thread: idle or past the send; for how long
    packet,         \* the last packet sent
    sinceSent,      \* how long ago
    failed          \* the last send failed

vars == <<pattern, playing, elapsed, index, ui, toRefresh, toDeadline,
          tpc, work, packet, sinceSent, failed>>

Contents == {"neutral", "moved", "user"}

\* The longest pause between two sends that succeed.
MaxGap == Period + Late + Work

NoPattern == [frames |-> 2, duration |-> 1]
EndsBy(p) == p.duration + MaxGap

Longer(age, cap)  == IF age < cap THEN age + 1 ELSE cap

Init ==
    /\ pattern = NoPattern /\ playing = FALSE /\ elapsed = 0 /\ index = 0
    /\ ui = "user" /\ toRefresh = 0
    /\ toDeadline = 0 /\ tpc = "idle" /\ work = 0
    /\ packet = "user" /\ sinceSent = 0 /\ failed = FALSE

-----------------------------------------------------------------------------
\* Regression: the progress is not clipped.
FrameIndexUnclipped(e, p) == (e * (p.frames - 1)) \div p.duration

(* pattern_frame_index: the time played picks the frame. *)
FrameIndex(e, p) ==
    IF e >= p.duration THEN p.frames - 1 ELSE (e * (p.frames - 1)) \div p.duration

Content(i, p) == IF i \in {0, p.frames - 1} THEN "neutral" ELSE "moved"

\* The user moves a slider or a switch.
Move ==
    /\ tpc = "idle"
    /\ ui' = "user"
    /\ UNCHANGED <<pattern, playing, elapsed, index, toRefresh, toDeadline, tpc, work,
                   packet, sinceSent, failed>>

\* on_save, called by Save & Play, during another playback or not.
Save(p) ==
    /\ tpc = "idle"
    /\ pattern' = p /\ playing' = TRUE /\ elapsed' = 0 /\ index' = 0
    /\ toRefresh' = 0
    /\ UNCHANGED <<ui, toDeadline, tpc, work, packet, sinceSent, failed>>

\* Regression: the end of a playback is not shown unless a refresh is due.
SyncUiWhenDue == toRefresh <= 0

\* The sliders follow the playback, at most once a refresh period, and at its end.
SyncUi == toRefresh <= 0 \/ elapsed >= pattern.duration

\* Regression: one frame per callback, however late it is.
PlayCountsCallbacks(ok) ==
    /\ tpc = "idle" /\ toDeadline <= 0 /\ playing
    /\ index' = IF index < pattern.frames - 1 THEN index + 1 ELSE index
    /\ ui' = IF SyncUi THEN Content(index', pattern) ELSE ui
    /\ failed' = ~ok
    /\ IF ok
       THEN /\ packet' = Content(index', pattern) /\ sinceSent' = 0
            /\ toRefresh' = IF SyncUi THEN Refresh ELSE toRefresh
            /\ playing' = (index < pattern.frames - 1)
       ELSE UNCHANGED <<packet, sinceSent, toRefresh, playing>>
    /\ tpc' = "schedule" /\ work' = 0
    /\ UNCHANGED <<pattern, elapsed, toDeadline>>

\* Regression: only a callback on the very end of the pattern ends the playback.
PlayEndsOnTheDot(ok) ==
    /\ tpc = "idle" /\ toDeadline <= 0 /\ playing
    /\ index' = FrameIndex(elapsed, pattern)
    /\ ui' = IF SyncUi THEN Content(index', pattern) ELSE ui
    /\ failed' = ~ok
    /\ IF ok
       THEN /\ packet' = Content(index', pattern) /\ sinceSent' = 0
            /\ toRefresh' = IF SyncUi THEN Refresh ELSE toRefresh
            /\ playing' = (elapsed # pattern.duration)
       ELSE UNCHANGED <<packet, sinceSent, toRefresh, playing>>
    /\ tpc' = "schedule" /\ work' = 0
    /\ UNCHANGED <<pattern, elapsed, toDeadline>>

\* _stream_vector during a playback; a failed send skips what follows it.
Play(ok) ==
    /\ tpc = "idle" /\ toDeadline <= 0 /\ playing
    /\ index' = FrameIndex(elapsed, pattern)
    /\ ui' = IF SyncUi THEN Content(index', pattern) ELSE ui
    /\ failed' = ~ok
    /\ IF ok
       THEN /\ packet' = Content(index', pattern) /\ sinceSent' = 0
            /\ toRefresh' = IF SyncUi THEN Refresh ELSE toRefresh
            /\ playing' = (elapsed < pattern.duration)
       ELSE UNCHANGED <<packet, sinceSent, toRefresh, playing>>
    /\ tpc' = "schedule" /\ work' = 0
    /\ UNCHANGED <<pattern, elapsed, toDeadline>>

\* _stream_vector otherwise.
Live(ok) ==
    /\ tpc = "idle" /\ toDeadline <= 0 /\ ~playing
    /\ failed' = ~ok
    /\ IF ok THEN packet' = ui /\ sinceSent' = 0 ELSE UNCHANGED <<packet, sinceSent>>
    /\ tpc' = "schedule" /\ work' = 0
    /\ UNCHANGED <<pattern, playing, elapsed, index, ui, toRefresh, toDeadline>>

\* Regression: a missed deadline is counted once more than it was missed.
NextDeadlineSkips(t) ==
    LET next == t + Period
    IN  IF next <= 0 THEN next + ((-next) \div Period + 2) * Period ELSE next

\* The first point of the grid of deadlines after the one just served that lies ahead.
NextDeadline(t) ==
    LET next == t + Period
    IN  IF next <= 0 THEN next + ((-next) \div Period + 1) * Period ELSE next

Schedule ==
    /\ tpc = "schedule" /\ tpc' = "idle"
    /\ toDeadline' = NextDeadline(toDeadline)
    /\ work' = 0
    /\ UNCHANGED <<pattern, playing, elapsed, index, ui, toRefresh, packet, sinceSent, failed>>

Tick ==
    /\ tpc = "idle" => toDeadline > -Late
    /\ tpc = "schedule" => work < Work
    /\ elapsed' = Longer(elapsed, EndsBy(pattern) + 1)
    /\ toRefresh' = IF toRefresh > 0 THEN toRefresh - 1 ELSE toRefresh
    /\ toDeadline' = toDeadline - 1
    /\ work' = IF tpc = "schedule" THEN work + 1 ELSE 0
    /\ sinceSent' = Longer(sinceSent, MaxGap + 1)
    /\ UNCHANGED <<pattern, playing, index, ui, tpc, packet, failed>>

Callback == Schedule \/ \E ok \in BOOLEAN : Play(ok) \/ Live(ok)
User == Move \/ \E p \in Patterns : Save(p)

Next == Callback \/ User \/ Tick

Spec == Init /\ [][Next]_vars

\* The Tk main loop runs what is due; the network lets a send through again and again.
FairSpec ==
    /\ Spec
    /\ WF_vars(Tick) /\ WF_vars(Callback)
    /\ SF_vars(Play(TRUE))

-----------------------------------------------------------------------------
(* Properties *)

TypeOK ==
    /\ pattern \in Patterns \cup {NoPattern}
    /\ playing \in BOOLEAN /\ elapsed \in 0 .. EndsBy(pattern) + 1
    /\ index \in 0 .. pattern.frames - 1
    /\ ui \in Contents /\ toRefresh \in 0 .. Refresh
    /\ toDeadline \in -(Late + Work) .. Period
    /\ tpc \in {"idle", "schedule"} /\ work \in 0 .. Work
    /\ packet \in Contents /\ sinceSent \in 0 .. MaxGap + 1 /\ failed \in BOOLEAN

\* While sends succeed the stream never pauses for longer than one period, one late start
\* and one callback: the next deadline is ahead, and within a period, however many passed.
StreamKeepsUp == ~failed => sinceSent <= MaxGap

\* How long the pattern had played when the last packet was sent, 0 if that was before it.
PlayedWhenSent == IF sinceSent <= elapsed THEN elapsed - sinceSent ELSE 0

\* A playback is not stretched by delayed callbacks: while sends succeed it is over within one
\* pause of its duration, and until then the frame is the one whose time had come when the
\* last packet was sent, however many were skipped; with failed sends, it never runs ahead.
PlaybackOnTime ==
    /\ playing /\ ~failed => /\ elapsed <= EndsBy(pattern)
                            /\ index = FrameIndex(PlayedWhenSent, pattern)
    /\ playing => index <= FrameIndex(elapsed, pattern)

(* The inductive invariant behind StreamKeepsUp, PlaybackOnTime and HandsOverNeutral. *)

\* The last send and the next deadline are a period and a callback apart.
GapInv ==
    /\ tpc = "idle" => toDeadline >= -Late
    /\ tpc = "schedule" => toDeadline <= 0 /\ toDeadline >= -(Late + work)
    /\ ~failed /\ tpc = "idle" => sinceSent + toDeadline <= Period + Work
    /\ ~failed /\ tpc = "schedule" => sinceSent <= work

\* A playback that goes on had not reached its end when the last packet was sent, which showed
\* the frame of that moment; after a send that failed the frame shown is at most behind.
PlayInv ==
    /\ playing /\ ~failed => /\ elapsed < pattern.duration + sinceSent
                            /\ index = FrameIndex(PlayedWhenSent, pattern)
    /\ playing => index <= FrameIndex(elapsed, pattern)

StreamInv == TypeOK /\ GapInv /\ PlayInv /\ (~playing => ui # "moved")

\* A playback ends with the neutral frame on the wire and on the sliders, whatever the user
\* touched meanwhile, so the live stream takes over without a jump; no frame of a pattern
\* outlives its playback.
HandsOverNeutral ==
    [][/\ playing /\ ~playing' => ui' = "neutral" /\ packet' = "neutral"
       /\ packet' = "moved" /\ packet # "moved" => playing]_vars

\* Once the user has saved for the last time, the playback comes to its end, through any
\* number of late callbacks and failed sends.
PlaybackEnds ==
    <>[][\A p \in Patterns : ~Save(p)]_vars => [](playing => <>~playing)
=============================================================================
