SPECIFICATION Spec
CONSTANTS
    Axes = {1, 2}
    Baseline <- Neutral
    Full = 16
    Durations = {2, 5, 12}
    FirstDuration = 10
    LeastDuration = 4
    Strokes <- Drawn
    MaxEdits = 3
INVARIANTS
    TypeOK
    EndsNeutral
    MonotoneWhenBuilt
PROPERTIES
    OtherPinsHold
    ClickIsLocal
