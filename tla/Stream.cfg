SPECIFICATION FairSpec
CONSTANTS
    Period = 2
    Refresh = 5
    Late = 3
    Work = 1
    Patterns <- SavedPatterns
INVARIANTS
    TypeOK
    StreamKeepsUp
    PlaybackOnTime
PROPERTIES
    HandsOverNeutral
    PlaybackEnds
