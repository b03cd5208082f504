SPECIFICATION Spec
CONSTANTS
    N = 2
    Packets <- ThreePackets
    Capacity = 3
PROPERTIES
    MatchesReference
