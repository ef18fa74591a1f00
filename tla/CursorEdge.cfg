SPECIFICATION Spec
CONSTANTS
    W = 2
    H = 2
    TAB_SPACES = 1
    CharacterSize = 2
    MaxText = 5
    Streams <- MCStreams
INVARIANT MovesStopAtEdge
