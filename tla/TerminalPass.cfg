SPECIFICATION Spec
CONSTANTS
    W = 2
    H = 2
    TAB_SPACES = 1
    CharacterSize = 2
    MaxText = 5
    Streams <- MCStreams
INVARIANTS
    TypeOK
    NeverOutOfBuffer
    ShownIsBuffered
    NothingElseShown
    TextShown
    NoTornSequence
    SequencesCompose
    TableMatchesAnsi
    PixelKeepsColor
