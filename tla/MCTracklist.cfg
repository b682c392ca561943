\* Up to three tracks: the length limit is out of reach.
SPECIFICATION Spec
CONSTANTS
    None = None
    MaxTracklistLength = 3
    Positions <- MCPositions
    BatchSizes = {1, 2}
    ClientOptions = {"consume", "repeat"}
    MaxTlid = 3
    MaxVersion = 3
INVARIANTS
    TypeOK
    TlidsUnique
    ShuffledWithinTracklist
    RandomRound
    ClientViewCurrent
    PreviousUndoesNext
PROPERTIES
    TlidsNeverReused
