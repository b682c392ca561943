\* Every start and end of a slice, 0 and None included.
SPECIFICATION Spec
CONSTANTS
    None = None
    MaxTracklistLength = 3
    Positions <- MCPositions
    BatchSizes = {1, 2}
    ClientOptions = {}
    MaxTlid = 3
    MaxVersion = 3
INVARIANTS
    ShuffleKeepsTracks
