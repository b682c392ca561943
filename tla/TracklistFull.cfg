\* Two tracks at most, and clients that add three at once.
SPECIFICATION Spec
CONSTANTS
    None = None
    MaxTracklistLength = 2
    Positions <- MCPositions
    BatchSizes = {3}
    ClientOptions = {}
    MaxTlid = 3
    MaxVersion = 3
INVARIANTS
    ClientViewCurrent
