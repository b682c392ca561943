SPECIFICATION Spec
CONSTANTS
    None = None
    MaxTracklistLength = 10
    Orphans = {}
    Endless = {3}
    Calls <- MCCallsThatMoveOn
    Eager <- MCNone
    BatchSizes = {1, 2}
    ClientOptions = {"consume", "single"}
    Faults = {}
    Restarts = FALSE
    MaxTlid = 3
    MaxEvents = 0
INVARIANTS
    AgreesWithPipeline
PROPERTIES
    ConsumedAreGone
