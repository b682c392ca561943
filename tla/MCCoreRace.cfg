SPECIFICATION Spec
CONSTANTS
    None = None
    MaxTracklistLength = 10
    Orphans = {}
    Endless = {}
    Calls <- MCCallsAnyTime
    Eager <- MCCallsAnyTime
    BatchSizes = {2}
    ClientOptions = {}
    Faults = {"no_start"}
    Restarts = FALSE
    MaxTlid = 2
    MaxEvents = 1
INVARIANTS
    AskedIsPlayed
