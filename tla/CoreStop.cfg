SPECIFICATION Spec
CONSTANTS
    None = None
    MaxTracklistLength = 10
    Orphans = {2}
    Endless = {}
    Calls <- MCCallsToStop
    Eager <- MCNone
    BatchSizes = {2}
    ClientOptions = {}
    Faults = {}
    Restarts = FALSE
    MaxTlid = 2
    MaxEvents = 0
INVARIANTS
    PlaysOnlyIfAsked
