SPECIFICATION Spec
CONSTANTS
    None = None
    MaxTracklistLength = 10
    Orphans = {1, 3}
    Endless = {}
    Calls <- MCCallsThatKeepTracks
    Eager <- MCNone
    BatchSizes = {3}
    ClientOptions = {"repeat", "single"}
    Faults = {}
    Restarts = FALSE
    MaxTlid = 3
    MaxEvents = 0
INVARIANTS
    HeardIsCurrent
PROPERTIES
    PlaysAPlayable
