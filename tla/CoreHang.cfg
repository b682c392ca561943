SPECIFICATION Spec
CONSTANTS
    None = None
    MaxTracklistLength = 10
    Orphans = {1}
    Endless = {}
    Calls <- MCCallsToHang
    Eager <- MCNone
    BatchSizes = {1}
    ClientOptions = {"repeat"}
    Faults = {}
    Restarts = FALSE
    MaxTlid = 1
    MaxEvents = 0
INVARIANTS
    NeverHangs
\* A core that hangs does nothing more.
CHECK_DEADLOCK FALSE
