SPECIFICATION FairSpec
CONSTANTS
    None = None
    MaxTracklistLength = 10
    Orphans = {}
    Endless = {}
    Calls <- MCCalls
    Eager <- MCHarmless
    BatchSizes = {1, 2}
    ClientOptions = {"repeat", "single"}
    Faults = {}
    Restarts = TRUE
    MaxTlid = 2
    MaxEvents = 3
INVARIANTS
    TypeOK
    AgreesWithPipeline
    EventsTellCurrent
    CurrentInTracklist
    PlaysOnlyIfAsked
    AskedIsPlayed
PROPERTIES
    SeekedWhereTold
    AskedComes
    SeekAnswered
