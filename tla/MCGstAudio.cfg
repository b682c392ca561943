SPECIFICATION FairSpec
CONSTANTS
    None = None
    Uris <- MCUris
    Live <- MCLive
    SeekTo = {0}
    Reports <- MCReports
    MaxQueue = 1
INVARIANTS
    TypeOK
    PlaysWhatIsAsked
    StreamToldHasStarted
    TagsOfTheStream
PROPERTIES
    HoldsUpItsStream
    ImplementsPipeline
    PlaysInTheEnd
