SPECIFICATION FairSpec
CONSTANTS
    None = None
    alice = alice
    bob = bob
    Backends <- MCBackends
    Clients <- MCClients
    Volumes <- MCVolumes
    Mutes <- MCMutes
    Resolvable <- MCResolvable
    AppSchemas <- MCAppSchemas
    Defaults <- MCDefaults
    Extensions <- MCExtensions
    Settings <- MCSettings
INVARIANTS
    TypeOK
    SetUpIsSound
    ConfigReadsBack
    LastSetIsHeard
    ToldIsReal
    AnswersAreTrue
PROPERTIES
    SavesWhatWasSet
    ProcessEnds
