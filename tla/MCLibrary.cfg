SPECIFICATION Spec
CONSTANTS
    None = None
    Uris <- MCUris
    Owner <- MCOwner
    Foreign <- MCForeign
    Order <- MCOrder
    Pages <- MCPages
    Blacklist = {"second"}
    MaxChunks = 2
    Settings <- MCSettings
INVARIANTS
    TypeOK
    FailuresStayApart
    PlaylistsAreKept
    FindsPlayable
