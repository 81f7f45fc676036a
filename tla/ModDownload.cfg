\* Two files, for one that is listed before a refresh fails and one that is not.
SPECIFICATION FairSpec
CONSTANTS
    Mods = {m1, m2}
    None = None
    MaxCommands = 2
    MaxMishaps = 2
CHECK_DEADLOCK FALSE
INVARIANTS
    FileAgreesWithList
PROPERTIES
    
    
    DownloadsEnd
