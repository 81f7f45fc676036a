\* Two starts: the second finds what the first wrote, and an edit from between them or from
\* within one, but nothing that was set while the first ran.
SPECIFICATION FairSpec
CONSTANTS
    Values = {0, 1, 2}
    None = None
    Absent = Absent
    Wrong = Wrong
    Malformed = Malformed
    Unknown = Unknown
    PortRange = 2
    MaxStarts = 2
    MaxEdits = 1
    MaxSets = 1
    Urls = 2
    Threshold = 2
CHECK_DEADLOCK FALSE
INVARIANTS
    AdvertisesBoundPort
PROPERTIES
    StartsAsConfigured
    BackendCatchesUp
