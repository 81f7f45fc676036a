\* More connections than the global limit and more than one address, so that
\* both limits refuse.
SPECIFICATION LimiterFairSpec
CONSTANTS
    Conns = {c1, c2, c3, c4}
    Ips = {ipA, ipB}
    MaxPerIp = 2
    MaxGlobal = 3
    NoOwner = NoOwner
INVARIANTS
    ThreadsWithinLimits
PROPERTIES
    RejectsOnlyWhenFull
    OnlySessionsKeepUnits
    ImplementsAdmission
