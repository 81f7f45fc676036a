\* Two outside threads: enough for a kick to race a time-out and the client's
\* own threads.  A client whose threads have ended stops.
SPECIFICATION FairSpec
CONSTANTS
    Others = {o1, o2}
    Receiver = receiver
    Looper = looper
    MaxQueue = 1
CHECK_DEADLOCK FALSE
INVARIANTS
    ClosedOnce
PROPERTIES
    DisconnectEndsThreads
    PeerLossNoticed
