\* One other player is enough to fill the queue; two values of the vehicle's
\* data for the order of edits to show.  A joiner that hung up stops.
SPECIFICATION FairSpec
CONSTANTS
    Owners = {o1}
    Vids = {v1}
    Configs = {a, b}
    None = None
    MaxQueue = 3
CHECK_DEADLOCK FALSE
INVARIANTS
    SnapshotAndQueueAddUp
PROPERTIES
    MissesStraddleAnEnd
    CatchesUp
