\* Two sessions: they can race, and one can be disconnected by its namesake at
\* every step.  Two names, so that namesakes and strangers both occur; a limit
\* of one, so that it refuses.  No symmetry with liveness.  Sessions that all
\* ended in an exception stop.
SPECIFICATION FairSpec
CONSTANTS
    Sessions = {s1, s2}
    Names = {n1, n2}
    MaxPlayers = 1
CHECK_DEADLOCK FALSE
INVARIANTS
    SameIDOnlyIfRaced
    LeaverKeepsID
    OneSessionPerName
    PlayerLimit
PROPERTIES
    DisconnectedLeave
