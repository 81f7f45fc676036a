\* Two sessions: one can get the ID of the other, at the same time or after it.
\* IDs fill the byte.  No symmetry with liveness.
SPECIFICATION UdpFairSpec
CONSTANTS
    Clients = {c1, c2}
    Address <- OwnAddress
    Bytes = 2
    None = None
CHECK_DEADLOCK FALSE
INVARIANTS
    ParsedAsTheSenders
    SendsToProvenAddress
PROPERTIES
    HandshakeCompletes
