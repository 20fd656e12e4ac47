SPECIFICATION TrackerSpec
CONSTANTS
    PeerIds = {A, B}
    Filenames = {f, g}
    Endpoints = {e1, e2}
    PieceCounts <- MCPieceCounts
    NoEndpoint = NoEndpoint
    NoInfo = NoInfo
INVARIANTS TypeOK EveryPieceHasOwner
PROPERTY QueryGrows
