SPECIFICATION FairSpec
CONSTANTS
    Peers = {1, 2}
    Seeds = {1, 2}
    v1 = v1
    v2 = v2
    Versions = {v1, v2}
    Pieces <- MCPieces
    TheFile = TheFile
    Zero = Zero
    NoFile = NoFile
    NoEndpoint = NoEndpoint
    NoInfo = NoInfo
    Workload = {"add", "replace", "have", "download-file", "download-pieces", "quit", "crash", "tracker-restart", "lost"}
    MaxCommands = 3
    MaxStops = 1
INVARIANTS TypeOK AdvertisedIsOnDisk SwarmInv
PROPERTY CommandReturns
