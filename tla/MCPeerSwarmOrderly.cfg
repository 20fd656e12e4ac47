SPECIFICATION FairSpec
CONSTANTS
    Peers = {1, 2, 3}
    Seeds = {3}
    v1 = v1
    v2 = v2
    Versions = {v1}
    Pieces <- MCPieces
    TheFile = TheFile
    Zero = Zero
    NoFile = NoFile
    NoEndpoint = NoEndpoint
    NoInfo = NoInfo
    Workload = {"add", "have", "download-pieces", "quit", "tracker-restart"}
    MaxCommands = 3
    MaxStops = 1
INVARIANTS OwnerServes AnnouncesWhole PiecesAvailable OrderlyInv
PROPERTIES ImplementsDirectory DownloadCompletes
