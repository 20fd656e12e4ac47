SPECIFICATION Spec
CONSTANTS
    Peers = {1, 2}
    Seeds = {1}
    v1 = v1
    v2 = v2
    Versions = {v1}
    Pieces <- MCPieces
    TheFile = TheFile
    Zero = Zero
    NoFile = NoFile
    NoEndpoint = NoEndpoint
    NoInfo = NoInfo
    Workload = {"add", "download-pieces", "crash"}
    MaxCommands = 3
    MaxStops = 1
INVARIANT AssembledIsWhole
