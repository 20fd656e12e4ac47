SPECIFICATION FairSpec
CONSTANTS
  Clients = {1, 2}
  SilentClients = {2}
  SilentServers = {2}
  Kinds = {"pipelined", "post"}
  Fds = {4, 5, 6}
  NoFd = NoFd
  Addresses = 2
  Chunks = 2
  Window = 1
  MaxRequests = 3
INVARIANTS TypeOK DescriptorsOwned OneAnswer WholeAnswer
PROPERTIES OthersServed ThreadEnds
