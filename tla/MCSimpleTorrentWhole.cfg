SPECIFICATION Spec
CONSTANTS
  Peers = {1, 2, 3}
  Seeds = {1}
  Size = 2
  NoFile = NoFile
  NoPeer = NoPeer
  MaxCommands = 2
  MaxStops = 0
INVARIANT ListedHasWhole
