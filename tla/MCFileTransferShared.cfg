SPECIFICATION Spec
CONSTANTS
  c1 = c1  c2 = c2
  Clients = {c1, c2}
  Store = Store
  NoName = NoName
  NoFile = NoFile
  Names = {"s", "a"}
  Size <- MCShared
  Spaced <- MCNoSpaces
  Faults = {}
  MaxCommands = 2
INVARIANT ReceivedIsAFile
