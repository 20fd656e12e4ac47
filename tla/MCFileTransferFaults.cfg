SPECIFICATION FairSpec
CONSTANTS
  c1 = c1  c2 = c2
  Clients = {c1, c2}
  Store = Store
  NoName = NoName
  NoFile = NoFile
  Names = {"s", "a", "e", "s t", "e -1"}
  Size <- MCApart
  Spaced <- MCSpaced
  Faults = {"save", "read", "create", "open", "split", "kill", "reset"}
  MaxCommands = 2
INVARIANTS TypeOK InStep CompleteMeansCopied
PROPERTIES CommandReturns ThreadEnds
