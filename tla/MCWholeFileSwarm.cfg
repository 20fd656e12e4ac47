SPECIFICATION FairSpec
CONSTANTS
  Peers = {1, 2}
  Seeds = {1}
  Size = 2
  NoFile = NoFile
  NoPeer = NoPeer
  MaxCommands = 3
  MaxFaults = 1
INVARIANTS TypeOK ListedHasFile WholeUnlessSpoiled AnswersComplete
PROPERTIES CommandReturns QuitEnds ImplementsDirectory
