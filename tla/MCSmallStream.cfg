SPECIFICATION FairSpec
CONSTANTS
  Capacity = 2
  IdleMax = 2
  ReadSizes = {1, 3}
  WriteSizes = {1, 3}
  MaxSent = 3
  MaxCommands = 2
  MaxOpens = 2
INVARIANTS
  CommandsWhole
PROPERTIES
  IsByteStream
  NothingAfterUncertain
  WriteEnds
