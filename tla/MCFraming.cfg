SPECIFICATION FairSpec
CONSTANTS
  Modes = {TRUE, FALSE}
  AtOffset = {TRUE, FALSE}
  Ahead = 1
  ChunkSize = 4
  Garbage <- MCGarbage
  Scripts <- MCScripts
INVARIANTS
  Aligned
  StaysInBuffer
  WholeOnSmallStream
PROPERTIES
  CallEnds
