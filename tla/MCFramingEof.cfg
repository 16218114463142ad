SPECIFICATION FairSpec
CONSTANTS
  Modes = {FALSE}
  AtOffset = {FALSE}
  Ahead = 0
  ChunkSize = 4
  Garbage <- MCGarbage
  Scripts <- MCScripts
INVARIANTS
  WholeFrameReturned
