SPECIFICATION FairSpec
CONSTANTS
  QueueSize = 3
  MaxFetches = 3
  MaxKeys = 4
  Statuses <- SomeStatuses
INVARIANTS
  TypeOK
  ConnectionExclusive
  NoCallAfterClose
  AnswerIsOwn
  RingIsFifo
  SnapshotsConsecutive
PROPERTIES
  QuitCompletes
  CommandsRun
