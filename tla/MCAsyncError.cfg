SPECIFICATION FairSpec
CONSTANTS
  QueueSize = 3
  MaxFetches = 1
  MaxKeys = 1
  Statuses <- SomeStatuses
PROPERTIES
  QuittingReturns
