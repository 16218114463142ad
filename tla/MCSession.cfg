SPECIFICATION FairSpec
CONSTANTS
  Configs <- AllConfigs
  RowsMax = 2
INVARIANTS
  AnswerIsOwn
  ViewIsFresh
  ScreenIsCurrent
PROPERTIES
  QuitEnds
  CommandsFetched
