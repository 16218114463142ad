SPECIFICATION FairSpec
CONSTANTS
  Configs <- WithCommands
  RowsMax = 2
PROPERTIES
  RedrawIsAdvance
