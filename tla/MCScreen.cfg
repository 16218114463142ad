SPECIFICATION DisplaySpec
CONSTANTS
  Platforms <- AllPlatforms
  MaxChanges = 3
  Columns = 6
  Rows = 2
  StartX = 1
  Row = 1
  MaxLen = 3
  EditKey = "s"
  Messages <- SomeMessages
  MaxPort = 2
  StoredTexts <- SomeTexts
INVARIANTS
  DrawsOffScreen
  BarIsCurrent
  TypedIsShown
PROPERTIES
  BarSettles
  FramesGoOn
  ReleasedInOrder
