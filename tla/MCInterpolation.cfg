\* A screen of 8 by 5 pixels for a world of 4 by 2 cells, so that half of its width
\* is a tie and the rows do not divide evenly.
SPECIFICATION Spec
CONSTANTS
  Width = 8
  Height = 5
  WorldWidth = 4
  WorldHeight = 2
  Margin = 2
  MaxTicks = 3
  Places <- OneMoving
  EmbeddedShapes <- TheShapes
INVARIANTS
  NeverExtrapolates
  NoJumpAtArrival
  OrderIrrelevant
  OutlineDrawn
