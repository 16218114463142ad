\* The longest name with capabilities, "aa,2,40,24,0x15", is one byte too long.
SPECIFICATION Spec
CONSTANTS
  Targets <- AllTargets
  Lengths <- SmallLengths
  Keys <- SmallKeys
  FrameMs = 16
  Numbers <- MCNumbers
  CsvSize = 15
  MaxEdits = 2
INVARIANTS
  SettingsKept ShownIsUsed RegistrationRead
PROPERTIES
  IsLine
