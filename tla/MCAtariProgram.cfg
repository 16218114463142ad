\* The one index that is not OFF; a counter of four, more than the
\* interrupts of two frames.
SPECIFICATION ProgramSpec
CONSTANTS
  Speeds = {"off", "index 0"}
  OFF = "off"
  Codes = {"key", "help"}
  Special = {"help"}
  CountMax = 4
  MaxWait = 1
INVARIANTS
  TransactionsUndisturbed
  IndexKept
  HandlersRestored
  GameKeyOnce
  HeldKeyHeard
