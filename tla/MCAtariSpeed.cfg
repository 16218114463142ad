\* The Atari program: two high-speed indexes besides OFF.
SPECIFICATION Spec
CONSTANTS
  Speeds = {"off", "index 0", "index 9"}
  OFF = "off"
INVARIANT
  GameAtStandardSpeed
