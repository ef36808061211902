SPECIFICATION SynthSpec
CONSTANTS
  Synths = {y1}
  Pieces = 2
  MaxLate = 1
  Blank = Blank
INVARIANT NoChunkComesTwice
CHECK_DEADLOCK FALSE
