SPECIFICATION Spec
CONSTANTS
  Provider = {a, b, z}
  Liar = {z}
  Layers = 3
  Redundancy = 2
  Tokens = 2
  Price = 1
  Funds = 18
  Past <- MCPast
  Warmup = 2
  MaxRuns = 1
  MaxFailures = 1
  MaxDecays = 1
SYMMETRY Interchangeable
INVARIANTS MajorityIsRight VerifiedIsWhole SpentIsCharged
CHECK_DEADLOCK FALSE
VIEW Readable
