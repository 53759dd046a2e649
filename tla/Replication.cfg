SPECIFICATION FairSpec
CONSTANTS
  Account = {"a", "b", "m"}
  Node = {"a", "b"}
  Honest = {"a", "b"}
  Volatile = {}
  Joining = {}
  Impostor = {}
  Tale = {}
  Transfer <- SwarmTransfers
  Genesis = 2
  MaxClockSkew = 0
  PruneAbove = 0
  CrashInPrune = {}
  Ahead <- NoLead
  MaxRestarts = 0
  MaxTime = 1
INVARIANTS SeqNeverReused Converged DoubleSpendFlagged
PROPERTIES RefinesGrowOnly EventuallyEverywhere
CHECK_DEADLOCK FALSE
