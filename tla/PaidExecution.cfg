SPECIFICATION FairSpec
CONSTANTS
  Account = {"p", "q", "v", "w", "m"}
  Node = {"p", "q", "v", "w"}
  Transfer <- RaceAndPostdated
  Genesis = 1
  MaxClockSkew = 0
  Committee <- Infiltrated
  Price = 1
  MaxWorkers = 1
  Rogue = {"v"}
  Loot = {}
INVARIANTS BlameIsBacked BothServedExplained
PROPERTIES EveryRequestAnswered DoubleFundingDetected
CHECK_DEADLOCK FALSE
VIEW Unordered
