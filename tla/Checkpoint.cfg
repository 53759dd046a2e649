SPECIFICATION Spec
CONSTANTS
  Account = {"a", "b", "m"}
  Node = {"a", "b"}
  Honest = {"a"}
  Volatile = {"b"}
  Joining = {"b"}
  Impostor = {"x"}
  Tale <- Tales
  Transfer <- CheckpointTransfers
  Genesis = 2
  MaxClockSkew = 0
  PruneAbove = 1
  CrashInPrune = {"b"}
  Ahead <- NoLead
  MaxRestarts = 1
  MaxTime = 0
INVARIANTS HonestUnblamed BooksExplained
PROPERTIES FlagsPermanent BooksSurvive
CHECK_DEADLOCK FALSE
