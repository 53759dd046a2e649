SPECIFICATION FairSpec
CONSTANTS
  Job = {"j", "k"}
  Request = {"r"}
  Chat = "chat"
  Pipe = "pipe"
  Caller <- MCCaller
  Price = 1
  Funds = 2
  MaxOffers = 2
  Stages = 2
  MaxKept = 1
  MaxLog = 2
  MaxHistory = 1
  MaxStarted = 2
INVARIANTS OverdrawnByRivals ChatInOrder
 
CHECK_DEADLOCK FALSE
