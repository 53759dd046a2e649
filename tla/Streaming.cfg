SPECIFICATION FairSpec
CONSTANTS
  Session = {"s", "t"}
  Owner <- OneOwner
  Parallel = {}
  Cancellable = {"t"}
  Ranking <- OneFailover
  Idler = {}
  Relayed = {"q"}
  Erratic = {"q"}
  Price <- FlatPrice
  StartBalance = 2
  MaxWorkers = 1
  MaxUnread = 1
INVARIANTS MirroredIsInForce WithinBalance
PROPERTIES StreamsEnd PlacesComeBack ImplementsCalls
CHECK_DEADLOCK FALSE
