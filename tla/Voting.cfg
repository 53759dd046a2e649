SPECIFICATION Spec
CONSTANTS
  p1 = p1
  p2 = p2
  Provider = {p1, p2, p3}
  Price <- MCPrice
  Honest <- AllButP1
  Reliable <- OnlyP2
  NumItems = 2
  ChunkSize = 1
  Redundancy = 3
  StartBalance = 12
  Value = {right, wrong}
  Right = right
  NoResult = NoResult
  Nobody = Nobody
INVARIANTS HonestAnswerWins WrongIsPunished OverdrawnByFailures
PROPERTIES AcceptedIsFinal
CHECK_DEADLOCK FALSE
