SPECIFICATION FairSpec
CONSTANTS
  Token = {t1, t2}
  Address = {x, y}
  NoAddress = NoAddress
  Faucet = 1
  Grants = {0, 1}
  Prices = {2}
  MaxPrice = 2
  Wasted = {0}
  MaxCredit = 2
  GuestsPerIp = 1
  MaxGuests = 1
  Cooldown = 0
  Window = 0
  MaxChats = 1
  MaxTime = 1
  MaxEnds = 1
  MaxUnsaved = 1
INVARIANTS BalanceExplained WithinOneQuestion AllowancesLimited
PROPERTY AsksEnd
CHECK_DEADLOCK FALSE
