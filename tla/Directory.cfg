SPECIFICATION Spec
CONSTANTS
  seed = seed
  p = p
  c = c
  d = d
  task = task
  NoNode = NoNode
  NoKey = NoKey
  Node = {seed, p, c, d}
  Key = {task}
  Dist <- MCDist
  Bucket <- MCBucket
  Table0 <- MCTable0
  Boot <- MCBoot
  Offers <- MCOffers
  Seeker = {c}
  K = 2
  Alpha = 2
  MaxKeys = 1
  MaxValues = 2
  Ttl = 1
  StoreAge = 2
  FindAge = 1
  MaxTime = 1
  Frail = {d}
  Cut = {seed, p, c, d}
  MaxFaults = 1
INVARIANT AnnouncedIsFound
VIEW Unordered
CHECK_DEADLOCK FALSE
