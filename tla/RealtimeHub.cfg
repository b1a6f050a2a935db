SPECIFICATION FairSpec
CONSTANTS
  Clients = {c1, c2}
  Subs = {s1, s2}
  NoSub = NoSub
  Capacity = 2
  Buffer = 1
  MaxEvents = 4
  MaxDrops = 1
INVARIANTS NoDoubleClose RegisteredIsCurrent
PROPERTIES FeedImplemented EventuallyCurrent
CHECK_DEADLOCK FALSE
