SPECIFICATION FairSpec
CONSTANTS
  Tree = {"ingest", "done"}
  Connection = {c1, c2}
  Slow = {c2}
  MaxAnnounced = 2
  NoOne = NoOne
CHECK_DEADLOCK FALSE
INVARIANT TypeOK
INVARIANT PresentIsRegistered
INVARIANT NobodyIsSkipped
PROPERTY ImplementsContiguousFeed
PROPERTY GoneLeavesTheSet
PROPERTY BroadcastEnds
