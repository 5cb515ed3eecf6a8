\* A client that tries again after an error, with no other disruption.
\* The finite set of requests is used up in the end and nothing more happens.
SPECIFICATION FairSpec
CONSTANTS
  Requests = {r1, r2}
  MaxBatch = 1
  QueueLimit = 2
  MaxLog = 2
  Disruptions = {}
  r1 = r1
  r2 = r2
INVARIANTS
  RetriedEventStoredOnce
CHECK_DEADLOCK FALSE
