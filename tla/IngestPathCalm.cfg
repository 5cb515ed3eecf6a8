\* The whole path while the process lives, its links hold and the streams take
\* what they are for; an acknowledgement may come too late.
\* The finite set of requests is used up in the end and nothing more happens.
SPECIFICATION FairSpec
CONSTANTS
  Requests = {r1, r2}
  MaxBatch = 2
  QueueLimit = 4
  MaxLog = 4
  Disruptions = {}
  r1 = r1
  r2 = r2
PROPERTIES
  AcceptedIsStored
  EveryRequestIsAnswered
CHECK_DEADLOCK FALSE
