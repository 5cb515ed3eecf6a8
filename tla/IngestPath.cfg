\* The whole path under every disruption.
SPECIFICATION Spec
CONSTANTS
  Requests = {r1, r2}
  MaxBatch = 2
  QueueLimit = 2
  MaxLog = 4
  Disruptions = {"crash", "stop", "link", "write", "stream", "redis"}
  r1 = r1
  r2 = r2
SYMMETRY AnyOrder
INVARIANTS
  TypeOK
  AcceptedIsDurable
  BatchIsPrefix
  StoredOnce
