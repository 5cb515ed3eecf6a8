\* One command may fail: what becomes of the counter.
SPECIFICATION FairSpec
CONSTANTS
  Requests = {r1, r2}
  r1 = r1
  r2 = r2
  Limit = 1
  Disruptions = {"redis"}
PROPERTIES
  CounterIsShortLived
