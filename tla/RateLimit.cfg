\* Requests of one client in any interleaving, under every disruption.
SPECIFICATION FairSpec
CONSTANTS
  Requests = {r1, r2, r3}
  r1 = r1
  r2 = r2
  r3 = r3
  Limit = 2
  Disruptions = {"redis", "crash", "evict"}
INVARIANTS
  TypeOK
  WindowRespectsLimit
  TtlIsOwed
PROPERTIES
  CounterEndsUnlessCut
