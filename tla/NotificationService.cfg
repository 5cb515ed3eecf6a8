\* The three subscriptions under every disruption: safety, refinement, settling.
SPECIFICATION FairSpec
CONSTANTS
  Message = {envelope, garbled, refused}
  Malformed = {garbled}
  envelope = envelope
  Unwritable = {refused}
  garbled = garbled
  refused = refused
  QueueLimit = 2
  Disruptions = {"crash", "stop", "link", "write"}
  MaxLog = 3
INVARIANTS
  TypeOK
  Accounted
  OnlyOverdueOvertaken
  NoWorkWithoutSubscription
PROPERTIES
  ImplementsLossyFifo
  EveryMessageSettles
