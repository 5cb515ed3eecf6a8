SPECIFICATION Spec
CONSTANTS
  Socket = {s1, s2, s3}
  MAX_RECONNECT = 2
  MAX_EVENTS = 2
  MaxAnnounced = 3
  Null = Null
INVARIANT TypeOK
INVARIANT OneLiveSocket
INVARIANT NeverSilentlyDown
INVARIANT ShownNewestFirst
PROPERTY ComesBack
