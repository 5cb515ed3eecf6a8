\* One subscription after another, nothing going wrong.
SPECIFICATION FairSpec
CONSTANTS
  Message = {envelope, garbled}
  Malformed = {garbled}
  envelope = envelope
  Unwritable = {}
  garbled = garbled
  QueueLimit = 2
  Disruptions = {}
  MaxLog = 2
PROPERTIES
  StoredIsAnnounced
