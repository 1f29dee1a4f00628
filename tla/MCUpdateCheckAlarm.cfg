SPECIFICATION Spec
CONSTANTS
  Frequencies <- AllFrequencies
  Timestamps = {20140801}
  Unparsable = Unparsable
  BuildDate = 20140701
  MaxUpdates = 2
  boots = 1
  connectivity = 1
  preferences = 2
  appStarts = 1
  refreshes = 0
  alarms = 1
  attaches = 0
  deaths = 1
  MaxEvents <- MaxBounds
CHECK_DEADLOCK FALSE
INVARIANTS TypeOK AlarmAsStored OfferIsNew
