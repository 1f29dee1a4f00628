SPECIFICATION FairSpec
CONSTANTS
  Frequencies <- SomeFrequencies
  Timestamps = {20140601, 20140801}
  Unparsable = Unparsable
  BuildDate = 20140701
  MaxUpdates = 0
  boots = 0
  connectivity = 1
  preferences = 1
  appStarts = 0
  refreshes = 2
  alarms = 1
  attaches = 2
  deaths = 1
  MaxEvents <- MaxBounds
CHECK_DEADLOCK FALSE
PROPERTY RefreshAnswered
