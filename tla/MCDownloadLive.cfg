SPECIFICATION FairSpec
CONSTANTS
  a = a
  b = b
  t1 = t1
  t2 = t2
  NoId = NoId
  NoThread = NoThread
  Ids = {a}
  Threads = {t1}
  Percentages = {}
  starts = 2
  cancels = 0
  attaches = 0
  destroys = 1
  deaths = 0
  progresses = 0
  Max <- MaxBounds
CHECK_DEADLOCK FALSE
INVARIANT ProducerMatchesFlag
PROPERTY EveryDownloadEnds
