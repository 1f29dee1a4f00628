SPECIFICATION Spec
CONSTANTS
  a = a
  b = b
  t1 = t1
  t2 = t2
  NoId = NoId
  NoThread = NoThread
  Ids = {a}
  Threads = {t1}
  Percentages <- Unclamped
  starts = 1
  cancels = 1
  attaches = 1
  destroys = 1
  deaths = 1
  progresses = 1
  Max <- MaxBounds
CHECK_DEADLOCK FALSE
INVARIANTS TypeOK NoOrphanTransfer StartupFirst TearDownOnce
