SPECIFICATION Spec
CONSTANTS
  Main = Main
  t1 = t1
  t2 = t2
  metered = metered
  update = update
  Info = Info
  Pool = {t1, t2}
  Prefs = {metered}
  Updates = {update}
  Versions = {2}
  calls = 1
  tearDowns = 1
  deaths = 0
  Max <- MaxBounds
CHECK_DEADLOCK FALSE
INVARIANT ForbiddenIsRefused
