SPECIFICATION Spec
CONSTANTS
  Main = Main
  t1 = t1
  t2 = t2
  metered = metered
  update = update
  Info = Info
  Pool = {t1, t2}
  Prefs = {metered}
  Updates = {update}
  Versions = {0, 1, 2, 3}
  calls = 3
  tearDowns = 1
  deaths = 1
  Max <- MaxBounds
CHECK_DEADLOCK FALSE
INVARIANTS TypeOK HandleConsistent OneRowPerName ReadsAreCurrent CrashOnlyByTearDown SchemaComplete
