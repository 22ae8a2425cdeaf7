SPECIFICATION LiveSpec
CONSTANTS
  t1 = t1
  t2 = t2
  t3 = t3
  t4 = t4
  None = None
  N = 2
  Threads <- ThreadsMC
  MIGRATE_HARDCLOCKS = 1
PROPERTIES
  ReadyRuns
