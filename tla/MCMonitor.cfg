SPECIFICATION Spec
CONSTANTS
  t1 = t1
  t2 = t2
  t3 = t3
  t4 = t4
  Threads <- ThreadsMC
  None = None
INVARIANTS
  TypeOK
  MutualExclusion
  OwnerAssertions
  NoLostSignal
PROPERTIES
  ImplementsMonitor
CHECK_DEADLOCK FALSE
