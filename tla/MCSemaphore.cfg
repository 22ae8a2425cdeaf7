SPECIFICATION Spec
CONSTANTS
  t1 = t1
  t2 = t2
  t3 = t3
  t4 = t4
  Threads <- ThreadsMC
  initial_count = 1
  MaxCount = 4
INVARIANTS
  TypeOK
  ChannelIsSleepers
  NoLostWakeup
PROPERTIES
  ImplementsAtomic
