SPECIFICATION SearchSpec
CONSTANTS
  t1 = t1
  t2 = t2
  t3 = t3
  Threads <- ThreadsMC
  Boot = t1
  None = None
  nRamFrames = 7
  FirstFrame = 2
  TableFrames = 1
  Sizes <- SizesMC
SYMMETRY Symmetry
INVARIANTS
  SearchTypeOK
  Exclusive
  FreeUnowned
  NoLeak
  SizeRecorded
  FindsFirstFit
PROPERTIES
  ImplementsCoremap
CHECK_DEADLOCK FALSE
