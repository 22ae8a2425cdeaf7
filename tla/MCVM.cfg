SPECIFICATION Spec
CONSTANTS
  c1 = c1
  c2 = c2
  p1 = p1
  p2 = p2
  None = None
  Halted = Halted
  Cpus <- CpusMC
  Procs <- ProcsMC
  PAGE_SIZE = 4
  Frames <- FramesMC
  UserFrames <- UserFramesMC
  Segments <- SegmentsMC
  Stack <- StackMC
  Pages <- PagesMC
  MAX_ALLOCATED_PAGES = 2
  NUM_TLB = 2
  PidValues <- PidValuesMC
  MaxPosition = 1
INVARIANTS
  TypeOK
  PageBudget
  OldestReplaced
  
PROPERTIES
  OwnFrame
SYMMETRY Symmetry
CHECK_DEADLOCK FALSE
