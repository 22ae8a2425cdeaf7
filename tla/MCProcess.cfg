SPECIFICATION Spec
CONSTANTS
  kproc = kproc
  menu = menu
  p1 = p1
  p2 = p2
  p3 = p3
  t1 = t1
  t2 = t2
  t3 = t3
  None = None
  Procs <- ProcsMC
  Threads <- ThreadsMC
  MAX_PROC = 4
  ParentsOnly = TRUE
INVARIANTS
  TypeOK
  TableConsistent
  NoStaleReference
  ExitNotLost
  ChildKeepsSlot
PROPERTIES
  OnlyReference
  NoneForgotten
SYMMETRY Symmetry
CHECK_DEADLOCK FALSE
