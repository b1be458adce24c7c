CONSTANT
  MaxTasks = 6
SPECIFICATION Spec
INVARIANTS
  BackLinks
  SearchAgrees
PROPERTY
  ImplementsTaskSeq
CHECK_DEADLOCK FALSE
