CONSTANTS
  MaxProcs = 3
  MaxExecs = 3
  MaxWrites = 1
  FrameCount = 42
  WordBits = 4
  Reserved = 6
  HeapPages = 26
  UnitsPerPage = 3
  TablePages = 4
  StackPages = 2
  BootUnits = 3
  TaskUnits = 1
  DirUnits = 4
  KStackUnits = 3
  ElfUnits = 1
  ReadUnits = 1
  Programs <- MCPrograms
SPECIFICATION Spec
INVARIANT HeapExpands
CHECK_DEADLOCK FALSE
