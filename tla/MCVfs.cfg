SPECIFICATION Spec
CONSTANTS
  SectorSize = 4
  AtaHeads = 2
  AtaSectors = 3
  Lba28 = 12
  PartitionsPerDrive = 4
  Nesting = 1
  Nothing = Nothing
  FatInfoBytes = 1
  BpbBytes = 3
  Ext2InfoBytes = 4
  Blocks = {4}
  EntriesPerDirSector = 2
  ReservedFrom = 90
  InodesPerBlock = 2
  DirectBlocks = 3
  Machines <- MCMachines
  VolumeOn <- MCVolumeOn
  SystemSlots = 4
  MountSlots = 3
  NodeSlots = 11
  Names = {ROOT, HARDDISK1}
  MaxCount = 2
  Reloaded = {"ext2"}
  NotThere = NotThere
SYMMETRY NameSymmetry
INVARIANTS TypeOK MountsBacked RootBelongs DeviceReachable BlockReadRight FatReadRight FindRight ListedIsFound
CHECK_DEADLOCK FALSE
