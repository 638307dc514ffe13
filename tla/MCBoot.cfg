SPECIFICATION BootSpec
CONSTANTS
  SECTSIZE = 4
  HDRSECTS = 1
  ENTSIZE = 2
  Images <- MCImages
  MemTop = 72
  PAGE = 8
  Boots <- MCBoots
  Machines <- MCMachines
  TABLE = 16
  NPAGES = 10
  KERNPDE = 3
  MapWords = 32
INVARIANTS
  TypeOK
  KernelIntact
  TablesIntact
  SectionsReadable
  A20Commanded
  MapWhole
  KernelMapped
PROPERTY
  LoadTerminates
CHECK_DEADLOCK FALSE
