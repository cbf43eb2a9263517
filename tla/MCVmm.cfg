SPECIFICATION VmmSpec
CONSTANTS
  PAGE_SIZE = 4
  PMM_TOTAL_PAGES = 8
  MemTop = 38
  Regions <- MCRegions
  PT_ENTRIES = 2
  BOOT_LARGE = 1
  VA <- MCVA
  MapTo = {0}
  MapFlags = {{"WRITABLE"}, {"WRITABLE", "USER"}}
  ClientPages = 1
INVARIANTS
  ReservedNeverHandedOut
  CountsExact
  TablesFormTree
  
CHECK_DEADLOCK FALSE
