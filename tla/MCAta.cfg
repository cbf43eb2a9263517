SPECIFICATION FairSpec
CONSTANTS
  ATA_POLL_LIMIT = 1
  ATA_RETRY_COUNT = 3
  ATA_MAX_LBA28 = 1
  MaxCount = 2
  Tag = {1, 2}
INVARIANTS
  ReadExact
  WriteExact
PROPERTIES
  OnlyWhatWasWritten
  CallsReturn
