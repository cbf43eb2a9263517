SPECIFICATION Spec
CONSTANTS
  MAX_USERS = 3
  PASS_HASH_LEN = 1
  ByteBits = 2
  Username = {"root", "admin", "user", "guest"}
  BadName = ""
  Password <- MCPassword
  FirstPassword <- MCFirstPassword
  MaxUid = 3
CHECK_DEADLOCK FALSE
INVARIANTS
  AccountsDistinct
  OwnPasswordLogsIn
  SessionIsAccount
