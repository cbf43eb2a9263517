SPECIFICATION FairSpec
CONSTANTS
  KBD_BUF_SIZE = 3
  Key <- MCKey
  MaxWire = 2
INVARIANTS
  ModifiersTrackKeys
PROPERTIES
  RingIsQueue
  KeysAreRead
