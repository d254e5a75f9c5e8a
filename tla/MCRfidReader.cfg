SPECIFICATION ReaderSpec
CONSTANTS
  a = a
  b = b
  c = c
  Tags = {a, b, c}
  Garbled = Garbled
  Configurations <- MCConfigurations
  RFID_MAX_NUMBER = b
  NoConfiguration = NoConfiguration
  RFID_LENGTH = 2
  RFID_SKIP_LEFT = 1
  RFID_SKIP_RIGHT = 1
  MaxLost = 6
CHECK_DEADLOCK FALSE
INVARIANTS
  ReaderTypeOK
  NoPhantomTag
  Resynchronises
  OwnerKnowsPosition
