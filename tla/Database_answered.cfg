\* Two keys; write(2) may take less than the record.
SPECIFICATION Spec
CONSTANTS
  k1 = k1
  k2 = k2
  empty = empty
  byte = byte
  NULL = NULL
  Key <- MCKey
  Value <- MCValue
  KeySize <- MCKeySize
  DataSize <- MCDataSize
  NUMBER_OF_FILES = 5
  FileCapacity = 7
  Cuts <- MCCuts
INVARIANT AnsweredWriteReadable
