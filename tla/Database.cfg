\* Two keys in one file; write(2) takes all of a record, a part of it or
\* nothing, on a device that holds three whole records in the file.
SPECIFICATION Spec
CONSTANTS
  k1 = k1
  k2 = k2
  empty = empty
  byte = byte
  NULL = NULL
  Key <- MCKey
  Value <- MCValue
  KeySize <- MCKeySize
  DataSize <- MCDataSize
  NUMBER_OF_FILES = 5
  FileCapacity = 12
  Cuts <- MCCuts
INVARIANTS TypeOK WrittenBytesIntact EntriesDisjoint
PROPERTIES ImplementsKVStore ReadsAreStable
