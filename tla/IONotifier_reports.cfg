\* Two descriptors, batches of one event.
SPECIFICATION FairSpec
CONSTANTS
  fd1 = fd1
  fd2 = fd2
  FileDescriptor <- MCFileDescriptor
  MaxEvents = 1
  CountModulus = 4
  UninitializedCounts <- MCUninitializedCounts
INVARIANT TypeOK
PROPERTY DataIsReported
