\* A count that happens to be zero at first.
SPECIFICATION FairSpec
CONSTANTS
  fd1 = fd1
  fd2 = fd2
  FileDescriptor <- MCFileDescriptor
  MaxEvents = 1
  CountModulus = 4
  UninitializedCounts = {0}
INVARIANT CountsRegistered
