\* One thread writing, moving, deleting and renaming two paths, one thread
\* reading them; every call may fail and the process may crash once.
CONSTANTS
  t1 = t1  t2 = t2  x = x  y = y  c1 = c1  c2 = c2
  Threads <- MCThreads
  Bases <- MCBases
  Contents <- MCContents
  InitialFiles <- MCInitialFiles
  OpsOf <- MCOpsOf
  DestOf <- MCDestOf
  DestPairs <- MCDestPairs
  Faults = {"open", "write", "rename", "remove"}
  MaxCrashes = 1
SPECIFICATION Spec
INVARIANT TypeOK
PROPERTY FileStoreRefined
PROPERTY MoveKeepsData
