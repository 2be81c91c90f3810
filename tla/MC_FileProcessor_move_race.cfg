\* One thread writes x while another moves x to y: the move removes the
\* source by name after copying the bytes it read before the write.
CONSTANTS
  t1 = t1  t2 = t2  x = x  y = y  c1 = c1  c2 = c2
  Threads <- MCThreads
  Bases <- MCBases
  Contents <- MCContents
  InitialFiles <- MCInitialFiles
  OpsOf <- MCWriterMover
  DestOf <- MCMoverDest
  DestPairs <- MCForward
  Faults = {}
  MaxCrashes = 0
SPECIFICATION Spec
PROPERTY MoveLosesNoData
