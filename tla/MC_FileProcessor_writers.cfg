\* Two pipeline threads writing one path at once: each opens path + ".tmp".
CONSTANTS
  t1 = t1  t2 = t2  x = x  y = y  c1 = c1  c2 = c2
  Threads <- MCThreads
  Bases <- MCOnePath
  Contents <- MCContents
  InitialFiles <- MCInitialX
  OpsOf <- MCWriters
  DestOf <- MCNoDest
  DestPairs = {}
  Faults = {}
  MaxCrashes = 0
SPECIFICATION Spec
INVARIANT AtomicVisible
