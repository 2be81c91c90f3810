\* A handle re-acquired after the last holder stopped it: its engine must run.
CONSTANTS
  h1 = h1  h2 = h2  p1 = p1  p2 = p2
  c1 = c1  c2 = c2  bad = bad
  d1 = d1  d2 = d2  d3 = d3
  NoFile = NoFile
  NoApp = NoApp
  NoDigest = NoDigest
  Apps <- MCApps
  Paths <- MCPaths
  Contents <- MCContents
  ValidContents <- MCValidContents
  Digests <- MCDigests
  Sha256 <- MCSha256
  HolderPath <- MCHolderPath
  HolderRole <- MCHolderRole
  InitialFile <- MCInitialFile
  StartResults = {TRUE}
  MaxEdits = 2
SPECIFICATION Spec
INVARIANT HeldEngineRuns
