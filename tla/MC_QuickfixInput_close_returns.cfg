\* Two inputs on different configs, Close as the code orders it, engine
\* starts that may fail; the steps of a Close in progress are weakly fair.
\* A Go panic ends the process, so a state with no successor is expected.
CONSTANTS
  a1 = a1  a2 = a2  p1 = p1  p2 = p2  c1 = c1  c2 = c2
  d1 = d1  d2 = d2  s1 = s1  s2 = s2
  NoFile = NoFile
  NoApp = NoApp
  NoDigest = NoDigest
  Apps <- MCApps
  Paths <- MCPaths
  Contents <- MCContents
  ValidContents <- MCContents
  Digests <- MCDigests
  Sha256 <- MCSha256
  AdapterPath <- MCAdapterPath
  AdapterRole <- MCAdapterRole
  InitialFile <- MCInitialFileDistinct
  Sessions <- MCSessions
  DictSessions = {}
  EventKinds = {"logon", "from_app"}
  StartResults = {TRUE, FALSE}
  MaxEvents = 3
  MaxEdits = 0
  NilRenderOk = TRUE
SPECIFICATION FairSpec
PROPERTY CloseReturns
CHECK_DEADLOCK FALSE
