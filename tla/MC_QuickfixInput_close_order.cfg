\* Close closes eventChan while a callback is blocked sending on it.
\* A Go panic ends the process, so a state with no successor is expected.
CONSTANTS
  a1 = a1  a2 = a2  p1 = p1  p2 = p2  c1 = c1  c2 = c2
  d1 = d1  d2 = d2  s1 = s1  s2 = s2
  NoFile = NoFile
  NoApp = NoApp
  NoDigest = NoDigest
  Apps <- MCApps
  Paths <- MCPaths
  Contents <- MCContents
  ValidContents <- MCContents
  Digests <- MCDigests
  Sha256 <- MCSha256
  AdapterPath <- MCAdapterPath
  AdapterRole <- MCAdapterRole
  InitialFile <- MCInitialFile
  Sessions <- MCSessions
  DictSessions = {}
  EventKinds = {"logon", "from_app"}
  StartResults = {TRUE}
  MaxEvents = 2
  MaxEdits = 0
  NilRenderOk = TRUE
SPECIFICATION Spec
CHECK_DEADLOCK FALSE
INVARIANT NoSendOnClosedChannel
