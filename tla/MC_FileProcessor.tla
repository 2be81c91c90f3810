-------------------------- MODULE MC_FileProcessor --------------------------
EXTENDS FileProcessor, TLC

CONSTANTS t1, t2, x, y, c1, c2

MCThreads == {t1, t2}
MCBases == {x, y}
MCContents == {c1, c2}
MCInitialFiles == (x :> c1) @@ (y :> Absent)

\* t1 mutates the files, t2 reads them
\* t2 also runs a rename processor configured without dest
MCOpsOf == (t1 :> {"write", "move", "delete", "rename"})
           @@ (t2 :> {"read", "stat", "rename"})
MCDestOf == (t1 :> {"move", "rename"}) @@ (t2 :> {})
MCNoDest == (t1 :> {}) @@ (t2 :> {})
MCMoverDest == (t1 :> {}) @@ (t2 :> {"move"})
\* move and rename between two distinct paths
MCDestPairs == {<<x, y>>, <<y, x>>}

\* two pipeline threads that both write one path
MCWriters == (t1 :> {"write"}) @@ (t2 :> {"write"})
MCOnePath == {x}
MCInitialX == x :> c1

\* one thread writes the path another thread moves
MCWriterMover == (t1 :> {"write"}) @@ (t2 :> {"move"})
MCForward == {<<x, y>>}
=============================================================================
