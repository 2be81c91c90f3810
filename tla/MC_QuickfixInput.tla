--------------------------- MODULE MC_QuickfixInput ---------------------------
(* Two inputs whose config files hold the same bytes, so they share one     *)
(* handle, or different bytes (MCInitialFileDistinct); each engine runs one *)
(* session.                                                                 *)
EXTENDS QuickfixInput

CONSTANTS a1, a2, p1, p2, c1, c2, d1, d2, s1, s2

MCApps == {a1, a2}
MCPaths == {p1, p2}
MCContents == {c1, c2}
MCDigests == {d1, d2}
MCSha256 == (c1 :> d1) @@ (c2 :> d2)
MCAdapterPath == (a1 :> p1) @@ (a2 :> p2)
MCAdapterRole == (a1 :> "acceptor") @@ (a2 :> "acceptor")
MCInitialFile == (p1 :> c1) @@ (p2 :> c1)
MCSessions == {s1}
MCInitialFileDistinct == (p1 :> c1) @@ (p2 :> c2)
\* The pipeline calls Close after its last Read, never a Read after Close
ReadsBeforeClose == \A a \in MCApps : apc'[a] = "reading" => ~closing[a]
=============================================================================
