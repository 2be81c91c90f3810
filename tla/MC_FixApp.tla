------------------------------ MODULE MC_FixApp ------------------------------
(* Two holders on two paths that start with the same bytes, so they share  *)
(* one handle; up to two edits of a file with three contents, one of which *)
(* quickfix cannot parse.                                                  *)
EXTENDS FixAppHolders, TLC

CONSTANTS h1, h2, p1, p2, c1, c2, bad, d1, d2, d3

MCApps == {h1, h2}
MCPaths == {p1, p2}
MCContents == {c1, c2, bad}
MCValidContents == {c1, c2}
MCDigests == {d1, d2, d3}
MCSha256 == (c1 :> d1) @@ (c2 :> d2) @@ (bad :> d3)
MCHolderPath == (h1 :> p1) @@ (h2 :> p2)
\* h2 asks for an application_type the switch does not know
MCHolderRole == (h1 :> "acceptor") @@ (h2 :> "acceptr")
\* both holders ask for a role the switch knows
MCValidRoles == (h1 :> "acceptor") @@ (h2 :> "initiator")
MCInitialFile == (p1 :> c1) @@ (p2 :> c1)
=============================================================================
