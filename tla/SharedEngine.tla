----------------------------- MODULE SharedEngine -----------------------------
(***************************************************************************)
(* What a shared fixapp handle promises its holders: one library engine    *)
(* per handle, shared by every holder that started it.  The first Start    *)
(* of a handle may start the engine or fail to; a later Start joins        *)
(* whatever the first one left.  The engine keeps running while any        *)
(* holder remains, and the holder that leaves the handle unheld stops it.  *)
(* A handle whose first Start is behind it never starts an engine again    *)
(* (README, F1: the spec asks for a restart, the code does not do one).    *)
(***************************************************************************)
CONSTANTS Holders, Handles

VARIABLES
  users,  \* users[k]: the holders that started handle k and not yet left
  on,     \* on[k]: the engine of handle k runs
  used    \* used[k]: handle k has had its first Start

engineVars == <<users, on, used>>

EngineTypeOK ==
  /\ users \in [Handles -> SUBSET Holders]
  /\ on \in [Handles -> BOOLEAN]
  /\ used \in [Handles -> BOOLEAN]

EngineInit ==
  /\ users = [k \in Handles |-> {}]
  /\ on = [k \in Handles |-> FALSE]
  /\ used = [k \in Handles |-> FALSE]

\* A holder uses one handle at a time.
Free(h) == \A k \in Handles : h \notin users[k]

\* Start: the first one decides whether the engine runs.
Join(h, k) ==
  /\ Free(h)
  /\ users' = [users EXCEPT ![k] = @ \cup {h}]
  /\ \E started \in BOOLEAN :
       on' = [on EXCEPT ![k] = IF used[k] THEN @ ELSE started]
  /\ used' = [used EXCEPT ![k] = TRUE]

\* Stop: the engine stops when its last holder leaves, and only then.
Leave(h, k) ==
  /\ h \in users[k]
  /\ users' = [users EXCEPT ![k] = @ \ {h}]
  /\ on' = [on EXCEPT ![k] = @ /\ users'[k] # {}]
  /\ UNCHANGED used

EngineNext == \E h \in Holders, k \in Handles : Join(h, k) \/ Leave(h, k)

EngineSpec == EngineInit /\ [][EngineNext]_engineVars

=============================================================================
