------------------------------- MODULE FixApp -------------------------------
(***************************************************************************)
(* The process-wide registry of FIX engines and the refcounted handle,     *)
(* src/internal/impl/quickfix/fixapp.go.                                   *)
(*                                                                         *)
(* fixappstore maps the SHA-256 of a config file's bytes to one *fixapp.   *)
(* Entries are never removed, so a handle is identified by its digest and  *)
(* every field of a handle is a function over Digests.  One mutex,         *)
(* fixappstorelock, guards the map and every handle's state and refcount.  *)
(*                                                                         *)
(* This module holds the state and the operations; a client module         *)
(* (FixAppHolders, QuickfixInput) EXTENDS it, adds the callers and decides *)
(* what a caller does with each outcome.                                   *)
(***************************************************************************)
EXTENDS Integers, FiniteSets

CONSTANTS
  Paths,        \* config file paths
  Contents,     \* the possible byte contents of a config file
  ValidContents,\* contents quickfix.ParseSettings accepts
  NoFile,       \* file[p] = NoFile: os.Open fails
  Digests,      \* SHA-256 values
  NoDigest,     \* no checksum computed yet
  Sha256,       \* Sha256[c]: digest of contents c
  Apps,         \* the quickfix.Application values engines call back
  NoApp,
  MaxEdits      \* bound on edits of config files by the operator

ASSUME
  /\ ValidContents \subseteq Contents
  /\ NoFile \notin Contents
  /\ Sha256 \in [Contents -> Digests]
  /\ NoDigest \notin Digests
  \* SHA-256 is treated as collision free on the contents of the model
  /\ \A c1, c2 \in Contents : Sha256[c1] = Sha256[c2] => c1 = c2
  /\ NoApp \notin Apps
  /\ MaxEdits \in Nat

\* fixAppType and fixappState values
Acceptor  == "acceptor"
Initiator == "initiator"
Started   == "started"
Stopped   == "stopped"
\* Neither f.acceptor nor f.initiator is set
NoEngine  == "none"

VARIABLES
  file,       \* file[p]: current bytes of config file p, or NoFile
  edits,      \* number of config edits made so far
  storeLock,  \* holder of fixappstorelock, or NoApp
  inStore,    \* inStore[k]: fixappstore has an entry for digest k
  appOf,      \* the Application the engine of handle k calls back
  engine,     \* f.acceptor / f.initiator: Acceptor, Initiator or NoEngine
  running,    \* the library engine of k has been started and not stopped
  state,      \* f.state
  refcount,   \* f.refcount
  settingsOf  \* contents GetSettings read when the engine of k was built

fixVars == <<file, edits, storeLock, inStore, appOf, engine, running, state,
             refcount, settingsOf>>

FixTypeOK ==
  /\ file \in [Paths -> Contents \cup {NoFile}]
  /\ edits \in 0..MaxEdits
  /\ storeLock \in Apps \cup {NoApp}
  /\ inStore \in [Digests -> BOOLEAN]
  /\ appOf \in [Digests -> Apps \cup {NoApp}]
  /\ engine \in [Digests -> {Acceptor, Initiator, NoEngine}]
  /\ running \in [Digests -> BOOLEAN]
  /\ state \in [Digests -> {Started, Stopped}]
  /\ refcount \in [Digests -> Int]
  /\ settingsOf \in [Digests -> Contents \cup {NoFile}]

FixInit(initialFile) ==
  /\ file = initialFile
  /\ edits = 0
  /\ storeLock = NoApp
  /\ inStore = [k \in Digests |-> FALSE]
  /\ appOf = [k \in Digests |-> NoApp]
  /\ engine = [k \in Digests |-> NoEngine]
  /\ running = [k \in Digests |-> FALSE]
  /\ state = [k \in Digests |-> Stopped]
  /\ refcount = [k \in Digests |-> 0]
  /\ settingsOf = [k \in Digests |-> NoFile]

LockFree == storeLock = NoApp

-----------------------------------------------------------------------------
(* createChecksum: open the file and hash all of its bytes.                *)
ChecksumOk(p) == file[p] # NoFile
Checksum(p) == Sha256[file[p]]

(* GetSettings: open and parse the file.                                   *)
SettingsOk(p) == file[p] \in ValidContents

(***************************************************************************)
(* GetOrCreateFixApp after createChecksum returned k: the locked part.     *)
(* A hit returns the stored handle whatever role, store or log type the    *)
(* caller asked for.  A miss re-reads the file with GetSettings, builds    *)
(* the factories and the engine, and inserts the handle only if all of     *)
(* that succeeded.                                                         *)
(***************************************************************************)
GetOrCreateHit(k) ==
  /\ LockFree
  /\ inStore[k]
  /\ UNCHANGED fixVars

\* GetSettings, createMessageStoreFactory, createLogFactory or
\* NewAcceptor/NewInitiator returned an error: nothing is inserted.
GetOrCreateFail(k) ==
  /\ LockFree
  /\ ~inStore[k]
  /\ UNCHANGED fixVars

\* The switch on appType leaves both engines nil for any other type.
EngineFor(role) == IF role \in {Acceptor, Initiator} THEN role ELSE NoEngine

GetOrCreateNew(k, p, role, app) ==
  /\ LockFree
  /\ ~inStore[k]
  /\ SettingsOk(p)
  /\ inStore' = [inStore EXCEPT ![k] = TRUE]
  /\ appOf' = [appOf EXCEPT ![k] = app]
  /\ engine' = [engine EXCEPT ![k] = EngineFor(role)]
  /\ state' = [state EXCEPT ![k] = Stopped]
  /\ refcount' = [refcount EXCEPT ![k] = 0]
  /\ running' = [running EXCEPT ![k] = FALSE]
  /\ settingsOf' = [settingsOf EXCEPT ![k] = file[p]]
  /\ UNCHANGED <<file, edits, storeLock>>

(***************************************************************************)
(* fixapp.Start.  Only a stopped handle calls the engine's Start; the      *)
(* state becomes started and refcount grows whether or not it succeeded.   *)
(* ok is the outcome of acceptor.Start / initiator.Start.                  *)
(***************************************************************************)
\* Mutant: a failed engine start returns before state and refcount change.
StartHandleEarlyReturn(k, ok) ==
  /\ LockFree
  /\ IF state[k] # Started /\ (engine[k] = NoEngine \/ ~ok)
       THEN UNCHANGED <<running, state, refcount>>
       ELSE /\ running' = [running EXCEPT ![k] = @ \/ state[k] # Started]
            /\ state' = [state EXCEPT ![k] = Started]
            /\ refcount' = [refcount EXCEPT ![k] = @ + 1]
  /\ UNCHANGED <<file, edits, storeLock, inStore, appOf, engine, settingsOf>>

StartHandle(k, ok) ==
  /\ LockFree
  /\ running' = [running EXCEPT ![k] =
                   @ \/ (state[k] # Started /\ engine[k] # NoEngine /\ ok)]
  /\ state' = [state EXCEPT ![k] = Started]
  /\ refcount' = [refcount EXCEPT ![k] = @ + 1]
  /\ UNCHANGED <<file, edits, storeLock, inStore, appOf, engine, settingsOf>>

\* The error Start returns
StartErr(k, ok) ==
  state[k] # Started /\ (engine[k] = NoEngine \/ ~ok)

(***************************************************************************)
(* fixapp.Stop.  A stopped handle, or one with refcount > 1, is only       *)
(* decremented.  Otherwise Stop calls the engine's Stop while holding      *)
(* fixappstorelock (StopBegin takes the lock, StopEnd is the return of the *)
(* library call) and then clears both engine pointers.  It neither resets  *)
(* state nor decrements refcount on this path.                             *)
(***************************************************************************)
\* Mutant: the last holder is taken to be the one that sees refcount 0.
StopIsLastOffByOne(k) == ~(state[k] = Stopped \/ refcount[k] > 0)

StopIsLast(k) == ~(state[k] = Stopped \/ refcount[k] > 1)

StopDecrement(k) ==
  /\ LockFree
  /\ ~StopIsLast(k)
  /\ refcount' = [refcount EXCEPT ![k] = @ - 1]
  /\ UNCHANGED <<file, edits, storeLock, inStore, appOf, engine, running,
                 state, settingsOf>>

StopBegin(k, caller) ==
  /\ LockFree
  /\ StopIsLast(k)
  /\ storeLock' = caller
  /\ UNCHANGED <<file, edits, inStore, appOf, engine, running, state,
                 refcount, settingsOf>>

\* Mutant: fixappstorelock is not released when the engine has stopped.
StopEndKeepsLock(k, caller) ==
  /\ storeLock = caller
  /\ running' = [running EXCEPT ![k] = FALSE]
  /\ engine' = [engine EXCEPT ![k] = NoEngine]
  /\ UNCHANGED <<file, edits, storeLock, inStore, appOf, state, refcount,
                 settingsOf>>

StopEnd(k, caller) ==
  /\ storeLock = caller
  /\ running' = [running EXCEPT ![k] = FALSE]
  /\ engine' = [engine EXCEPT ![k] = NoEngine]
  /\ storeLock' = NoApp
  /\ UNCHANGED <<file, edits, inStore, appOf, state, refcount, settingsOf>>

-----------------------------------------------------------------------------
(* The operator edits or removes a config file (outside the program).      *)
EditConfig ==
  /\ edits < MaxEdits
  /\ \E p \in Paths, c \in Contents \cup {NoFile} :
       /\ c # file[p]
       /\ file' = [file EXCEPT ![p] = c]
  /\ edits' = edits + 1
  /\ UNCHANGED <<storeLock, inStore, appOf, engine, running, state, refcount,
                 settingsOf>>

=============================================================================
