---------------------------- MODULE FixAppHolders ----------------------------
(***************************************************************************)
(* Clients of the registry that follow the protocol the specification     *)
(* gives a holder (spec section 4.2 and 8): obtain the handle of a config  *)
(* with GetOrCreateFixApp, Start it, later Stop that same handle, and      *)
(* possibly acquire it again (a pipeline restarted in the same process).   *)
(* Unlike QuickfixInput, a holder keeps the handle it obtained.            *)
(***************************************************************************)
EXTENDS FixApp

CONSTANTS
  HolderPath,   \* HolderPath[h]: config file holder h was configured with
  HolderRole,   \* HolderRole[h]: the application_type string of h
  StartResults, \* outcomes acceptor.Start / initiator.Start may have
  InitialFile   \* contents of every config file at process start

ASSUME
  /\ HolderPath \in [Apps -> Paths]
  /\ StartResults \subseteq BOOLEAN /\ StartResults # {}
  /\ InitialFile \in [Paths -> Contents]

VARIABLES
  hpc,   \* hpc[h]: where holder h is in its acquire / release cycle
  hchk,  \* hchk[h]: the checksum createChecksum returned to h
  hold,  \* hold[h]: the handle h obtained
  hok    \* hok[h]: the last call of h returned no error

holderVars == <<hpc, hchk, hold, hok>>
vars == <<fixVars, holderVars>>

TypeOK ==
  /\ FixTypeOK
  /\ refcount \in [Digests -> Nat]
  /\ hpc \in [Apps -> {"idle", "locking", "got", "holding", "stopping"}]
  /\ hchk \in [Apps -> Digests \cup {NoDigest}]
  /\ hold \in [Apps -> Digests \cup {NoDigest}]
  /\ hok \in [Apps -> BOOLEAN]

Init ==
  /\ FixInit(InitialFile)
  /\ hpc = [h \in Apps |-> "idle"]
  /\ hchk = [h \in Apps |-> NoDigest]
  /\ hold = [h \in Apps |-> NoDigest]
  /\ hok = [h \in Apps |-> TRUE]

-----------------------------------------------------------------------------
\* GetOrCreateFixApp, first part: createChecksum, taken without the lock.
Acquire(h) ==
  /\ hpc[h] = "idle"
  /\ IF ChecksumOk(HolderPath[h])
       THEN /\ hpc' = [hpc EXCEPT ![h] = "locking"]
            /\ hchk' = [hchk EXCEPT ![h] = Checksum(HolderPath[h])]
            /\ UNCHANGED hok
       ELSE /\ hok' = [hok EXCEPT ![h] = FALSE]
            /\ UNCHANGED <<hpc, hchk>>
  /\ UNCHANGED <<fixVars, hold>>

\* GetOrCreateFixApp, locked part.
Lookup(h) ==
  /\ hpc[h] = "locking"
  /\ \/ /\ \/ GetOrCreateHit(hchk[h])
             \/ GetOrCreateNew(hchk[h], HolderPath[h], HolderRole[h], h)
        /\ hpc' = [hpc EXCEPT ![h] = "got"]
        /\ hold' = [hold EXCEPT ![h] = hchk[h]]
        /\ hok' = [hok EXCEPT ![h] = TRUE]
     \/ /\ GetOrCreateFail(hchk[h])
        /\ hpc' = [hpc EXCEPT ![h] = "idle"]
        /\ hok' = [hok EXCEPT ![h] = FALSE]
        /\ UNCHANGED hold
  /\ UNCHANGED hchk

Start(h) ==
  /\ hpc[h] = "got"
  /\ \E ok \in StartResults :
       /\ StartHandle(hold[h], ok)
       /\ hok' = [hok EXCEPT ![h] = ~StartErr(hold[h], ok)]
  /\ hpc' = [hpc EXCEPT ![h] = "holding"]
  /\ UNCHANGED <<hchk, hold>>

Release(h) ==
  /\ hpc[h] = "holding"
  /\ \/ /\ StopDecrement(hold[h])
        /\ hpc' = [hpc EXCEPT ![h] = "idle"]
     \/ /\ StopBegin(hold[h], h)
        /\ hpc' = [hpc EXCEPT ![h] = "stopping"]
  /\ UNCHANGED <<hchk, hold, hok>>

Released(h) ==
  /\ hpc[h] = "stopping"
  /\ StopEnd(hold[h], h)
  /\ hpc' = [hpc EXCEPT ![h] = "idle"]
  /\ UNCHANGED <<hchk, hold, hok>>

Environment ==
  /\ EditConfig
  /\ UNCHANGED holderVars

Next ==
  \/ \E h \in Apps :
       Acquire(h) \/ Lookup(h) \/ Start(h) \/ Release(h) \/ Released(h)
  \/ Environment

Spec == Init /\ [][Next]_vars

-----------------------------------------------------------------------------
Holding(k) == {h \in Apps : hpc[h] \in {"holding", "stopping"} /\ hold[h] = k}

(* The handle keeps the promise of SharedEngine: the engine's running    *)
(* state changes only at a holder's first Start of the handle and at the  *)
(* Stop of the holder that leaves it unheld, however Starts, failed        *)
(* Starts and Stops of several holders interleave with edits; the engine   *)
(* never runs with no holder and is never stopped under another holder     *)
(* (refcounting in fixapp.Start and fixapp.Stop).                          *)
Engine == INSTANCE SharedEngine WITH
            Holders <- Apps, Handles <- Digests,
            users <- [k \in Digests |-> Holding(k)],
            on <- running,
            used <- [k \in Digests |-> state[k] = Started]

SharedEngineRefined == Engine!EngineSpec

(* A holder whose Start returned no error holds a running engine: a        *)
(* pipeline that acquires a config again after every holder released it    *)
(* gets a working engine (spec section 3: when refcount returns to 0 the   *)
(* state returns to Stopped).                                              *)
HeldEngineRuns ==
  \A h \in Apps :
    (/\ hpc[h] = "holding" /\ hok[h]
     /\ EngineFor(HolderRole[appOf[hold[h]]]) # NoEngine)
      => running[hold[h]]

(* No two handles in the registry hold an engine built from the same      *)
(* config: two consumers of byte-identical configuration share one         *)
(* connection (spec section 3), even while the file is being edited.       *)
OneEnginePerConfig ==
  \A k1, k2 \in Digests :
    (/\ k1 # k2
     /\ engine[k1] # NoEngine /\ engine[k2] # NoEngine)
      => settingsOf[k1] # settingsOf[k2]

=============================================================================
