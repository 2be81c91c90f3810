------------------------------ MODULE FileStore ------------------------------
(***************************************************************************)
(* What the file processor promises anyone who looks at the file system:   *)
(* a path holds nothing or one whole body some write or move put there.    *)
(* write replaces a file in one step ("atomic write pattern"), delete      *)
(* removes it, rename moves it in one step, and move is a copy in one step *)
(* followed by the removal of the source ("either the operation completes  *)
(* fully or leaves the source intact").                                    *)
(***************************************************************************)
CONSTANTS Bases, Contents, Absent, InitialFiles

VARIABLE files

StoreTypeOK == files \in [Bases -> Contents \cup {Absent}]

StoreInit == files = InitialFiles

\* write, and the copy half of move: the path gets a whole body
Put(p, c) == files' = [files EXCEPT ![p] = c]

\* delete, and the second half of move
Remove(p) ==
  /\ files[p] # Absent
  /\ files' = [files EXCEPT ![p] = Absent]

\* rename to another path
Rename(s, d) ==
  /\ s # d
  /\ files[s] # Absent
  /\ files' = [files EXCEPT ![d] = files[s], ![s] = Absent]

StoreNext ==
  \E p, d \in Bases, c \in Contents : Put(p, c) \/ Remove(p) \/ Rename(p, d)

StoreSpec == StoreInit /\ [][StoreNext]_files

=============================================================================
