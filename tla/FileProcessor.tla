---------------------------- MODULE FileProcessor ----------------------------
(***************************************************************************)
(* The file processor, src/internal/impl/io/processor_file.go.             *)
(*                                                                         *)
(* A pipeline runs Process on several threads at once; each thread t runs *)
(* processors configured with the operations OpsOf[t].  The file system is *)
(* a directory dir from names to inodes and the data of each inode; an     *)
(* open file is an inode held by a thread (fd), so a write through it      *)
(* lands wherever rename has since moved that inode.  A name is a base     *)
(* path (already filepath.Clean) or that path + ".tmp".                    *)
(*                                                                         *)
(* A message body is a model value of Contents; Empty is a file truncated  *)
(* by O_TRUNC and not yet written, Torn the overlap of two writes of       *)
(* different bodies at offset 0.  The process may crash between any two    *)
(* system calls: threads and open files are lost, the directory and the    *)
(* data stay.  Each call in Faults may fail as a real file system can.     *)
(***************************************************************************)
EXTENDS Naturals, FiniteSets

CONSTANTS
  Threads,      \* pipeline threads calling Process concurrently
  OpsOf,        \* OpsOf[t]: operations of the processors thread t runs
  DestOf,       \* DestOf[t]: those whose processor config sets dest
  Bases,        \* paths a message's path interpolates to
  DestPairs,    \* <<path, dest>> pairs a message interpolates to
  Contents,     \* message bodies, non-empty
  InitialFiles, \* InitialFiles[b]: body at b when the pipeline starts
  Faults,       \* calls that may fail: "open", "write", "rename", "remove"
  MaxCrashes

Ops == {"read", "write", "delete", "move", "rename", "stat"}
Absent == "absent"
Empty == "empty"
Torn == "torn"
Data == Contents \cup {Empty, Torn}
None == 0

ASSUME
  /\ OpsOf \in [Threads -> SUBSET Ops]
  /\ DestPairs \subseteq Bases \X Bases
  /\ InitialFiles \in [Bases -> Contents \cup {Absent}]
  /\ Faults \subseteq {"open", "write", "rename", "remove"}
  /\ MaxCrashes \in Nat
  /\ DestOf \in [Threads -> SUBSET Ops]
  /\ \A t \in Threads : DestOf[t] \subseteq OpsOf[t]

(* fileProcessorConfigFromParsed: a missing dest is an error for move only; *)
(* for every other operation conf.Dest is left nil.                        *)
ConfigFromParsed(op, hasDest) == op = "move" => hasDest

HasDest(t, op) == op \in DestOf[t]           \* p.conf.Dest != nil

(* fileProcessorFromParsed: the pipeline runs only if every processor was  *)
(* constructed (a read processor's scanner is required by the lint rule).  *)
Constructed ==
  \A t \in Threads : \A op \in OpsOf[t] : ConfigFromParsed(op, HasDest(t, op))

ASSUME Constructed

Names == Bases \X BOOLEAN
Path(b) == <<b, FALSE>>
TempOf(b) == <<b, TRUE>>            \* tempFile := path + ".tmp"
\* every name and every open file may hold a distinct inode
Inodes == 1..(Cardinality(Names) + Cardinality(Threads))
NoRes == <<"none", "none">>
NoArg == [op |-> "none", src |-> Absent, dst |-> Absent, body |-> Empty]

VARIABLES
  dir,      \* dir[n]: inode named n, or None
  data,     \* data[i]: bytes of inode i
  fd,       \* fd[t]: inode thread t has open for writing, or None
  pc,       \* pc[t]: "idle" or the next call of the operation in progress
  arg,      \* arg[t]: operation, path, dest and bytes of that operation
  res,      \* res[t]: the operation the last Process on t ran and its result
  seen,     \* seen[t]: bytes the last read or stat on t reported
  crashes

vars == <<dir, data, fd, pc, arg, res, seen, crashes>>

TypeOK ==
  /\ dir \in [Names -> Inodes \cup {None}]
  /\ data \in [Inodes -> Data]
  /\ fd \in [Threads -> Inodes \cup {None}]
  /\ pc \in [Threads -> {"idle", "open", "data", "rename", "remove"}]
  /\ arg \in [Threads -> [op : Ops \cup {"none"}, src : Bases \cup {Absent},
                          dst : Bases \cup {Absent}, body : Data]]
  /\ res \in [Threads -> {NoRes} \cup (Ops \X {"ok", "err"})]
  /\ seen \in [Threads -> Data \cup {Absent}]
  /\ crashes \in 0..MaxCrashes

\* A distinct inode for every base that exists at start
BaseIno == CHOOSE f \in [Bases -> 1..Cardinality(Bases)] :
             \A a, b \in Bases : f[a] = f[b] => a = b

Init ==
  /\ dir = [n \in Names |-> IF ~n[2] /\ InitialFiles[n[1]] # Absent
                             THEN BaseIno[n[1]] ELSE None]
  /\ data = [i \in Inodes |->
               IF \E b \in Bases : BaseIno[b] = i /\ InitialFiles[b] # Absent
                 THEN InitialFiles[CHOOSE b \in Bases : BaseIno[b] = i]
                 ELSE Empty]
  /\ fd = [t \in Threads |-> None]
  /\ pc = [t \in Threads |-> "idle"]
  /\ arg = [t \in Threads |-> NoArg]
  /\ res = [t \in Threads |-> NoRes]
  /\ seen = [t \in Threads |-> Absent]
  /\ crashes = 0

-----------------------------------------------------------------------------
\* Inodes no name and no open file refers to are freed; their data is reset
\* so that a state does not remember unreachable bytes.
Referenced(d, f) == {d[n] : n \in Names} \cup {f[t] : t \in Threads}
Free == CHOOSE i \in Inodes : i \notin Referenced(dir, fd)
Collect(newData) ==
  [i \in Inodes |-> IF i \in Referenced(dir', fd') THEN newData[i] ELSE Empty]

\* Process of operation op returns r; the deferred and explicit file.Close
\* calls release fd.
Return(t, op, r) ==
  /\ pc' = [pc EXCEPT ![t] = "idle"]
  /\ res' = [res EXCEPT ![t] = <<op, r>>]
  /\ arg' = [arg EXCEPT ![t] = NoArg]
  /\ fd' = [fd EXCEPT ![t] = None]

\* FS().Remove(n): an absent name is an error that callers ignore or report
RemoveName(n) == dir' = [dir EXCEPT ![n] = None]

\* FS().OpenFile(n, O_CREATE|O_WRONLY|O_TRUNC): create n or truncate its inode
OpenTruncate(t, n) ==
  LET i == IF dir[n] # None THEN dir[n] ELSE Free
  IN /\ dir' = [dir EXCEPT ![n] = i]
     /\ fd' = [fd EXCEPT ![t] = i]
     /\ data' = [data EXCEPT ![i] = Empty]

\* Bytes an inode holds after writer.Write(body) at offset 0: another
\* writer's bytes already there are overwritten or left partly in place.
Overwrite(old, body) == IF old \in {Empty, body} THEN {body} ELSE {body, Torn}

-----------------------------------------------------------------------------
\* Mutant: the body is written to path itself, not to a temp file.
WriteOpenInPlace(t, p, c) ==
  /\ pc[t] = "idle"
  /\ "write" \in OpsOf[t]
  /\ OpenTruncate(t, Path(p))
  /\ pc' = [pc EXCEPT ![t] = "data"]
  /\ arg' = [arg EXCEPT ![t] = [op |-> "write", src |-> p, dst |-> p, body |-> c]]
  /\ UNCHANGED <<res, seen, crashes>>

(* processWrite: MkdirAll and OpenFile of path + ".tmp".                   *)
WriteOpen(t, p, c) ==
  /\ pc[t] = "idle"
  /\ "write" \in OpsOf[t]
  /\ \/ /\ OpenTruncate(t, TempOf(p))
        /\ pc' = [pc EXCEPT ![t] = "data"]
        /\ arg' = [arg EXCEPT ![t] = [op |-> "write", src |-> p, dst |-> p,
                                       body |-> c]]
        /\ UNCHANGED res
     \/ /\ "open" \in Faults
        /\ Return(t, "write", "err")
        /\ UNCHANGED <<dir, data>>
  /\ UNCHANGED <<seen, crashes>>

(* writer.Write and file.Close of the temp file, in processWrite and in    *)
(* atomicCopyAndDelete.  On failure the temp file is removed by name.      *)
WriteTemp(t) ==
  /\ pc[t] = "data"
  /\ \/ /\ fd' = [fd EXCEPT ![t] = None]
        /\ pc' = [pc EXCEPT ![t] = "rename"]
        /\ UNCHANGED <<dir, arg, res>>
        /\ \E v \in Overwrite(data[fd[t]], arg[t].body) :
             data' = Collect([data EXCEPT ![fd[t]] = v])
     \/ /\ "write" \in Faults
        /\ RemoveName(TempOf(arg[t].dst))
        /\ Return(t, arg[t].op, "err")
        \* a failed Write or Close may have written none, part or all
        /\ \E v \in {data[fd[t]], Torn} \cup Overwrite(data[fd[t]], arg[t].body) :
             data' = Collect([data EXCEPT ![fd[t]] = v])
  /\ UNCHANGED <<seen, crashes>>

(* os.Rename(tempFile, path), in processWrite and atomicCopyAndDelete.     *)
RenameTemp(t) ==
  LET tmp == TempOf(arg[t].dst)
      dst == Path(arg[t].dst)
  IN /\ pc[t] = "rename"
     /\ \/ /\ dir[tmp] # None
           /\ dir' = [dir EXCEPT ![dst] = dir[tmp], ![tmp] = None]
           /\ IF arg[t].op = "move"
                THEN /\ pc' = [pc EXCEPT ![t] = "remove"]
                     /\ UNCHANGED <<arg, res, fd>>
                ELSE Return(t, arg[t].op, "ok")
        \/ /\ dir[tmp] = None \/ "rename" \in Faults
           /\ RemoveName(tmp)
           /\ Return(t, arg[t].op, "err")
     /\ data' = Collect(data)
     /\ UNCHANGED <<seen, crashes>>

\* Mutant: the error of FS().Open(srcPath) is not checked.
MoveReadNoCheck(t, s, d) ==
  /\ pc[t] = "idle"
  /\ "move" \in OpsOf[t]
  /\ <<s, d>> \in DestPairs
  /\ pc' = [pc EXCEPT ![t] = "open"]
  /\ arg' = [arg EXCEPT ![t] = [op |-> "move", src |-> s, dst |-> d,
                                 body |-> IF dir[Path(s)] = None THEN Absent
                                          ELSE data[dir[Path(s)]]]]
  /\ UNCHANGED <<res, fd, dir, data, seen, crashes>>

(* processMove, then atomicCopyAndDelete up to io.ReadAll of the source.   *)
MoveRead(t, s, d) ==
  /\ pc[t] = "idle"
  /\ "move" \in OpsOf[t]
  /\ <<s, d>> \in DestPairs
  /\ \/ /\ dir[Path(s)] # None
        /\ pc' = [pc EXCEPT ![t] = "open"]
        /\ arg' = [arg EXCEPT ![t] = [op |-> "move", src |-> s, dst |-> d,
                                       body |-> data[dir[Path(s)]]]]
        /\ UNCHANGED <<res, fd>>
     \/ /\ dir[Path(s)] = None \/ "open" \in Faults
        /\ Return(t, "move", "err")
  /\ UNCHANGED <<dir, data, seen, crashes>>

(* atomicCopyAndDelete: OpenFile of destPath + ".tmp".                     *)
MoveOpen(t) ==
  /\ pc[t] = "open"
  /\ \/ /\ OpenTruncate(t, TempOf(arg[t].dst))
        /\ pc' = [pc EXCEPT ![t] = "data"]
        /\ UNCHANGED <<arg, res>>
     \/ /\ "open" \in Faults
        /\ Return(t, "move", "err")
        /\ UNCHANGED <<dir, data>>
  /\ UNCHANGED <<seen, crashes>>

\* Mutant: the path removed after the rename is the destination.
MoveRemoveDest(t) ==
  /\ pc[t] = "remove"
  /\ RemoveName(Path(arg[t].dst))
  /\ Return(t, "move", "ok")
  /\ data' = Collect(data)
  /\ UNCHANGED <<seen, crashes>>

(* atomicCopyAndDelete: Remove(srcPath) after the rename.  A failure is    *)
(* only logged; the move reports success either way.                       *)
MoveRemove(t) ==
  /\ pc[t] = "remove"
  /\ \/ RemoveName(Path(arg[t].src))
     \/ /\ "remove" \in Faults
        /\ UNCHANGED dir
  /\ Return(t, "move", "ok")
  /\ data' = Collect(data)
  /\ UNCHANGED <<seen, crashes>>

(* processDelete                                                           *)
Delete(t, p) ==
  /\ pc[t] = "idle"
  /\ "delete" \in OpsOf[t]
  /\ \/ /\ dir[Path(p)] # None
        /\ RemoveName(Path(p))
        /\ Return(t, "delete", "ok")
     \/ /\ dir[Path(p)] = None \/ "remove" \in Faults
        /\ Return(t, "delete", "err")
        /\ UNCHANGED dir
  /\ data' = Collect(data)
  /\ UNCHANGED <<seen, crashes>>

(* processRename of a processor built without dest: every message fails. *)
RenameNoDest(t) ==
  /\ pc[t] = "idle"
  /\ "rename" \in OpsOf[t]
  /\ ~HasDest(t, "rename")
  /\ Return(t, "rename", "err")
  /\ UNCHANGED <<dir, data, seen, crashes>>

(* processRename: one os.Rename; renaming a path onto itself succeeds.     *)
Rename(t, s, d) ==
  /\ pc[t] = "idle"
  /\ "rename" \in OpsOf[t]
  /\ HasDest(t, "rename")
  /\ <<s, d>> \in DestPairs
  /\ \/ /\ dir[Path(s)] # None
        /\ dir' = [dir EXCEPT ![Path(s)] = None, ![Path(d)] = dir[Path(s)]]
        /\ Return(t, "rename", "ok")
     \/ /\ dir[Path(s)] = None \/ "rename" \in Faults
        /\ Return(t, "rename", "err")
        /\ UNCHANGED dir
  /\ data' = Collect(data)
  /\ UNCHANGED <<seen, crashes>>

(* processRead (open, stat, scan to EOF) and processStat: the bytes, or    *)
(* the size and times of the bytes, the path holds are put in the message. *)
Observe(t, p, op) ==
  /\ pc[t] = "idle"
  /\ op \in OpsOf[t] \cap {"read", "stat"}
  /\ \/ /\ dir[Path(p)] # None
        /\ seen' = [seen EXCEPT ![t] = data[dir[Path(p)]]]
        /\ Return(t, op, "ok")
     \/ /\ dir[Path(p)] = None \/ (op = "read" /\ "open" \in Faults)
        /\ Return(t, op, "err")
        /\ UNCHANGED seen
  /\ UNCHANGED <<dir, data, crashes>>

ReadFile(t, p) == Observe(t, p, "read")
StatFile(t, p) == Observe(t, p, "stat")

(* The process dies between two calls and the pipeline is started again:  *)
(* threads and open files are gone, the files and temp files remain.       *)
Crash ==
  /\ crashes < MaxCrashes
  /\ crashes' = crashes + 1
  /\ pc' = [t \in Threads |-> "idle"]
  /\ fd' = [t \in Threads |-> None]
  /\ arg' = [t \in Threads |-> NoArg]
  /\ res' = [t \in Threads |-> NoRes]
  /\ seen' = [t \in Threads |-> Absent]
  /\ UNCHANGED dir
  /\ data' = Collect(data)

\* Process dispatches on the configured operation.
Process(t) ==
  \/ \E p \in Bases, c \in Contents : WriteOpen(t, p, c)
  \/ \E pd \in DestPairs : MoveRead(t, pd[1], pd[2]) \/ Rename(t, pd[1], pd[2])
  \/ \E p \in Bases : Delete(t, p) \/ ReadFile(t, p) \/ StatFile(t, p)
  \/ WriteTemp(t) \/ RenameTemp(t) \/ MoveOpen(t) \/ MoveRemove(t)
  \/ RenameNoDest(t)

Next == (\E t \in Threads : Process(t)) \/ Crash

Spec == Init /\ [][Next]_vars

-----------------------------------------------------------------------------
\* What a path shows to a reader: the bytes of the inode it names
Visible == [b \in Bases |-> IF dir[Path(b)] = None THEN Absent
                            ELSE data[dir[Path(b)]]]

Store == INSTANCE FileStore WITH files <- Visible

(* Every change a reader can see at a path is a whole write, a removal or  *)
(* a rename: the temp-file-and-rename pattern of processWrite and          *)
(* atomicCopyAndDelete never exposes a truncated or half-written file, not *)
(* across failures of any call nor a crash between any two calls.         *)
FileStoreRefined == Store!StoreSpec

(* A path never shows a truncated or torn file (processWrite's "atomic     *)
(* write pattern" comment).                                                *)
AtomicVisible == \A b \in Bases : Visible[b] \in Contents \cup {Absent}

(* When a move returns success the destination holds the bytes read from   *)
(* the source ("only delete source after destination is successfully      *)
(* created ... better than losing data").                                  *)
MoveKeepsData ==
  [][\A t \in Threads :
       (pc[t] = "remove" /\ pc'[t] = "idle")
         => Visible'[arg[t].dst] = arg[t].body]_vars

(* A move never destroys bytes: when atomicCopyAndDelete removes the      *)
(* source, whatever the source held at that moment is still at some path.  *)
(* The code reads the source once and removes it by name after the rename, *)
(* so this is about what other threads may do to the source in between.   *)
MoveLosesNoData ==
  [][\A t \in Threads :
       (pc[t] = "remove" /\ pc'[t] = "idle" /\ Visible[arg[t].src] # Absent)
         => Visible[arg[t].src] \in {Visible'[b] : b \in Bases}]_vars

=============================================================================
