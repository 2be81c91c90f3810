# TLA+ models of bento's quickfix input and file processor

This directory holds TLA+ specifications of the concurrent parts of the
repository under `src/`, the TLC configurations that check them, and
`PROJECT.json`, which records the components, the runs, the mutants, the
mapping from each definition to the Go lines it models, the findings and the
hazards.

Run a check with `tlc -workers 2 -config <cfg> <MC module>` in this directory.

## 1. The system

| Part | Source | What it does |
|---|---|---|
| ChecksumRegistry | `quickfix/fixapp.go` 17-20, 75-124, 165-199 | `fixappstore` maps the SHA-256 digest of a config file's bytes to one `*fixapp`. `GetOrCreateFixApp` hashes the file outside the lock, then under `fixappstorelock` returns a hit, or re-reads the file (`GetSettings`), builds the store and log factories and the engine, and inserts the handle. Entries are never removed. |
| EngineHandle | `fixapp.go` 43-56, 126-163 | `Start` and `Stop` of a refcounted handle. Both take the same global lock. `Start` starts the engine only from `stopped`, then sets `started` and increments `refcount`. `Stop` only decrements unless it is the last holder; the last holder stops the engine and clears both engine pointers. |
| EventBridge | `quickfix/input.go` 33-61, 182-249 | The seven `quickfix.Application` callbacks. Each builds a `quickfixEvent`, deep-copying the message, and sends it on the input's unbuffered `eventChan`. `OnCreate` also caches data dictionaries in two maps. |
| ConsumerAdapter | `input.go` 19-31, 83-180 | `Connect` obtains a handle for the input's config file, makes the channel and starts the handle. `Read` selects on the channel and `ctx.Done`. `Close` closes the channel, looks the handle up again and stops it. |
| FileProcessor | `io/processor_file.go` 154-431 | `Process` dispatches on the configured operation. `write` writes `path + ".tmp"` and renames it over `path`. `move` reads the source, writes `dest + ".tmp"`, renames it over `dest` and removes the source; a failure of that removal is only logged. `rename` is one `os.Rename`. `delete`, `read` and `stat` are one call each. A pipeline runs `Process` on several threads at once, and nothing serialises operations on the same path. |
| Tests and build | `processor_file_test.go`, `.goreleaser.yml` | Not modelled. |

**Interactions.** Engine session goroutines call the callbacks of the input
that *created* the handle. The pipeline goroutine calls Connect, Read and
Close. The only link between them is the unbuffered channel: a callback
blocks until a Read takes its event. Several inputs whose config files have
identical bytes share one handle and its engine. The global lock serialises
every Start, Stop and lookup, and the last Stop holds it for as long as the
library's engine Stop takes.

**Hard behaviours** (each is listed as a hazard in `PROJECT.json`):
- reads of the file that race with operator edits;
- interleaved Start and Stop of shared handles;
- a stop of the last holder followed by a re-acquire;
- callbacks blocked on the channel while Read is cancelled or Close runs;
- buffer reuse by the engine;
- Go panics (send on or close of a closed channel, close of a nil channel,
  write to a nil map);
- Stop holding the global lock while the library waits for a callback.
- a last Stop that holds the global lock while another input that shares
  the handle waits for that lock inside Connect;
- in the file processor: a move whose copy shares its temp name with a
  write, or whose source is rewritten after it was read; concurrent writers
  sharing one temp file, a crash
  between the temp write and the rename, failing calls on error paths, and
  a move whose source and destination are the same.

## 2. Modules

| Module | Models | State | Actions |
|---|---|---|---|
| `FixApp` | ChecksumRegistry, EngineHandle | `file`, `edits` (environment); `storeLock`; per digest `inStore`, `appOf`, `engine`, `running` (library engine), `state`, `refcount`, `settingsOf` | `ChecksumOk`/`Checksum`, `SettingsOk`, `GetOrCreateHit`/`New`/`Fail`, `StartHandle`/`StartErr`, `StopDecrement`, `StopBegin`/`StopEnd`, `EditConfig` |
| `FixAppHolders` | clients that keep their handle, as the spec's section 4.2 describes; these are clients of the code, not code | `hpc`, `hchk`, `hold`, `hok` per holder | `Acquire`, `Lookup`, `Start`, `Release`, `Released`, `Environment` |
| `QuickfixInput` | EventBridge and ConsumerAdapter composed with `FixApp` | per input: `apc` (the call and the point in it), `closing`, `achk`, `ahandle`, `res`, `field` (`q.eventChan` non-nil), `chan` (none/open/closed), `rev`, `last`; per session worker: `wpc`, `wev`, `nsent`, `buf`; `crash` | `ConnectChecksum`, `ConnectLookup`, `ConnectStart`, `ReadBegin`, `ReadReceive`, `ReadClosed`, `ReadCancel`, `ReadReturn`, `CloseChannel`, `CloseChecksum`, `CloseLookup`, `CloseStop`, `CloseWait`, `Callback`, `Environment` |
| `SharedEngine` | the abstract promise of a fixapp handle to its holders: the first Start decides whether the engine runs, the last Stop stops it, nothing else changes it | `users`, `on`, `used` per handle | `Join`, `Leave` |
| `FileStore` | the abstract promise of the file processor: a path holds nothing or one whole body; `Put`, `Remove`, `Rename` | `files` | `Put`, `Remove`, `Rename` |
| `FileProcessor` | FileProcessor, over a file system of names (base path or `path + ".tmp"`) and inodes | `dir`, `data`; per thread `fd`, `pc`, `arg`, `res`, `seen`; `crashes` | `WriteOpen`, `WriteTemp`, `RenameTemp`, `MoveRead`, `MoveOpen`, `MoveRemove`, `Delete`, `Rename`, `ReadFile`, `StatFile`, `Crash` |
| `MC_FixApp`, `MC_QuickfixInput`, `MC_FileProcessor` | model values and the small functions TLC needs | | |

**Correspondence.** A handle is named by its digest. Because the map never
shrinks, each handle field is a function over `Digests`.

`GetOrCreateFixApp` is split at the point where it takes the lock. The part
before the lock (createChecksum) is one step. The locked part is a second step
with three outcomes: hit, new, or fail. Fail merges every error of
`GetSettings`, the factories and the constructors, because none of them
inserts anything.

The library engine Stop is two steps:
- `StopBegin` takes the lock;
- `StopEnd` returns once the session goroutines are idle.

In `QuickfixInput`, `CloseWait` waits for the input's workers to be idle, and
`StopEnd` is the same library return. This reflects the assumption stated in
section 5.

Each Read is split at its blocking points:
- select;
- receive or closed channel;
- render and return.

A callback is one step: it builds the event and then either delivers it on a
waiting Read or blocks in `sending`. A panic sets `crash`. Every action is
guarded by `Alive`, so a crashed state has no successor.

`FileProcessor` splits write and move at every system call. A file that is
open for writing is an inode held by the thread, so a write lands wherever a
rename has since moved that inode, as on POSIX. `OpenTruncate` creates a name
or truncates the inode it already has. `Overwrite` gives the bytes after a
write at offset 0 over another writer's bytes: theirs are overwritten, or
left partly in place (`Torn`). An inode that no name and no open file refers
to is freed (`Collect`). `Crash` is a process crash:
- threads and open files are lost;
- the directory and the data stay.

Each call named in `Faults` may fail. The error paths then run as in the
code: the temp file is removed by name, or the failure is logged and
ignored.

`FileStoreRefined` checks `FileProcessor` against `FileStore` through
`Store == INSTANCE FileStore WITH files <- Visible`. `Visible` is the bytes
each base path names.

`SharedEngineRefined` checks `FixAppHolders` against `SharedEngine` through
`Engine == INSTANCE SharedEngine WITH ...`. A handle's users are the holders
that started it and have not finished their Stop (`Holding(k)`). `on` is
`running`, and `used` is `state = started`. A Start is a `Join`, a
`StopDecrement` or `StopEnd` is a `Leave`, and every other step stutters.
The abstract spec says what the code does, not what spec section 3 asks
for: once the first Start is behind a handle, it never starts an engine
again (F1).

**Abstractions.**
- File contents are model values, and SHA-256 is an injective map onto model
  digests.
- A message is the number of the callback that produced it. The engine's
  buffer `buf` is overwritten by the next callback, so a rendered payload that
  differs from the event's own number shows aliasing.
- File paths are base paths that interpolation has produced and
  `filepath.Clean` has left unchanged. Directories always exist, so a failing
  `MkdirAll` is one more way for the open to fail. The scanner's batches are
  one read of the bytes, and file metadata is the bytes it describes.
- Metadata, JSON rendering and logging are left out. The session id is kept
  because a property is about it.

## 3. Runs

| Run | cfg | Expect | Shows |
|---|---|---|---|
| fixapp_safety | `MC_FixApp.cfg` | pass (25,504 states) | Two holders with edits and failing starts. `SharedEngineRefined`: the engine changes only at a handle's first Start and at the Stop that leaves it unheld, so it is never stopped under another holder and never runs with no holder. |
| fixapp_restart | `MC_FixApp_restart.cfg` | violation | `HeldEngineRuns`: after the last Stop, a re-acquired handle's Start returns nil with the engine stopped (finding F1). |
| fixapp_toctou | `MC_FixApp_toctou.cfg` | violation | `OneEnginePerConfig`: an edit between the two reads of the file gives two handles engines (an acceptor and an initiator, both roles valid in this cfg) built from the same contents (finding F2). |
| input_delivery | `MC_QuickfixInput.cfg` | pass (181,024 states) | `InOrderNoLoss`: each Read returns the next event of a session, across cancellations. `PayloadIntact`: a rendered payload is the copy made in the callback. |
| input_close_order | `MC_QuickfixInput_close_order.cfg` | violation | `NoSendOnClosedChannel`: Close closes the channel before stopping the engine (finding F3). |
| input_config_edit | `MC_QuickfixInput_config_edit.cfg` | violation | `EngineReleased`: Close finds the handle again from the current bytes, so after an edit the engine Connect started is never stopped (finding F5). |
| input_close_returns | `MC_QuickfixInput_close_returns.cfg` | pass (49,260 states, `FairSpec`) | Two inputs on different configs, code order, engine starts that may fail. `CloseReturns`: every Close that has begun returns, or the process has panicked. The `Stop` that holds `fixappstorelock` never waits on a blocked callback, because closing the channel first makes such a callback panic. |
| fp_atomic | `MC_FileProcessor.cfg` | pass (660,925 states) | One thread writes, moves, deletes and renames two paths while another reads them. Every call may fail, and the process may crash between any two calls. `FileStoreRefined`: every visible change is a whole write, a removal or a rename. `MoveKeepsData`: a successful move leaves the source's bytes at the destination. |
| fp_writers | `MC_FileProcessor_writers.cfg` | violation | `AtomicVisible`: two threads writing one path share `path.tmp`. One thread's O_TRUNC empties the temp file the other then renames into place (finding F6). |
| fp_move_race | `MC_FileProcessor_move_race.cfg` | violation | `MoveLosesNoData`: t1 writes, t2 moves x to y (finding F10). t1's write to y opens `y.tmp`, the move's temp file, with O_TRUNC. The move renames the emptied copy over y and removes x. |

Every property of the passing runs is paired with a mutant in
`PROJECT.json`, and TLC finds each mutant violated:
- an early return on a failed engine start;
- an event that aliases the engine's buffer instead of copying it;
- a cancelled Read that drains the channel;
- `fixappstorelock` not released after the engine stops;
- a last-holder test off by one;
- a file written in place instead of through a temp file;
- an unchecked open of the move source;
- a move that removes its destination.

**Bounds.**

`MC_FixApp`:
- two holders and two paths, both paths starting with the same contents, so
  that they share a digest;
- three contents: two valid and one that parses badly;
- one holder with an invalid role, so no engine is built for it
  (`MC_FixApp_toctou.cfg` gives both holders valid roles);
- up to two edits;
- Start may fail.

These bounds cover hits and misses, a shared stop, a failed start, an edit on
either side of each read, and a removed file.

`MC_QuickfixInput`:
- two inputs on identical configs, so that they share a handle;
- one session;
- three callbacks, enough for a blocked sender, a reused buffer and a
  cancelled Read;
- one edit.

A second session multiplies the state space by about 70 and adds no
interleaving that the property distinguishes. Per-session order is checked
per worker.

`MC_FileProcessor`:
- two threads, two base paths (so four names) and two bodies;
- one path exists at start;
- move and rename go between the two paths in both directions;
- every call may fail;
- one crash.

These bounds cover:
- a crash after each step of write and move;
- a rename over an existing file;
- a move whose source removal fails;
- a reader observing every intermediate state.

`fp_writers` gives both threads only `write` on one path, so the two temp
files must collide. `fp_move_race` gives one thread `write` and the other
`move` from x to y, with no faults.

`input_close_returns` uses two inputs on different configs, with three
callbacks per session, engine starts that may fail, and no edits. An edit
that makes the two files identical leads to the deadlock of
`input_shared_close`.

`input_shared_close` constrains the pipeline with `ReadsBeforeClose`: it
never calls Read after Close. The module itself allows that order.

The violation runs use smaller bounds, so their traces stay short.

**Fairness.** `FairSpec` adds `WF_vars(CloseProgress(a))` for each input:
once a Close has begun, its goroutine keeps taking its next step while that
step stays enabled. Go schedules every runnable goroutine, and the lock that
the Close steps wait for is released by another Close's steps, which are fair
in the same way. Fairness is not given to:
- the decision to call Close;
- Reads, which the pipeline cancels at shutdown;
- engine callbacks;
- file edits.

`CloseReturns` therefore asks only whether a Close that has begun can block
forever.

The QuickfixInput cfgs set `CHECK_DEADLOCK FALSE`, because a Go panic ends
the process and leaves a state with no successor. Every other state still has
the environment or a caller step enabled. The FileProcessor runs check for
deadlock.

## 4. Findings

The findings are in `PROJECT.json` with their source lines and the spec
sections or code comments they contradict:
- **F1** (fixapp_restart): a re-acquired handle's engine never restarts.
- **F2** (fixapp_toctou): the file is read twice, so one config can get two
  engines.
- **F3** (input_close_order): Close closes the channel before it stops the
  engine.
- **F5** (input_config_edit): Close finds the handle again from the file's
  current bytes.
- **F6** (fp_writers): concurrent writes share `path.tmp`.
- **F9** (input_shared_close): two inputs share a handle, and the code's own
  Close order can deadlock. The last `Stop` holds `fixappstorelock` while
  the engine waits on a callback to the creating input. That input waits
  for the lock inside `Connect`, so it cannot read.
- **F10** (fp_move_race): a move loses the source's bytes when a write to the
  same destination shares its temp name. The move's comment says it "either
  completes fully or leaves the source intact".

  With writes restricted to the source, `MoveLosesNoData` also fails through
  the stale read at processor_file.go 371. A write acknowledged between the
  move's read and its `Remove(srcPath)` is deleted (a nine-state trace).

These defects were read from the code and show up in the models. No run
spends a property on them, because each is reached in one or two steps and a
unit test reaches it as easily:
- **F4:** `NewQuickfixEvent` never sets `sessionId` (input.go 57). Every
  message's `quickfix_session_id` is the zero value, contrary to the
  scenario in spec section 8.
- `OnCreate` writes `q.appDictionaries` and `q.transportDictionaries`
  (input.go 189-190, 199). `quickfixInputFromParsed` never makes those maps,
  so a session naming a parsable DataDictionary panics. Spec section 7 says
  dictionary problems are non-fatal.
- `Close` before a successful `Connect` closes a nil channel and panics
  (input.go 170).
- `Connect` discards the error of `fixapp.Start` (input.go 131), while spec
  section 7 says it is returned.
- **F7:** a move whose dest is its own path (processor_file.go 405) copies
  the file onto itself and then removes it, reporting success. The pair
  `<<x, x>>` in `DestPairs` violates `MoveKeepsData` in three calls.
- A `rename` processor configured without `dest` is built (processor_file.go
  110-115 clears the error for every operation but `move`) and then fails
  every message (334-336); a `move` without `dest` is refused when the
  pipeline is built. `ConfigFromParsed`/`Constructed` constrain the
  constants `OpsOf`/`DestOf` to configurations that build, and
  `RenameNoDest` is the failing call; `MC_FileProcessor.cfg` gives the
  reading thread such a rename.
- `quickfixInputConfig` (input.go 63-67) declares no fields, so the
  `FieldString` calls in `quickfixInputFromParsed` always fail.

## 5. Library assumptions

- The engine's `Stop` returns only after its session goroutines have left
  their callbacks. This is how `CloseWait` and `StopEnd` are modelled.
- `OnCreate` is called from session goroutines after `Start`, not inside
  `NewAcceptor`.
- `msg.message.ToJSON` on a nil message is selected by the constant
  `NilRenderOk`. The delivery run assumes that it renders.

## 6. Not modelled, and the plan

Not modelled:
- the stop-then-close order that spec section 4.4 asks of `Close`. It is not
  what `Close` does (input.go 166-180), so a run of it would say nothing
  about the program. Read against the model, that order would still leave
  two problems. With a shared handle, the engine keeps calling back the
  creating input after its channel is closed. And the last `Stop` can wait
  for a callback blocked because the pipeline stopped reading.
- whether a callback eventually returns. With distinct configs, this follows
  from the pipeline reading fairly and says nothing more about the code. With
  shared configs, it fails through F9.
- in the file processor: durability across power loss, where `Close` does
  not fsync before the rename; file systems other than the OS one, which
  `os.Rename` bypasses; and paths that are themselves `.tmp` names;
- configuration parsing and registration (`init`, `quickfixInputFromParsed`
  beyond its initial state), which is pure I/O;
- the message store and log factories, other than as failure points;
- the tests and the build configuration.

What is left is beyond a faithful model at this level:
- whether a second input sharing a handle ever receives an event. The engine
  calls back only the input that created the handle, so that input starves.
  This follows directly from `appOf`, and no run is spent on it.
- the factories' choice of store and log type. That choice only decides
  whether `GetOrCreateFixApp` fails, which `GetOrCreateFail` already allows.

The dictionary maps need no state. `quickfixInputFromParsed` never makes
them, so every store into them panics (`DictSessions`), and Read's lookup
always yields nil. For the same reason, the data race between Read's lookup
and OnCreate's store cannot happen with this code.
