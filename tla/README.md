# LiteSpeedStore in TLA+

Specifications, model-checking runs and machine-checked proofs for
LiteSpeedStore, an embedded key-value store that keeps a history of timed
records per key in memory and makes it durable with a hash-chained write-ahead
log and snapshots. Paths such as `src/WAL.cpp` are relative to the
repository's root; `PROJECT.json` lists, for every definition, the source
lines it stands for.

## 1. The system

| part | state | operations that change it |
|---|---|---|
| Write-ahead log, `src/WAL.cpp` | the log file; `m_epoch`, `m_seq`, `m_headHash`, `m_pendingWrites` | constructor (`writeHeader`, `validateHeader`), `append`, `recover` and `verify` (both `walkChain`), `reset`, `setEpoch`, `close` |
| Snapshot, `src/Snapshot.cpp` | the snapshot file and a temporary file | `save` (write, fsync, rename, fsync of the directory), `load` |
| Storage engine, `src/StorageEngine.cpp` | `m_data`, `m_snapshotEpoch` | constructor and `recover`, `set`, `remove`, `snapshot`; readers `get`, `getAverage`, `count`, `historyCount` |
| Records | `Record`, `serialize`, `deserialize`, the size limits | none: pure |
| Locking | the engine's `shared_mutex`, the log's `mutex` | every call |
| `litespeed-verify`, `tools/verify.cpp` | none of its own | opens a log with the WAL constructor and calls `verify` |
| SHA-256, CRC-32, little-endian encoding | digest contexts | pure computations |
| FastTrace timer | start time and callback | a destructor that calls `set` |
| main, demo, benchmark, fuzzers | none | clients of the library |

**How they interact.** A writer holds the engine's mutex exclusively for the
whole of `set`, `remove`, `snapshot` or `recover`, and inside it calls the log,
which takes its own mutex for each of its calls. `set` and `remove` log first
and change the map afterwards. `snapshot` writes the map to the snapshot file
under the log's current epoch, raises the epoch by one and only then empties
the log. `recover` loads the snapshot and replays those log entries whose epoch
is greater than the snapshot's. The epoch is therefore the only thing that
keeps a crash between the snapshot and the emptying of the log from applying
entries twice.

**What is hard about it.** Every call is a sequence of system calls, each of
which can fail, be the last thing the process does, or be undone by a power loss
because nothing was synced since. Mistakes show one or two restarts later: a
chain state that does not match the file is accepted until the next append and
the next start. The size limits of three places have to agree, the group commit
has a boundary at the N-th append, and the cap on histories is applied by three
code paths. Within a process, threads share one engine under one
`shared_mutex`, and a timer's destructor may be among the callers; between
processes, `litespeed-verify` opens the file that an engine is appending to and
emptying, with no lock at all. The formats rest on word arithmetic with
boundaries of its own. `PROJECT.json` lists these hazards line by line.

**What makes each part correct.**

* Log: what it wrote it accepts again; `head()` describes the file; recovery
  removes torn bytes and nothing else; at most N-1 returned appends are at risk
  under `syncEveryN = N`; every call returns.
* Snapshot: a power cut leaves the old image or the new one; failure leaves the
  old one.
* Engine: what readers see is what the logged operations give; a restart
  reproduces it; a power cut loses nothing that an `fsync()` covered and keeps
  no operation without those before it. To its threads it is one atomic store.
* `litespeed-verify`: exit code 0 means that nothing is missing or changed, any
  other that something is or that the tool could not look; and it leaves the
  file alone.
* Encodings: CRC-32 and the padding of SHA-256 are those of the standards;
  `load` consumes what `save` writes, stays inside the payload and refuses it
  only when it is too short.

## 2. The modules

| module | models | state |
|---|---|---|
| `Records` | keys, values, sizes, `serialize`, `deserialize` | - |
| `WAL` | class `persistence::WAL` over a POSIX file; a client that uses the class as the engine does | 10 variables |
| `MCWAL` | instances of `WAL` for TLC | |
| `Histories` | `m_data` and the helpers that change it: `appendCapped`, `erase`, the replay of an entry | - |
| `Snapshot` | `Snapshot::save` call by call, `load` by its result | 5 variables |
| `StorageEngine` | the engine composed of `WAL` and `Snapshot` | 5 more |
| `DurableStore` | abstract: what the engine promises across restarts | 3 variables |
| `MCEngine` | instances of `StorageEngine` for TLC | |
| `EngineThreads` | threads on the engine's `shared_mutex`, with a log or in memory, and the FastTrace timer | 21 variables |
| `AtomicStore` | abstract: the "thread-safe key-value store" | 5 variables |
| `MCThreads` | instances of `EngineThreads` for TLC | |
| `Audit` | `litespeed-verify` beside an engine, on storage that may damage entries | `WAL`'s and 12 more |
| `MCAudit` | instances of `Audit` for TLC | |
| `Endian`, `CRC32` | little-endian words; the checksum and its reference | 2 variables |
| `SHA256` | `update` and the padding of `digest`, and their reference | 5 variables |
| `SnapshotLoad` | `Snapshot::load` behind the CRC, with real sizes | 11 variables |
| `MCEncoding` | the last three in one run | |
| `WAL_proofs`, `SnapshotLoad_proofs`, `StorageEngine_proofs`, `EngineThreads_proofs`, `Audit_proofs` | theorems about the five components | |
| `Encoding_proofs` | theorems about `Endian`, `CRC32` and `SHA256` | |
| `Histories_proofs` | lemmas on histories and replay that engine and threads share | |
| `Iteration_proofs` | induction, loops and sums over finite sets, for all of them | |

`StorageEngine` EXTENDS `WAL` and `Snapshot` and builds its actions from
theirs: `set` is `AppendWrite` plus the engine's bookkeeping, `RecoverEntry` is
`WalkEntry` plus the replay of the entry, `SnapshotRotate` is the end of `save`
with the assignment of the epochs and the first system call of `reset`.

### Records

A key or a value is an opaque member of a finite set with a size in bytes: the
code compares sizes and moves bytes, and looks at nothing else. `serialize`
returns a blob whose size is that of the duration plus that of the value, which
is what the limits of `append`, `walkChain` and `set` are about.

### WAL

The file is a sequence of *cells*: `Header`, entries, and `Part`, the bytes of
an interrupted write. `wal_pc` names the next system call of the thread that
holds `WAL::m_mutex`; each action is one system call and the assignments up to
the following one.

| code | actions |
|---|---|
| `WAL::WAL` | `OpenEmpty` (`fstat()` finds no bytes), then `OpenCreate` and `OpenSync` (the header, wherever the end of the file is by then); `OpenExisting`, `OpenRefused`; failures `OpenCreateFails`, `OpenSyncFails` |
| `append` | `AppendWrite`, `AppendReturn` (group commit); `AppendWriteFails`, `AppendSyncFails`, `AppendKilled` |
| `walkChain` | `WalkStart`, `WalkEntry` per entry, `WalkEnd`, `WalkTorn`, `WalkRefused`; failures `WalkStatFails`, `WalkReadFails`; `Adopt` is what `recover` adds |
| `reset` | `ResetSync`, `ResetTruncate`, `ResetHeader`, `ResetReturn`, `ResetFails` |
| `close` | `Close` |
| `setEpoch` | `ClientSetEpoch`, and as an assignment in the engine's actions |

*Hash chain.* SHA-256 is taken as collision free: the chain hash of an entry is
the sequence of all entry bodies it hashes, so two hashes are equal exactly
when everything under them is. CRC-32 is taken to notice bytes that are not the
entry that was written. A `Part` with other cells behind it reads as arbitrary
lengths and checksums, so the walk may then report any defect.

*Disk.* `walFile` is what `read()` sees. `walFloor` is the number of its cells
that are on disk, and `walOld` holds the contents that a power loss may bring
back because a truncation was not synced. `Survivors` is the set of files a
power loss may leave: anything in `walOld`, and any prefix of `walFile` that
keeps the synced cells, with or without part of the next cell.

*Failures.* The constant `Failures` names the ways the environment may fail, one
name per error path of the code (`FailureKinds`). Each run chooses a set, which
makes explicit under which failures a property holds. `ChainSafeFailures` are
those after which the log stays readable: kills, power losses, writes that fail
without leaving bytes, failed `fsync`s outside of a rotation's header, a failed
`ftruncate` of a rotation.

Left out of the error paths: `open()` and `fstat()` failing in the constructor
(it throws before anything changed); `lseek()` failing, which on an open
regular file it does not; and the early returns for `m_fd == -1`, a state the
object has only after `close()`.

### Snapshot

Inside the engine, the CRC of the snapshot makes `load` return either the image that was saved or
nothing, so `snapFile` is the image at the path, or `NoSnapshot`. `snapOld`
holds what a power loss may put there instead, because the rename is not yet
durable or because the renamed file's bytes were not synced. The temporary file
is never read and is only known by whether it was synced.

### StorageEngine

`op` is the call in progress, at most one because writers exclude each other.
`m_data` maps every key to its history; the empty history stands for a key that
is not in the map. `clock` gives every operation a new timestamp, so that an
operation applied twice, dropped or moved is visible in the contents.

`journal` is a history variable: the contents after each operation that was
written to the log, with full histories, beginning with the contents that a
completed `fsync()` or snapshot promises to keep. It is independent of the
log, the snapshot, the epochs and the cap, and is what the properties compare
them with.

### DurableStore

What a caller may rely on, without log, snapshot or epochs: the engine is up or
not; readers see `live`; `journal` holds the contents from the last safe moment
on. A crash leaves one of the contents in `journal`, and the next start serves
exactly that one. `StorageEngine` implements it under the mapping `up <-
Serving` (constructed, and not inside `recover`), `live <-` what readers see
then (nothing while it is not up) and `journal <- journal`.

### EngineThreads and AtomicStore

Every thread has a program counter, its call, its locals and its answer.
`owner` and `sharers` are the state of the `shared_mutex`: a writer waits until
both are empty, a reader until there is no owner. All member functions are
calls, broken up where another thread could see a half of them: `getAverage`
adds one duration per step, `appendCapped` evicts before it appends, `recover`
clears, loads and replays entry by entry. The engine has a log or is one of
`makeInMemory()`.

The files are there as a running process sees them: `log`, whose cells carry
their epoch and their number or are what an interrupted write left, `header`,
the first 16 bytes, and `snap`. Their failures, in `FailureKinds`, are those of
every error path, and each leaves what the code leaves:

| call | fails | and leaves |
|---|---|---|
| `append` (`AppendRefuses`, `AppendFails`) | for the length of the key; in `write()` before a byte | nothing |
| | in `write()` after some bytes; in `fsync()` | torn bytes; the entry, with `m_seq` advanced |
| `save` (`SaveFails`) | before the rename; after it, in `fsyncParentDir()` | the old snapshot; the new one, with the epoch that the log still uses |
| `reset` (`RotateFails`) | in `ftruncate()`; in the header's `write()` or `fsync()` | the old log, fenced off; an empty log with the old `m_seq` |
| `load` (`LoadFails`) | on a snapshot that is there | no contents, no fence, epoch 0 |
| `walkChain` (`StatFails`, `FindsTorn`, `ReadFails`) | in `fstat()`; at a torn entry or in `read()` | an empty chain over the log; the log cut there, or not even that if `ftruncate()` fails |
| `recover` (`RecoverThrows`) | on a refused log | the half-filled map, which readers then see |

Two history variables say what has happened: `suspect` that a call has failed
with files or map half done, until a `snapshot` returns; `blind` that a `load`
has failed on a snapshot that is there.

`EnterScope` and `LeaveScope` are the two ends of a `TRACE_SCOPE`, whose name may
be too long; a `set` that throws out of `~Timer()` ends the process
(`Terminate`).

`AtomicStore` has no lock: a call takes effect at one instant between its
invocation and its return, and answers from the contents of that instant. A
`set`, `remove` or `snapshot` that throws leaves the contents as they are. A
`recover` rebuilds the contents that are there and returns; only when a call has
failed half done since the last `snapshot` (`suspect`) may it throw or give other
contents, at one instant still. `EngineThreads` implements it with the release
of the lock as the instant; while a writer is inside, the abstract contents are
those from before (`before`).

### Audit

The tool is a second WAL object, an INSTANCE of `WAL` over what the tool saw of
the file (`seen`) when `walkChain` took its size: bytes appended later are past
that size. Its constructor looks and writes in two steps, as the engine's does:
`ToolFindsEmpty` is an `fstat()` that finds no bytes, in a file that an engine is
creating or has just emptied in `reset`, or whose creator was killed;
`ToolCreates` writes a header at the end of the file as it is by then. `clashed`
records that this made a second header, or that the engine is about to write
one. When the engine empties the file under the walk, the tool reads anything
(`ToolMisreads`). `ToolFailures` names the tool's own system calls that may fail:
the header's `write()` and `fsync()`, `fstat()` and `read()`, in the constructor
and in the walk; `ioError` records that one did.

`Strikes` is damage to one stored entry, done while neither process is in the
middle of a call: other content (as `tools/demo.cpp` does), another hash, an
entry with a hash that fits but is not the one its successor is linked to, an
entry dropped or exchanged with its successor, a length over the limit, or a
length under it that leads past the end of the file (only in `audit_length`).
Cutting entries off the end of the file is not among them: THREATMODEL.md says
that only an external checkpoint shows it. `truth` is a history variable: the
file without damage and torn bytes.

### Endian, CRC32, SHA256, SnapshotLoad

A word is the set of its one bits, so that 32 and 64 bits cost nothing. `CRC32`
computes the checksum with the code's table and loop, and beside it the
remainder of a division of polynomials over GF(2), which is how IEEE 802.3
defines it. In `SHA256` the compression function is opaque: `m_state` is the
sequence of blocks it was given, which have to be the blocks of the message
padded as FIPS 180-4 says, however the message is cut into `update` calls. The
bytes of the message are a parameter (`Byte`). `m_bitLen` is a natural number:
`digest` takes the eight lowest bytes of the sum, which are the same in the
code's 64 bits.
`SnapshotLoad` chooses every count and length as it is read, so it goes through
all payloads with these counts. A value is known by its length only; a key has a
text as well, so that an image may hold several keys of one length and a payload
may bring a key twice, whose records `load` then puts behind each other
(`merged` counts the bytes of its second header). `load` stops behind the last
key and does not compare its offset with the payload's size: what follows is
ignored.

## 3. The runs

| run | bounds and failures | checks |
|---|---|---|
| `wal_chain` | two entries, N = 2, all of `ChainSafeFailures` | `WALTypeOK`, `ChainInv`, `OwnLogAccepted`, `CheckpointMatchesLog`, `RecoveryKeepsEntries`, `CallsReturn` |
| `wal_group_commit` | three entries, N = 3, two epochs, power loss, all of `CountSafeFailures` but "reset fsync" | `GroupCommitInv`, `GroupCommitBound` |
| `engine_power` | three writes on two keys, N = 2, cap 2, two snapshots, power loss and failing calls | `EngineTypeOK`, `DurabilityInv`, `LiveMatchesJournal`, `LiveIsRecoverable`, `PowerCutKeepsPromise`, `ImplementsDurableStore` |
| `engine_failures` | one write, two snapshots, kills and every failure of a system call of `WAL` and `Snapshot`, no power loss | `EngineReturns`, `SnapshotHeals` |
| `threads` | two threads, three calls, cap 2, an oversized key and value, every failure of `FailureKinds`, an empty engine, one over a snapshot or one in memory | `TypeOK`, `LogGivesMap`, `HistoriesInClockOrder`, `TerminateLosesNothing`, `Linearizable`, `CallsComeBack` |
| `audit` | two entries, kills, one damage of any kind but "length", every failure of `ToolFailures`, the tool any number of times | `TruthInv`, `ToolLeavesChainIntact`, `AlarmsAreReal`, `ExitZeroMeansComplete`, `RecoverLoadsTruth`, `ToolReturns` |
| `encoding` | messages of 4 bytes out of 4 for the CRC, of up to 140 bytes for SHA-256, payloads of 14 sizes with counts 0, 1, 2, 9 and two texts of keys | `CRCIsStandard`, `StoredWordsReadBack`, `PaddingIsStandard`, `LoadStaysInBounds`, `LoadRefusesOnlyShort`, `LoadReadsWhatSaveWrites` |

What they show:

* `wal_chain`: a log that only this class wrote is never reported as tampered
  or malformed and never rejected by the constructor, through kills and power
  losses between any two system calls; `head()` agrees with the file; recovery
  removes torn bytes only; every call returns, the walk over files with torn
  cells included. `ChainInv` is the inductive invariant of the proofs.
* `wal_group_commit`: the promise of `syncEveryN` at its boundary.
* `engine_power`: recovery rebuilds exactly the logged operations, a restart
  reproduces the live contents, and a power cut at any instant, in particular
  between the snapshot's rename and the end of the rotation, gives the contents
  of a moment not before the last completed `fsync()`. A power loss that
  takes nothing away is a kill, so kills are among the cases. All of it
  together is the refinement `ImplementsDurableStore`. `DurabilityInv` is the
  inductive invariant of the proofs.
* `engine_failures`: no failure makes a call hang, and a snapshot that returns
  normally repairs whatever earlier failures did to the log. The walk over
  misplaced cells, which only these failures produce, ends as well.
* `threads`: no interleaving of member functions shows a thread anything an
  atomic store would not, whatever system call fails: a call that throws has no
  effect on the map, and a `recover` that throws half way, or rebuilds something
  else, does so at one instant. Snapshot and log give the map until a call fails
  half done, and again after the next `snapshot` that returns. A `write()` that
  fails before any byte, a `save` that fails before its rename and a `reset` that
  fails before its truncation do not come between. Records stay in the order of
  the clock. When one thread's timer ends the process, a restart finds what the
  thread inside found, or what its call leaves. The lock is released on every
  way out, and every call comes back.
* `audit`: unless both write a header into one empty file, the engine does not
  notice the tool, and the tool is right as long as its own system calls work:
  it accepts a file that is being appended to, notices every damage it can see,
  and raises an alarm without damage only when the log was emptied under it.
  `recover` never loads a damaged log. `TruthInv` is the inductive invariant of
  the proofs.
* `encoding`: the arithmetic at its boundaries: a message of 55, 56 or 64 bytes,
  a count that just fits.

Every property has a mutant in `PROJECT.json`: a plausible slip in the code,
such as syncing one append late, not waiting for the lock, hashing an entry
without its predecessor, keeping the old chain in `reset()`, adopting
the sequence number without the hash, forgetting the key in the size check, or
reusing the snapshot's epoch, under which TLC finds the property violated.

**Bounds.** `MaxCells` bounds the cells in the file and the entries in a chain,
`MaxEpoch` the epochs, `MaxOps` the engine's writes. Two entries are enough for
a link between entries, for a torn one behind a good one and for a chain that
goes on after recovery; N entries reach the group commit's boundary; three
writes under a cap of two evict a record and let a write follow a rotation; two
snapshots let one replace another. In `threads` two threads with three calls
(`MaxCalls`) let a reader meet a writer, a writer a writer, and either one the
consequences of a call that came before; a call can fail half done, a `snapshot`
heal it and a `recover` follow; over a snapshot with a record, two `set`s pass
the cap. In `audit` two entries are enough for damage to an entry
with one behind it. `MaxMessage` and `MaxHashed` bound the messages of
`encoding`: 140 bytes are two full blocks and every remainder. `kMaxFieldSize` is 3 and `DoubleSize` 2; in
`MCWAL` a key of 3 and a value of 1 are just allowed, and a key of 4 and a
value of 2 just not. `MCEngine` uses the empty value, whose blob is exactly as
long as a duration.

**Fairness.** Weak fairness on the steps inside a call only: a thread that is in
a call of the library goes on to the next system call, and system calls return.
The failure of a system call is never among the steps that fairness asks for, so
no call depends on a failure to come to its end. Nothing makes a client call or
a process start. In `threads` fairness also means that a thread gets the lock
once it stays free; since calls are finitely many, nobody waits for ever.
`std::shared_mutex` promises no more: under endless readers a writer may starve,
and the model does not claim otherwise. In `audit` only the tool's process is
fair: it ends whatever the engine does. Deadlock is checked in every run except
`threads` and `encoding`, whose behaviours come to an end.

### Findings

Five runs check a sentence of the repository's documentation or comments that
the code does not keep. `PROJECT.json` quotes the sentence of each.

| run | what happens |
|---|---|
| `wal_torn_append` | an `append()` that fails part way leaves its bytes; the next one writes behind them and the log reads as tampered |
| `wal_read_error` | a failing `read()` counts as the end of the file, and recovery truncates complete entries |
| `engine_dir_fsync` | `save()` reports failure after the rename: the snapshot is in place with the epoch the log goes on using, and later entries are skipped at the next start |
| `audit_empty_file` | the tool's `fstat()` finds the file empty that an engine is creating, or that `reset()` has just emptied, and writes a header; with the engine's own the log has two, and the engine later refuses it |
| `audit_length` | a stored length that leads past the end of the file makes the tool take the entry and all behind it for a torn tail, with exit code 0 |

More failures break a property as soon as they are added to a passing run:

| add | to | breaks | because |
|---|---|---|---|
| "reset header", "reset header fsync" | `wal_chain` | `OwnLogAccepted`, `CheckpointMatchesLog`; the first also `RecoveryKeepsEntries` | a `reset()` whose header fails has emptied the file but keeps the old chain state; the next append makes the log read as tampered (src/README.md:229 "If the truncation fails, nothing is lost") |
| "recover ftruncate" | `wal_chain` | `OwnLogAccepted`, `CheckpointMatchesLog`, `RecoveryKeepsEntries` | the torn bytes stay, the chain state is adopted, and the next entry lands behind them |
| "fstat" | `wal_chain` | `OwnLogAccepted`, `CheckpointMatchesLog`, `RecoveryKeepsEntries` | `walkChain()` returns Ok with no entries, and `recover()` adopts an empty chain over a full log |
| "torn header" | `wal_chain` | `OwnLogAccepted` | a crash or a failing `write()` inside the 16 bytes leaves a file that is not empty and has no header: the constructor refuses it for ever |
| "kill" | `wal_group_commit` | `GroupCommitBound` | entries a killed process did not sync are replayed but not counted as pending, so more than N-1 writes can be lost (src/README.md:266) |
| "append fsync" | `engine_power` | `LiveIsRecoverable` | a `set()` that throws because `fsync()` failed is absent from the map and present after a restart |
| "kill" | `engine_power` | `LiveMatchesJournal` | a kill leaves a rename unsynced, a power loss takes it back after a restart already raised the epoch; the epoch begins again at 0 below entries of epoch 1, which the next snapshot does not fence off |

Together with "partial write", "read" and "dirfsync", whose violations are runs
of their own, and with "load", after which an engine starts without its
contents, these are the failures that `wal_chain`, `wal_group_commit` and
`engine_power` each run without, where they break a property of theirs. None of
them makes a call hang, and the next `snapshot` repairs what they do to the log:
`engine_failures` runs with all of them. `engine_power` also leaves out "close
fsync": the destructor cannot report it, and a shutdown promises its pending
writes only where that `fsync()` succeeds; the theorems of section 4 cover it,
with that weaker promise.

One more sentence is not kept: `tools/verify.cpp:11` promises exit code 2 for an
I/O error, and a failing `fstat()` or `read()` in the tool's walk ends in "intact"
or "torn tail", exit code 0. `ExitZeroMeansComplete` and `AlarmsAreReal` excuse a
tool whose system call failed (`ioError`).

## 4. The proofs

All theorems hold for every value of the constants: all sets of keys, values and
durations, all size limits, every `syncEveryN`, every cap on histories, any
number of threads, and all bounds of the runs. The constants satisfy the named
assumptions of the modules that declare them, which say that sizes, caps and
bounds are natural numbers, that a duration fits a field, that the failures are
ones the model knows, that the bytes of a checksummed message have eight bits,
and, for threads, that durations are integers (`getAverage` is compared with an
exact sum).

### The log (`WAL_proofs`)

| theorem | statement | assumptions |
|---|---|---|
| `TypeCorrect` | `WALSpec => []WALTypeOK` | none on failures |
| `ChainInvariant` | `WALSpec => []ChainInv` | `ChainSafe` |
| `OwnLogs` | `WALSpec => []OwnLogAccepted` | `ChainSafe` |
| `Checkpoints` | `WALSpec => []CheckpointMatchesLog` | `ChainSafe` |
| `RecoveryKeeps` | `WALSpec => RecoveryKeepsEntries` | `ChainSafe` |
| `GroupCommitInvariant` | `WALSpec => [](WALTypeOK /\ GroupCommitInv)` | `CountSafe` |
| `GroupCommit` | `WALSpec => []GroupCommitBound` | `CountSafe` |

`ChainSafe` says `Failures \subseteq ChainSafeFailures`; the findings show that
the theorems fail without it. `CountSafe` does the same for `CountSafeFailures`:
power losses and every failure but those that leave cells unsynced which
`m_pendingWrites` does not know of (a kill; a failed `fsync()` of an append, of
a header or in `close()`; a write that leaves part of an entry or header).

**The argument.** `OwnLogAccepted` speaks of a report, and is not inductive: to
know that the walk reports nothing bad, one has to know what is in the file. The
inductive invariant `ChainInv` adds `LogInv`, which says that

* the file is a header followed by entries with consecutive numbers, linked
  hashes and admissible sizes, and at most one torn cell, which is the last
  (`GoodLog`), and so is every file that an unsynced truncation can bring back
  (`walOld`): without the second half a power loss would break the first;
* whenever a client may append, the file has no torn cell, and `m_seq` and
  `m_headHash` are those of its last entry (`AtHead`): otherwise the next entry
  would not link;
* during a walk, the cells before the current one have been verified and the
  locals are those of the last of them (`WalkVerified`): otherwise what
  `recover` adopts would not be `AtHead`;
* a rotation is where `wal_pc` says: empty file, then header alone.

The lemmas go through the actions in the order of the module: `GoodPrefixes`
and `GoodSurvivors` for power losses, `GoodEntryLocal` (whether an entry is good
depends on it and on the one before it) for appends and truncations, `WalkCell`
for what the walk can find at the current cell. They are stated for `LogInv`,
so that the engine and the tool use them too. `RecoveryKeeps` follows from
`ChainInv` by cases over the next-state relation: only a torn last cell is cut.

`GroupCommitBound` is about the moments between two calls. Its strengthening
`GroupCommitInv` says that the cells not yet on disk are at most
`m_pendingWrites`, also while the object is closed (when both are 0, because
`close()` flushes) and inside every call except around a new header, and that
`m_pendingWrites` reaches N only inside `append()`.

### The engine (`StorageEngine_proofs`)

| theorem | statement | assumptions |
|---|---|---|
| `EngineTypes` | `EngineSpec => []EngineTypeOK` | none on failures |
| `Durability` | `EngineSpec => []DurabilityInv` | `DurabilitySafe` |
| `LiveContents` | `EngineSpec => []LiveMatchesJournal` | `DurabilitySafe` |
| `Restart` | `EngineSpec => []LiveIsRecoverable` | `DurabilitySafe` |
| `PowerCut` | `EngineSpec => []PowerCutKeepsPromise` | `DurabilitySafe` |
| `EngineIsDurable` | `EngineSpec => ImplementsDurableStore` | `DurabilitySafe` |
| `SnapshotsHeal` | `EngineSpec => SnapshotHeals` | none on failures |

`DurabilitySafe` allows all of `ChainSafeFailures` but "append fsync", every
failure of `save()` before its rename is in place, and kills or power losses but
not both. Section 3 has the counterexamples; "load" is excluded because an
engine that cannot open its snapshot starts without its contents. Kills and
power losses together are where the step of `EnginePowerLoss` cannot be proved:
a kill between `rename()` and the `fsync()` of the directory leaves the old
snapshot as something a power loss can bring back, the next start takes the
epoch after the new one, and entries are then two epochs ahead of the snapshot
that comes back.

**The argument.** The promise is about files after a power loss, so the
invariant has to speak of all files that a power loss may leave. With `Typed`
(types, and log entries that `deserialize` can read) and the log's `LogInv`, the
inductive invariant is `DurabilityInv`:

* `EpochsFence`: entries are at most one epoch ahead of any snapshot that may be
  found, new ones are ahead of all of them, and an image that has just taken the
  snapshot's place is ahead of none. This is what makes the two orders in which
  a crash can meet `snapshot()` harmless;
* `ImageInPlace`: the image on its way is that of the live contents, its bytes
  are on disk before the rename, and nothing but an unsynced rename brings an
  old one back;
* `MapInStep`: the map is what the journal says, or one operation behind it
  while that operation's `append()` is still running, or, during `recover()`,
  what the entries walked so far give;
* what is on the disk recovers to the last contents of the journal, and every
  survivor of it to one of its contents.

A prefix of the log recovers to an earlier contents of the journal because
each logged operation adds one entry to the one and one contents to the other;
and the cap commutes with replay (`CappedPut`, `CappedErase`), so that histories
capped early, late or by recovery are the same. The three properties and
`EngineIsDurable` follow: a crash is a step of `DurableStore` that picks one of
the contents in `journal`, every other step is one of its operations or a
stutter. `SnapshotsHeal` needs none of this, because it holds under failures
that break `DurabilityInv`: it follows from `ImageOfMap` (where `save()` and
`reset()` are) and `CallsOrUnwind` (which calls are in progress).

### Threads (`EngineThreads_proofs`)

| theorem | statement | assumptions |
|---|---|---|
| `ThreadsTyped` | `Spec => []TypeOK` | none |
| `ClockOrder` | `Spec => []HistoriesInClockOrder` | none |
| `LogAndMapAgree` | `Spec => []LogGivesMap` | none |
| `TerminateSafe` | `Spec => []TerminateLosesNothing` | none |
| `EngineIsAtomic` | `Spec => Linearizable` | none |

None of them restricts the failures; what a failure does to a property is in the
property: `LogGivesMap` and `TerminateLosesNothing` speak of states that are not
`suspect`, `HistoriesInClockOrder` of those that are not `blind`, and `AtomicStore`
knows `suspect` itself.

**The argument.** `Base` is mutual exclusion: a thread inside as a writer is the
`owner`, one inside as a reader is a sharer, there is never both, and each
thread's call and locals fit its program counter. On top of it are the parts that
the theorems need:

* `Counted`: each call reads the clock at most once, which bounds the timestamps.
* `Ordered`, until a `load` fails: map, snapshot and log are in the order of
  timestamps, entries that the snapshot does not fence off are later than it,
  and what `recover` has still to replay is later than what it has replayed. It
  survives every other failure: torn cells, cut logs and skipped entries leave a
  subsequence.
* `Held`, whatever has failed: for each place inside, how far the map is from
  `before`, and at the rotation, that the snapshot is the map. This is why a call
  that throws has no effect, and why a completed rotation heals: `Rotate` makes
  `InStep` true again from `Held` alone.
* `InStep`, while not `suspect`: the log is one that every walk accepts to its
  end (numbers without a gap, no torn cell, `m_seq` its length, `m_epoch` one
  above the snapshot), so that `recover` neither throws nor cuts; and it gives
  the map when nobody is inside, `before` or what the call leaves when somebody
  is.
* `Averaging`: the running sum of `getAverage` is that of the records it has
  passed; no writer can move them.

`TerminateSafe` reads the two possible contents off `InStep` at the owner's place:
between `append` and `emplace_back` the files are one call ahead of the map,
between the snapshot's rename and the truncation the fence makes the log's
entries count for nothing. In `EngineIsAtomic` the release of the lock is the
instant at which the abstract call takes effect; every other step leaves the
abstract contents alone, because they are `before` while a writer is inside. A
`load` that fails is the abstract step `Fail`, and a `recover` that throws or ends
early is one of a `suspect` store, because `InStep` excludes it otherwise.

### litespeed-verify (`Audit_proofs`)

| theorem | statement | assumptions |
|---|---|---|
| `ReadOnlyTool` | `AuditSpec => []ToolLeavesChainIntact` | `ChainSafe` |
| `NoFalseAlarms` | `AuditSpec => []AlarmsAreReal` | `ChainSafe` |
| `TruthInvariant` | `AuditSpec => []TruthInv` | `ChainSafe`, no power loss, `DamageShows` |
| `ExitZero` | `AuditSpec => []ExitZeroMeansComplete` | the same |
| `TamperedIsRefused` | `AuditSpec => RecoverLoadsTruth` | the same |

Every interleaving of tool and engine is allowed, at the creation of the file and
in the middle of a rotation too; the properties make an exception for a file in
which tool and engine both wrote a header (`clashed`), which the run
`audit_empty_file` shows to be needed. `audit_length` shows why `DamageShows`
excludes "length". `DamageShows` also says that where a length is damaged to
exceed the limit there is a key that long: in the model, such a length is the
size of a key. A power loss may take entries that nobody damaged, which exit
code 0 does not speak of.

**The argument.** `QuietInv` is for storage without damage: the engine's log has
`ChainInv`, the tool's copy of the file is a good log, and its walk has verified
the cells it has passed. `TruthInv` covers damage: the file either holds the
truth (`LogIsTrue`, with `LogInv`), or complete entries lead to one that does
not fit the chain (`LogIsBroken`). Each kind of damage to entry `i` breaks the
chain at `i` or at `i + 1`; a walk that verifies every cell it passes cannot get
past that place; later appends and torn bytes do not mend it, and `reset()`,
which empties the file, makes it the truth again. `ToolInStep` carries the same
alternative over to what the tool saw.

### Payloads (`SnapshotLoad_proofs`)

| theorem | statement | assumptions |
|---|---|---|
| `LoadInvariant` | `LoadSpec => []LoadInv` | none |
| `LoadInBounds` | `LoadSpec => []LoadStaysInBounds` | none |
| `LoadAcceptsWhatFits` | `LoadSpec => []LoadRefusesOnlyShort` | none |
| `LoadConsumesSaved` | `LoadSpec => []LoadReadsWhatSaveWrites` | none |

`LoadInv` adds to the two properties of `load` what the loops maintain: a key or
a record that is about to be read is one that the counters still expect. That
an early check refuses only what is too short rests on `DivisionDecides`: the
integer division of the code decides as the product would.

`LoadReadsWhatSaveWrites` compares the offset at which the parse ended with the
length of what `save` writes for the image built, a sum over the keys of the image
and within each key over its records, plus the second headers of keys that came
again (`merged`). It says nothing of the payload's size: `load` ignores bytes
behind the last key. Its invariant `ParseInv` says so for the parse half way: the
offset is that length for the image built so far, plus `merged`, plus the fields
of the key in progress that were read ahead of it. A step changes the image at
one key, and the sum by what that key contributes (`SavedKey`, `SavedRecord`);
that a sum over a finite set can be taken apart at any member, whichever order
the fold chooses, is `FoldTotals`.

### Encodings (`Encoding_proofs`)

| theorem | statement | assumptions |
|---|---|---|
| `CRCSafe` | `CRCSpec => []CRCIsStandard` | none |
| `StoredWordsSafe` | `CRCSpec => []StoredWordsReadBack` | none |
| `PaddingSafe` | `SHASpec => []PaddingIsStandard` | none |

The messages are arbitrary sequences of bytes of any length, and the chunks of
`update` arbitrary. `StoredWordsSafe` rests on lemmas about every word: what
`putLE` stores `getLE` reads (`GetPut`), and the two halves of a 64-bit
timestamp are its bytes (`StoredTimestamp`).

**The checksum.** Code and standard differ in three ways, and a part of the
proof is about each.

* *Table.* A step of the division (`Divided`) is linear over exclusive or
  (`DividedXor`), and eight steps only shift what lies above the lowest eight
  bits (`Divided8High`). Splitting the word there gives `TableStep`: the table
  lookup and the shift are eight steps.
* *Bit order.* The code keeps the highest exponent in bit 0. `MirrorStep`: one
  step of the long division, mirrored, is one step of the code, because the
  code's constant is the mirror of G without its highest term.
* *Order of work.* The standard divides the whole message, the code byte by
  byte. A message with one more byte is the old one eight places higher with
  the byte behind it (`DividendAppend`), the division of the one goes as that of
  the other (`ReducedExtended`) down to exponent 39, and eight steps are left.

The invariant of the loop is therefore `CRCInv`: `crc` is the mirror of the
remainder of the bytes read so far (`RemainderAppend` is its step).

**The padding.** `SHAInv`: after h = 64n + r bytes, `m_state` is the first n
blocks of the message, the buffer begins with the r bytes that follow, and the
two counters are r and 512n. A turn of `update`'s loop preserves it
(`AbsorbStep`), hence the loop does, over chunks of any length. For the end of
the message there are two cases, `r <= 55` and `r > 55`: the zeros that the
standard chooses are 55 - r or 119 - r (`ZerosChosen`), and in each case the
blocks of the padded message are compared with the buffers of `digest` byte by
byte (`PaddedBlocks`, `DigestBlocks`).

### Recursion

What recovery computes is a recursive function over the cells of the log
(`Recovering`, `Replayed`), as are the sum of `getAverage` (`Sums`), the
division in `CRC32` and the loop of `update`; the length of a snapshot is a fold
over a set. The induction theorems of the library take an operator, which the
provers cannot instantiate; `Iteration_proofs` states induction with sets
instead: `IntervalInduction` (a set with `m`, and with `i + 1` for each `i` below
`n` in it, contains `m..n`) from `SmallestMember`, which rests on
well-foundedness of the order on the naturals, and `SubsetInduction` from it by
cardinality. `IterationExists` gives that a loop has a value after each turn,
`FoldExists` that a fold has one for each subset, hence that these functions
satisfy their defining equations.

**Only model-checked.** Liveness (`CallsReturn`, `EngineReturns`,
`CallsComeBack`, `ToolReturns`), which the proof system does not treat. Every
invariant, every action property and both refinements of the passing runs are
theorems.

## 5. Not modelled

* The compression function of SHA-256: a fixed composition of word operations
  whose only reference definition is the same composition. `doubleToBits` and
  its inverse, which copy eight bytes.
* File systems that extend a file before its data is there; the directory entry
  of a new log, which the code never syncs; kernels that drop dirty pages after
  a failed `fsync()`. File systems differ in all three, and a model of any one
  choice would say little about the code.
* The comparison of a log with an anchored checkpoint: the repository exports
  checkpoints and leaves the comparison to others.
* `recover()` on an engine of `makeInMemory()`, which dereferences a null
  pointer and which nothing in the repository calls.
* A system clock that is set back. `std::bad_alloc`, in every call.
* main, benchmark and fuzzers, and what the demo prints: clients with no state
  of their own.

## 6. Plan

Done, in this order: the log with its failures; its invariants; the proofs of
the chain invariant and of the group commit; snapshot and engine composed with
the log; the promise to survive power cuts, and its abstract specification
`DurableStore`; threads, lock and timer with `AtomicStore`; the tool and damaged
storage; the encodings, and the proof of `load`'s bounds; the proofs of the
engine's durability and of its refinement of `DurableStore`, of the threads'
invariants and of their refinement of `AtomicStore`, and of the tool's verdicts;
the proofs that the encodings are those of the standards and that `load` consumes
what `save` writes; threads and tool with the failure of every system call.

What would come next: `ExitZeroMeansComplete` with power losses, for which
`truth` would have to follow what the disk kept; an engine that is given the
checkpoint it exported, if the code learns to compare with one.
