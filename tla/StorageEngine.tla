---------------------------- MODULE StorageEngine ----------------------------
(***************************************************************************)
(* class StorageEngine: the map in memory over the write-ahead log and the *)
(* snapshot, from construction through set(), remove(), snapshot() and     *)
(* recover() to the end of the process, and again.                         *)
(*                                                                         *)
(* Every operation that changes the map holds m_mutex exclusively for the  *)
(* whole call, so there is at most one in progress: op.  The readers take  *)
(* the mutex shared and see m_data between operations.                     *)
(***************************************************************************)
EXTENDS WAL, Snapshot

CONSTANT MaxOps         \* bound: entries ever written to the log

ASSUME EngineAssumption == MaxOps \in Nat

VARIABLES
    m_data,             \* StorageEngine::m_data
    m_snapshotEpoch,    \* StorageEngine::m_snapshotEpoch; -1 for nullopt
    op,                 \* the call in progress
    clock,              \* the system clock: a new value for every reading
    journal             \* history variable: see Promise

engineVars == <<m_data, m_snapshotEpoch, op>>
ghostVars == <<clock, journal>>
vars == <<walVars, snapVars, engineVars, ghostVars>>

NoOp == [call |-> "none"]
Idle == op = NoOp /\ wal_pc = "ready"

-----------------------------------------------------------------------------
(* The journal is the sequence of contents that the operations written to  *)
(* the log give, with full histories.  It starts with the contents that a  *)
(* completed fsync() promises to keep; Promise drops what came before.     *)

Promise == journal' = <<Last(journal)>>
Logged(data) == journal' = Append(journal, data)

-----------------------------------------------------------------------------
EngineInit ==
    /\ WALInit /\ SnapInit
    /\ m_data = NoData /\ m_snapshotEpoch = -1 /\ op = NoOp
    /\ clock = 0 /\ journal = <<NoData>>

(* The members of an engine that is not there. *)
EngineGone ==
    /\ m_data' = NoData /\ m_snapshotEpoch' = -1 /\ op' = NoOp

(* The constructor's initialisation of m_wal. *)
ConstructWAL ==
    /\ op = NoOp
    /\ WALOpen
    /\ UNCHANGED <<snapVars, engineVars, ghostVars>>

(* The epoch that fences off a snapshot's entries; 0 when there is none. *)
FenceEpoch_SameEpoch(img) == img.epoch
FenceEpoch(img) == img.epoch + 1

(* recover(), called by the constructor or on a running engine, up to the  *)
(* call of WAL::recover().                                                 *)
recover ==
    /\ op = NoOp
    /\ \E img \in LoadResults :
         /\ m_data' = Capped(img.state)
         /\ m_snapshotEpoch' = img.epoch
         /\ m_epoch' = FenceEpoch(img)
         /\ WalkStart(img.epoch, TRUE)
    /\ op' = [call |-> IF wal_pc = "open" THEN "construct" ELSE "recover"]
    /\ UNCHANGED <<diskVars, m_seq, m_headHash, m_pendingWrites, status, snapVars, ghostVars>>

RecoverEntry ==
    /\ WalkEntry
    /\ m_data' = IF Visited THEN Replay(m_data, walFile[walk.pos].body) ELSE m_data
    /\ UNCHANGED <<m_snapshotEpoch, op, snapVars, ghostVars>>

RecoverReturn ==
    /\ WalkEnd \/ WalkTorn
    /\ op' = NoOp
    /\ UNCHANGED <<m_data, m_snapshotEpoch, snapVars, ghostVars>>

(* WAL::recover() reports success after a call of its own has failed. *)
RecoverMisled ==
    /\ WalkFails
    /\ op' = NoOp
    /\ UNCHANGED <<m_data, m_snapshotEpoch, snapVars, ghostVars>>

(* recover() throws; a constructor then destroys m_wal. *)
RecoverThrows ==
    /\ WalkRefused
    /\ op' = IF op.call = "construct" THEN [call |-> "unwind"] ELSE NoOp
    /\ UNCHANGED <<m_data, m_snapshotEpoch, snapVars, ghostVars>>

Unwind ==
    /\ op.call = "unwind"
    /\ Close
    /\ EngineGone
    /\ UNCHANGED <<snapVars, ghostVars>>

-----------------------------------------------------------------------------
(* set() and remove().  The clock's reading keeps records apart.           *)

MayWrite == Idle /\ clock < MaxOps /\ Len(walFile) < MaxCells

SizesFit(key, value) == KeySize[key] <= kMaxFieldSize /\ ValueSize[value] <= kMaxValueSize

set(key, value, duration) ==
    LET now == clock + 1
        record == [value |-> value, duration |-> duration, timestamp |-> now]
    IN  /\ MayWrite
        /\ SizesFit(key, value)
        /\ AppendWrite("PUT", key, serialize(duration, value), now)
        /\ op' = [call |-> "set", key |-> key, record |-> record]
        /\ clock' = now
        /\ Logged([Last(journal) EXCEPT ![key] = Append(@, record)])
        /\ UNCHANGED <<m_data, m_snapshotEpoch, snapVars>>

remove(key) ==
    /\ MayWrite
    /\ AppendWrite("DELETE", key, EmptyBlob, clock + 1)
    /\ op' = [call |-> "remove", key |-> key]
    /\ clock' = clock + 1
    /\ Logged([Last(journal) EXCEPT ![key] = <<>>])
    /\ UNCHANGED <<m_data, m_snapshotEpoch, snapVars>>

(* append() throws out of set() or remove() before anything is complete. *)
WriteThrows(key, blob) ==
    /\ MayWrite
    /\ AppendWriteFails(key, blob)
    /\ UNCHANGED <<snapVars, engineVars, ghostVars>>

WriteKilled(key, blob) ==
    /\ MayWrite
    /\ AppendKilled(key, blob)
    /\ SnapKill /\ EngineGone
    /\ UNCHANGED ghostVars

(* append() returned: the map follows the log. *)
Acknowledge ==
    /\ op.call \in {"set", "remove"}
    /\ AppendReturn
    /\ m_data' = IF op.call = "set" THEN appendCapped(m_data, op.key, op.record)
                                    ELSE erase(m_data, op.key)
    /\ op' = NoOp
    /\ IF SyncDue THEN Promise ELSE UNCHANGED journal
    /\ UNCHANGED <<m_snapshotEpoch, clock, snapVars>>

(* append() throws after the entry is written: the map does not follow. *)
SyncThrows ==
    /\ op.call \in {"set", "remove"}
    /\ AppendSyncFails
    /\ op' = NoOp
    /\ UNCHANGED <<m_data, m_snapshotEpoch, snapVars, ghostVars>>

-----------------------------------------------------------------------------
(* snapshot() *)

(* exportSnapshotState() copies the map record by record. *)
snapshot ==
    /\ Idle /\ m_epoch < MaxEpoch
    /\ save([epoch |-> m_epoch, state |-> m_data])
    /\ op' = [call |-> "snapshot"]
    /\ UNCHANGED <<m_data, m_snapshotEpoch, walVars, ghostVars>>

SnapshotSaving ==
    /\ SaveWrite \/ SaveSync \/ SaveRename
    /\ UNCHANGED <<engineVars, walVars, ghostVars>>

(* The image is durable: it is promised whatever happens to the log. *)
SnapshotSaved ==
    /\ SaveDirSync
    /\ Promise
    /\ UNCHANGED <<clock, engineVars, walVars>>

SnapshotThrows ==
    /\ SaveFails
    /\ op' = NoOp
    /\ UNCHANGED <<m_data, m_snapshotEpoch, walVars, ghostVars>>

SnapshotRotate ==
    /\ SaveDone
    /\ m_snapshotEpoch' = image.epoch
    /\ m_epoch' = FenceEpoch(image)
    /\ ResetSync
    /\ UNCHANGED <<m_data, op, m_seq, m_headHash, m_pendingWrites, walk, status, ghostVars>>

SnapshotRotating ==
    /\ ResetTruncate \/ ResetHeader
    /\ UNCHANGED <<snapVars, engineVars, ghostVars>>

SnapshotReturn ==
    /\ ResetReturn
    /\ op' = NoOp
    /\ UNCHANGED <<m_data, m_snapshotEpoch, snapVars, ghostVars>>

(* reset() returned false, and snapshot() throws with the image in place. *)
RotationThrows ==
    /\ ResetFails
    /\ op' = NoOp
    /\ UNCHANGED <<m_data, m_snapshotEpoch, snapVars, ghostVars>>

-----------------------------------------------------------------------------
(* The destructor. *)
Shutdown ==
    /\ Idle
    /\ Close
    /\ EngineGone
    /\ IF m_pendingWrites > 0 /\ "close fsync" \notin Failures THEN Promise ELSE UNCHANGED journal
    /\ UNCHANGED <<clock, snapVars>>

EngineKill ==
    /\ Kill /\ SnapKill /\ EngineGone
    /\ UNCHANGED ghostVars

(* What recover() makes of a snapshot and the first i cells of a log, and  *)
(* of all of them.                                                         *)
Recovering(snap, f) ==
    LET after[i \in 0..Len(f)] ==
          IF i = 0 THEN snap.state
          ELSE IF f[i].kind = "entry" /\ f[i].body.epoch > snap.epoch
               THEN Replay(after[i - 1], f[i].body)
               ELSE after[i - 1]
    IN  after

Recoverable(snap, f) == Recovering(snap, f)[Len(f)]

(* The journal goes on from the contents that the disk has left. *)
EnginePowerLoss(snap, f) ==
    /\ PowerLoss(f) /\ SnapPowerLoss(snap) /\ EngineGone
    /\ journal' = LET left == {i \in 1..Len(journal) :
                                 Capped(journal[i]) = Recoverable(snap, f)}
                  IN  <<IF left = {} THEN Recoverable(snap, f)
                        ELSE journal[CHOOSE i \in left : TRUE]>>
    /\ UNCHANGED clock

-----------------------------------------------------------------------------
EngineRecovery == RecoverEntry \/ RecoverReturn \/ RecoverThrows \/ Unwind
EngineSnapshot ==
    \/ SnapshotSaving \/ SnapshotSaved
    \/ SnapshotRotate \/ SnapshotRotating \/ SnapshotReturn

EngineNext ==
    \/ ConstructWAL \/ recover \/ EngineRecovery \/ RecoverMisled
    \/ \E key \in Keys :
         \/ \E value \in Values, duration \in Durations : set(key, value, duration)
         \/ remove(key)
         \/ \E blob \in Blobs : WriteThrows(key, blob) \/ WriteKilled(key, blob)
    \/ Acknowledge \/ SyncThrows
    \/ snapshot \/ EngineSnapshot \/ SnapshotThrows \/ RotationThrows
    \/ Shutdown \/ EngineKill
    \/ \E snap \in SnapSurvivors, f \in Survivors : EnginePowerLoss(snap, f)

(* A call in progress runs on to its end, with no failure needed for it. *)
EngineFairness ==
    WF_vars(EngineRecovery) /\ WF_vars(Acknowledge) /\ WF_vars(EngineSnapshot)

EngineSpec == EngineInit /\ [][EngineNext]_vars /\ EngineFairness

-----------------------------------------------------------------------------
(* Properties *)

(* Every variable of the engine has its type. *)
EngineTypeOK ==
    /\ WALTypeOK
    /\ \A snap \in SnapSurvivors \cup {image} :
         snap.epoch \in Nat \cup {-1} /\ snap.state \in Contents
    /\ m_data \in Contents
    /\ m_snapshotEpoch \in Nat \cup {-1}
    /\ op.call \in {"none", "construct", "recover", "unwind", "set", "remove", "snapshot"}
    /\ clock \in 0..MaxOps
    /\ journal \in Seq(Contents) /\ journal # <<>>

(* What readers see is what the logged operations give, the newest records *)
(* of each history up to the cap, across crashes, restarts and rotations:  *)
(* recovery neither drops, repeats nor reorders an operation.              *)
LiveMatchesJournal == Idle => m_data = Capped(Last(journal))

(* "The post-restart state matches the live state": stopping the process   *)
(* between two calls and starting it again gives the same contents.        *)
LiveIsRecoverable == Idle => Recoverable(snapFile, walFile) = m_data

(* A power cut at any instant leaves a snapshot and a log from which       *)
(* recovery rebuilds the contents of a moment not before the last          *)
(* completed fsync() or snapshot: no promised operation is lost, and no    *)
(* operation survives without those before it.                             *)
PowerCutKeepsPromise ==
    \A snap \in SnapSurvivors, f \in Survivors :
      \E i \in 1..Len(journal) : Recoverable(snap, f) = Capped(journal[i])

(* The engine implements the store that DurableStore describes: every step *)
(* of logging, acknowledging, saving, rotating, crashing and recovering is *)
(* a step of that store or invisible to its callers.                       *)
Serving == Idle \/ op.call \in {"set", "remove", "snapshot"}

Durable == INSTANCE DurableStore WITH
             Stamps <- 1..MaxOps, up <- Serving,
             live <- IF Serving THEN m_data ELSE NoData

ImplementsDurableStore == Durable!StoreSpec

(* Every call returns or throws: recovery, the writes and snapshot(). *)
EngineReturns == op # NoOp ~> op = NoOp

(* A snapshot() that returns normally leaves files from which recovery     *)
(* rebuilds the live contents even after a power cut, and a chain that can *)
(* be continued, whatever calls failed before.                             *)
SnapshotHeals ==
    [][ResetReturn => /\ \A snap \in SnapSurvivors', f \in Survivors' :
                           Recoverable(snap, f) = m_data'
                      /\ AtHead']_vars

-----------------------------------------------------------------------------
(* The inductive invariant behind LiveMatchesJournal, LiveIsRecoverable,   *)
(* PowerCutKeepsPromise and ImplementsDurableStore.                        *)

(* Where the log and save() are in each call of the engine. *)
Rotating == wal_pc \in {"resetting", "truncated", "rotated"}

CallsInProgress ==
    \/ op = NoOp /\ wal_pc \in {"closed", "creating", "opening", "open", "ready"} /\ save_pc = "none"
    \/ op.call \in {"construct", "recover"} /\ wal_pc = "walking" /\ save_pc = "none"
    \/ op.call \in {"set", "remove"} /\ wal_pc = "appended" /\ save_pc = "none"
    \/ op.call = "snapshot" /\ wal_pc = "ready"
         /\ save_pc \in {"write", "fsync", "rename", "dirfsync", "saved"}
    \/ op.call = "snapshot" /\ Rotating /\ save_pc = "none"

(* The entries of the log, and of what a power loss may leave of it. *)
Entries(f) == {f[i] : i \in {j \in 1..Len(f) : f[j].kind = "entry"}}
OnDisk == UNION {Entries(f) : f \in walOld \cup {walFile}}

(* The new image is at the snapshot's path, and the log not yet in use.    *)
Covered == save_pc \in {"dirfsync", "saved"} \/ Rotating

(* The epochs: no entry is ahead of the current snapshot by more than one, *)
(* new entries are ahead of every snapshot that may be found, and an image *)
(* that has just taken the snapshot's place fences every entry off.        *)
EpochsFence ==
    /\ \A c \in OnDisk : c.body.epoch <= snapFile.epoch + 1
    /\ "power" \in Failures => \A c \in OnDisk, snap \in snapOld : c.body.epoch <= snap.epoch + 1
    /\ \A snap \in snapOld : snap.epoch <= snapFile.epoch
    /\ wal_pc \notin {"closed", "creating", "opening", "open"} =>
         m_epoch = IF save_pc \in {"dirfsync", "saved"} THEN snapFile.epoch ELSE snapFile.epoch + 1
    /\ Covered => \A c \in OnDisk : c.body.epoch <= snapFile.epoch

(* The snapshot's file: the image on its way is that of the live contents, *)
(* its bytes are on disk when it is renamed, and a previous snapshot can   *)
(* come back only until the directory is.                                  *)
ImageInPlace ==
    /\ \A snap \in SnapSurvivors : Capped(snap.state) = snap.state
    /\ save_pc # "none" => image = [epoch |-> m_epoch, state |-> m_data]
    /\ save_pc \in {"rename", "dirfsync", "saved"} => tmpSynced
    /\ save_pc \in {"dirfsync", "saved"} => snapFile = image
    /\ Rotating => snapFile.state = m_data
    /\ save_pc = "saved" \/ Rotating => snapOld = {}
    /\ snapOld # {} => save_pc = "dirfsync" \/ "kill" \in Failures

(* The map in memory: in step with the journal, one operation behind it,   *)
(* or being rebuilt from the disk.                                         *)
MapInStep ==
    /\ Idle \/ op.call = "snapshot" => m_data = Capped(Last(journal))
    /\ op.call = "set" => /\ op.key \in Keys /\ op.record \in Record
                          /\ appendCapped(m_data, op.key, op.record) = Capped(Last(journal))
    /\ op.call = "remove" => op.key \in Keys /\ erase(m_data, op.key) = Capped(Last(journal))
    /\ wal_pc = "walking" => /\ walk.minEpoch = snapFile.epoch /\ walk.truncate
                             /\ m_data = Recovering(snapFile, walFile)[walk.pos - 1]

DurabilityInv ==
    /\ CallsInProgress
    /\ \A c \in OnDisk : c.body.type = "PUT" => c.body.blob # EmptyBlob
    /\ EpochsFence /\ ImageInPlace /\ MapInStep
    /\ \A snap \in SnapSurvivors : Recoverable(snap, walFile) = Capped(Last(journal))
    /\ PowerCutKeepsPromise

(* The failures after which it holds: of append()'s write and of every     *)
(* call of reset() and save() that leaves the files as they were.  Kills   *)
(* and power losses are covered, but not both in one run: a kill between   *)
(* rename() and the fsync() of the directory, and a power loss after the   *)
(* next start, bring back a snapshot that is two epochs behind the log.    *)
DurabilitySafe ==
    /\ Failures \subseteq ChainSafeFailures \ {"append fsync"}
    /\ ~({"kill", "power"} \subseteq Failures)
    /\ SnapFailures \subseteq {"write", "fsync", "rename"}

=============================================================================
