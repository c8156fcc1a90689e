-------------------------------- MODULE WAL --------------------------------
(***************************************************************************)
(* The write-ahead log: class persistence::WAL over a file opened with     *)
(* O_APPEND, on a machine that may be killed or lose power between any two *)
(* system calls.                                                           *)
(*                                                                         *)
(* The file is a sequence of cells: the 16-byte header, complete entries,  *)
(* and parts, which are what an interrupted write leaves.  SHA-256 is      *)
(* taken to be collision free, so the chain hash of an entry is modelled   *)
(* by the sequence of everything it hashes, and CRC-32 to tell a complete  *)
(* entry from a misread one.                                               *)
(*                                                                         *)
(* wal_pc says which system call the holder of WAL::m_mutex makes next, so *)
(* each action is one system call with the assignments that follow it.     *)
(***************************************************************************)
EXTENDS Records

CONSTANTS
    SyncEveryN,     \* the constructor's syncEveryN argument
    Failures,       \* the failures the environment may produce
    MaxCells,       \* bound: cells in the file, entries in a chain, unsynced appends
    MaxEpoch        \* bound: snapshot epochs

(* The failures of the environment that the code's error paths distinguish. *)
FailureKinds ==
    {"kill", "power", "torn header",
     "write", "partial write", "append fsync",
     "open header", "open fsync", "close fsync",
     "reset fsync", "ftruncate", "reset header", "reset header fsync",
     "fstat", "read", "recover ftruncate"}

ASSUME WALAssumption ==
    /\ SyncEveryN \in Nat
    /\ Failures \subseteq FailureKinds
    /\ MaxCells \in Nat
    /\ MaxEpoch \in Nat

VARIABLES
    walFile,            \* the file as read() sees it: a sequence of cells
    walFloor,           \* cells of walFile that a power loss cannot take
    walOld,             \* contents from before a truncation not yet on disk
    wal_pc,             \* where the current call on the WAL object is
    m_epoch,            \* WAL::m_epoch
    m_seq,              \* WAL::m_seq
    m_headHash,         \* WAL::m_headHash
    m_pendingWrites,    \* WAL::m_pendingWrites
    walk,               \* the locals of walkChain()
    status              \* what the last constructor, recover() or verify() reported

diskVars == <<walFile, walFloor, walOld>>
handleVars == <<m_epoch, m_seq, m_headHash, m_pendingWrites>>
walVars == <<diskVars, wal_pc, handleVars, walk, status>>

-----------------------------------------------------------------------------
(* Entries and the hash chain. *)

Body == [seq : Nat, timestamp : Nat, epoch : Nat, type : RecordType,
         key : Keys, blob : Blobs]
Hash == Seq(Body)

Header == [kind |-> "header"]
Part == [kind |-> "part"]
Entry == [kind : {"entry"}, body : Body, hash : Hash]
Cell == {Header, Part} \cup Entry

(* An all-zero digest, and chain_hash = SHA256(prev_hash | fixed | key | value). *)
ZeroHash == <<>>
ChainHash_Unlinked(prev, body) == <<body>>
ChainHash(prev, body) == Append(prev, body)

(* The size check of append(), and the one of walkChain() on the lengths it reads. *)
FieldsFit_KeyForgotten(key, blob) == blob.size <= kMaxFieldSize
FieldsFit(key, blob) ==
    /\ KeySize[key] <= kMaxFieldSize
    /\ blob.size <= kMaxFieldSize

Oversize(body) ==
    KeySize[body.key] > kMaxFieldSize \/ body.blob.size > kMaxFieldSize

(* The constructor's clamp. *)
m_syncEveryN == IF SyncEveryN < 1 THEN 1 ELSE SyncEveryN

-----------------------------------------------------------------------------
(* The file under POSIX: appends and truncations are seen by every later   *)
(* read at once, and survive a power loss only once fsync() returned.      *)

FileAppend(cell) ==
    /\ walFile' = Append(walFile, cell)
    /\ UNCHANGED <<walFloor, walOld>>

FileSync ==
    /\ walFloor' = Len(walFile)
    /\ walOld' = {}
    /\ UNCHANGED walFile

(* What may be left of f when the n first cells are safe: any prefix that  *)
(* keeps them, with part of the next cell or without.  A header lies in    *)
(* one sector and is only torn when the environment tears headers.         *)
Prefixes(f, n) ==
    {SubSeq(f, 1, i) : i \in n..Len(f)}
      \cup {Append(SubSeq(f, 1, i), Part) :
                i \in {j \in n..(Len(f) - 1) : j > 0 \/ "torn header" \in Failures}}

(* Every content of the file that a power loss may leave. *)
Survivors == walOld \cup Prefixes(walFile, walFloor)

(* The contents from before the cut stay possible after a power loss, and  *)
(* are kept only where there is one.                                       *)
FileTruncateTo(f) ==
    /\ walFile' = f
    /\ walFloor' = IF walFloor < Len(f) THEN walFloor ELSE Len(f)
    /\ walOld' = IF "power" \in Failures THEN Survivors ELSE {}

-----------------------------------------------------------------------------
(* The locals of walkChain(), with minEpochExclusive as -1 for nullopt and *)
(* the state to which the call returns; and their value outside a call.    *)
WalkLocals == [pos : Nat \ {0}, prevHash : Hash, expectedSeq : Nat,
               minEpoch : Nat \cup {-1}, truncate : BOOLEAN,
               back : {"closed", "open", "ready"}]

NoWalk == [pos |-> 2, prevHash |-> ZeroHash, expectedSeq |-> 0,
           minEpoch |-> -1, truncate |-> FALSE, back |-> "closed"]

WALInit ==
    /\ walFile = <<>> /\ walFloor = 0 /\ walOld = {}
    /\ wal_pc = "closed"
    /\ m_epoch = 0 /\ m_seq = 0 /\ m_headHash = ZeroHash /\ m_pendingWrites = 0
    /\ walk = NoWalk
    /\ status = "none"

(* The object is gone; the members have their initial values when the next *)
(* one is constructed.                                                     *)
HandleReset ==
    /\ m_epoch' = 0 /\ m_seq' = 0 /\ m_headHash' = ZeroHash /\ m_pendingWrites' = 0
    /\ walk' = NoWalk

-----------------------------------------------------------------------------
(* WAL::WAL().  A file that fstat() finds empty gets a header, wherever    *)
(* its end is by then; any other file must start with one.                 *)

OpenEmpty ==
    /\ wal_pc = "closed" /\ walFile = <<>>
    /\ wal_pc' = "creating"
    /\ UNCHANGED <<diskVars, handleVars, walk, status>>

OpenCreate ==
    /\ wal_pc = "creating"
    /\ FileAppend(Header)
    /\ wal_pc' = "opening"
    /\ UNCHANGED <<handleVars, walk, status>>

OpenCreateFails ==
    /\ "open header" \in Failures
    /\ wal_pc = "creating"
    /\ ("torn header" \in Failures /\ FileAppend(Part)) \/ UNCHANGED diskVars
    /\ wal_pc' = "closed"
    /\ UNCHANGED <<handleVars, walk, status>>

OpenSync ==
    /\ wal_pc = "opening"
    /\ FileSync
    /\ wal_pc' = "open"
    /\ UNCHANGED <<handleVars, walk, status>>

OpenSyncFails ==
    /\ "open fsync" \in Failures
    /\ wal_pc = "opening"
    /\ wal_pc' = "closed"
    /\ UNCHANGED <<diskVars, handleVars, walk, status>>

validateHeader == walFile[1] = Header

OpenExisting ==
    /\ wal_pc = "closed" /\ walFile # <<>>
    /\ validateHeader
    /\ wal_pc' = "open"
    /\ UNCHANGED <<diskVars, handleVars, walk, status>>

OpenRefused ==
    /\ wal_pc = "closed" /\ walFile # <<>>
    /\ ~validateHeader \/ "read" \in Failures
    /\ status' = "BadHeader"
    /\ UNCHANGED <<diskVars, wal_pc, handleVars, walk>>

(* WAL::close(), which the destructor calls; a failed fsync() goes unnoticed. *)
CloseFlush_Forgotten == UNCHANGED diskVars
CloseFlush ==
    \/ m_pendingWrites > 0 /\ FileSync
    \/ (m_pendingWrites > 0 => "close fsync" \in Failures) /\ UNCHANGED diskVars

Close ==
    /\ wal_pc \in {"open", "ready"}
    /\ CloseFlush
    /\ wal_pc' = "closed"
    /\ HandleReset
    /\ UNCHANGED status

-----------------------------------------------------------------------------
(* WAL::append() *)

NewBody_SeqBehind(type, key, blob, timestamp) ==
    [seq |-> m_seq - 1, timestamp |-> timestamp, epoch |-> m_epoch, type |-> type,
     key |-> key, blob |-> blob]
NewBody(type, key, blob, timestamp) ==
    [seq |-> m_seq, timestamp |-> timestamp, epoch |-> m_epoch, type |-> type,
     key |-> key, blob |-> blob]

(* The single write() of CRC and entry, and the bookkeeping after it. *)
AppendWrite(type, key, blob, timestamp) ==
    LET body == NewBody(type, key, blob, timestamp)
        hash == ChainHash(m_headHash, body)
    IN  /\ wal_pc = "ready"
        /\ FieldsFit(key, blob)
        /\ FileAppend([kind |-> "entry", body |-> body, hash |-> hash])
        /\ m_headHash' = hash
        /\ m_seq' = m_seq + 1
        /\ m_pendingWrites' = m_pendingWrites + 1
        /\ wal_pc' = "appended"
        /\ UNCHANGED <<m_epoch, walk, status>>

(* writeExact() fails, perhaps after some bytes; append() throws. *)
AppendWriteFails(key, blob) ==
    /\ wal_pc = "ready"
    /\ FieldsFit(key, blob)
    /\ \/ "write" \in Failures /\ UNCHANGED diskVars
       \/ "partial write" \in Failures /\ FileAppend(Part)
    /\ UNCHANGED <<wal_pc, handleVars, walk, status>>

(* The process is killed inside writeExact(), between two write() calls. *)
AppendKilled(key, blob) ==
    /\ "kill" \in Failures
    /\ wal_pc = "ready"
    /\ FieldsFit(key, blob)
    /\ FileAppend(Part)
    /\ wal_pc' = "closed"
    /\ HandleReset
    /\ status' = "none"

(* The group commit: fsync() once m_syncEveryN writes are pending. *)
SyncDue_OffByOne == m_pendingWrites > m_syncEveryN
SyncDue == m_pendingWrites >= m_syncEveryN

AppendReturn ==
    /\ wal_pc = "appended"
    /\ IF SyncDue THEN FileSync /\ m_pendingWrites' = 0
                  ELSE UNCHANGED <<diskVars, m_pendingWrites>>
    /\ wal_pc' = "ready"
    /\ UNCHANGED <<m_epoch, m_seq, m_headHash, walk, status>>

AppendSyncFails ==
    /\ "append fsync" \in Failures
    /\ wal_pc = "appended" /\ SyncDue
    /\ wal_pc' = "ready"
    /\ UNCHANGED <<diskVars, handleVars, walk, status>>

-----------------------------------------------------------------------------
(* WAL::walkChain(), called by recover() and by verify().  The walk seeks  *)
(* past the first 16 bytes, which misses the cell boundaries when the file *)
(* does not start with a header: it then begins inside cell 1.             *)

WalkStart(minEpoch, truncate) ==
    /\ wal_pc \in {"open", "ready"}
    /\ walk' = [pos |-> IF walFile = <<>> \/ walFile[1] = Header THEN 2 ELSE 1,
                prevHash |-> ZeroHash, expectedSeq |-> 0,
                minEpoch |-> minEpoch, truncate |-> truncate, back |-> wal_pc]
    /\ wal_pc' = "walking"

(* The checks on an entry that is completely there, in the code's order. *)
EntryVerdict_NoHash(cell) ==
    IF Oversize(cell.body) THEN "Malformed"
    ELSE IF cell.body.seq # walk.expectedSeq THEN "Tampered"
    ELSE "Ok"
EntryVerdict(cell) ==
    IF Oversize(cell.body) THEN "Malformed"
    ELSE IF cell.hash # ChainHash(walk.prevHash, cell.body) THEN "Tampered"
    ELSE IF cell.body.seq # walk.expectedSeq THEN "Tampered"
    ELSE "Ok"

(* Bytes that are not an entry read as arbitrary lengths and checksums: at *)
(* the end of the file they are a torn tail, with cells after them they    *)
(* can look like any defect.                                               *)
ReadResults_TornIsTampered ==
    LET cell == walFile[walk.pos] IN
    IF walk.pos > 1 /\ cell.kind = "entry" THEN {EntryVerdict(cell)}
    ELSE {"Malformed", "Tampered"}
ReadResults ==
    LET cell == walFile[walk.pos] IN
    IF walk.pos > 1 /\ cell.kind = "entry" THEN {EntryVerdict(cell)}
    ELSE IF walk.pos > 1 /\ walk.pos = Len(walFile) THEN {"TruncatedTail"}
    ELSE {"TruncatedTail", "Malformed", "Tampered"}

(* The loop condition fails: no byte is left to read. *)
WalkAtEnd == walk.pos > Len(walFile) \/ (walk.pos = 1 /\ walFile = <<Part>>)

(* An entry verified; the visitor sees it when Visited. *)
Visited_Inclusive == walFile[walk.pos].body.epoch >= walk.minEpoch
Visited == walFile[walk.pos].body.epoch > walk.minEpoch

WalkEntry_NoProgress ==
    /\ wal_pc = "walking" /\ ~WalkAtEnd
    /\ "Ok" \in ReadResults
    /\ UNCHANGED walVars

WalkEntry ==
    /\ wal_pc = "walking" /\ ~WalkAtEnd
    /\ "Ok" \in ReadResults
    /\ walk' = [walk EXCEPT !.pos = walk.pos + 1,
                            !.prevHash = walFile[walk.pos].hash,
                            !.expectedSeq = walFile[walk.pos].body.seq + 1]
    /\ UNCHANGED <<diskVars, wal_pc, handleVars, status>>

(* recover() adopts the chain state it verified; verify() does not. *)
Adopt_SeqOnly ==
    IF walk.truncate
    THEN /\ m_seq' = walk.expectedSeq
         /\ wal_pc' = "ready"
         /\ UNCHANGED <<m_headHash, m_epoch, m_pendingWrites>>
    ELSE wal_pc' = walk.back /\ UNCHANGED handleVars

Adopt ==
    IF walk.truncate
    THEN /\ m_seq' = walk.expectedSeq
         /\ m_headHash' = walk.prevHash
         /\ wal_pc' = "ready"
         /\ UNCHANGED <<m_epoch, m_pendingWrites>>
    ELSE wal_pc' = walk.back /\ UNCHANGED handleVars

WalkEnd ==
    /\ wal_pc = "walking" /\ WalkAtEnd
    /\ status' = "Ok"
    /\ walk' = NoWalk
    /\ Adopt
    /\ UNCHANGED diskVars

(* fstat() fails: walkChain() returns its initial result, Ok with 0 entries. *)
WalkStatFails ==
    /\ "fstat" \in Failures
    /\ wal_pc = "walking" /\ walk.expectedSeq = 0 /\ walk.prevHash = ZeroHash
    /\ status' = "Ok"
    /\ walk' = NoWalk
    /\ Adopt
    /\ UNCHANGED diskVars

(* What the file is cut to: the bytes before the entry being read. *)
VerifiedPrefix_OneShort ==
    IF walk.pos = 1 THEN <<Part>> ELSE SubSeq(walFile, 1, walk.pos - 2)
VerifiedPrefix == IF walk.pos = 1 THEN <<Part>> ELSE SubSeq(walFile, 1, walk.pos - 1)

(* The loop was left with torn set. *)
ReturnTorn ==
    /\ status' = "TruncatedTail"
    /\ walk' = NoWalk
    /\ Adopt
    /\ \/ walk.truncate /\ FileTruncateTo(VerifiedPrefix)
       \/ (walk.truncate => "recover ftruncate" \in Failures) /\ UNCHANGED diskVars

WalkTorn ==
    /\ wal_pc = "walking" /\ ~WalkAtEnd
    /\ "TruncatedTail" \in ReadResults
    /\ ReturnTorn

(* A read() that fails counts as the end of the file. *)
WalkReadFails ==
    /\ "read" \in Failures
    /\ wal_pc = "walking" /\ ~WalkAtEnd
    /\ ReturnTorn

WalkRefused ==
    /\ wal_pc = "walking" /\ ~WalkAtEnd
    /\ \E s \in {"Malformed", "Tampered"} \cap ReadResults : status' = s
    /\ walk' = NoWalk
    /\ wal_pc' = walk.back
    /\ UNCHANGED <<diskVars, handleVars>>

-----------------------------------------------------------------------------
(* WAL::reset() *)

ResetSync ==
    /\ wal_pc = "ready"
    /\ FileSync \/ ("reset fsync" \in Failures /\ UNCHANGED diskVars)
    /\ wal_pc' = "resetting"

ResetTruncate ==
    /\ wal_pc = "resetting"
    /\ FileTruncateTo(<<>>)
    /\ wal_pc' = "truncated"
    /\ UNCHANGED <<handleVars, walk, status>>

ResetHeader ==
    /\ wal_pc = "truncated"
    /\ FileAppend(Header)
    /\ wal_pc' = "rotated"
    /\ UNCHANGED <<handleVars, walk, status>>

ResetReturn_ChainKept ==
    /\ wal_pc = "rotated"
    /\ FileSync
    /\ m_pendingWrites' = 0
    /\ wal_pc' = "ready"
    /\ UNCHANGED <<m_epoch, m_seq, m_headHash, walk, status>>

ResetReturn ==
    /\ wal_pc = "rotated"
    /\ FileSync
    /\ m_seq' = 0
    /\ m_headHash' = ZeroHash
    /\ m_pendingWrites' = 0
    /\ wal_pc' = "ready"
    /\ UNCHANGED <<m_epoch, walk, status>>

(* reset() returns false at the first call that fails, and keeps the chain state. *)
ResetFails ==
    /\ \/ wal_pc = "resetting" /\ "ftruncate" \in Failures /\ UNCHANGED diskVars
       \/ wal_pc = "truncated" /\ "reset header" \in Failures
            /\ (("torn header" \in Failures /\ FileAppend(Part)) \/ UNCHANGED diskVars)
       \/ wal_pc = "rotated" /\ "reset header fsync" \in Failures /\ UNCHANGED diskVars
    /\ wal_pc' = "ready"
    /\ UNCHANGED <<handleVars, walk, status>>

-----------------------------------------------------------------------------
(* The end of the process or of the machine's power. *)

Kill ==
    /\ "kill" \in Failures
    /\ wal_pc # "closed"
    /\ wal_pc' = "closed"
    /\ HandleReset
    /\ status' = "none"
    /\ UNCHANGED diskVars

PowerLoss(survivor) ==
    /\ "power" \in Failures
    /\ walFile' = survivor
    /\ walFloor' = Len(survivor)
    /\ walOld' = {}
    /\ wal_pc' = "closed"
    /\ HandleReset
    /\ status' = "none"

-----------------------------------------------------------------------------
(* A client of the WAL class alone that keeps to StorageEngine's calls:    *)
(* construct, recover(), and only then append() of a PUT or of a DELETE    *)
(* with an empty value.                                                    *)

ClientRecover ==
    /\ WalkStart(-1, TRUE)
    /\ UNCHANGED <<diskVars, handleVars, status>>

(* WAL::verify() *)
verify ==
    /\ WalkStart(-1, FALSE)
    /\ UNCHANGED <<diskVars, handleVars, status>>

ClientSetEpoch ==
    /\ wal_pc = "ready" /\ m_epoch < MaxEpoch
    /\ m_epoch' = m_epoch + 1
    /\ UNCHANGED <<diskVars, wal_pc, m_seq, m_headHash, m_pendingWrites, walk, status>>

ClientReset ==
    /\ ResetSync
    /\ UNCHANGED <<handleVars, walk, status>>

ClientAppend ==
    /\ Len(walFile) < MaxCells /\ m_seq < MaxCells /\ m_pendingWrites < MaxCells
    /\ \E type \in RecordType, key \in Keys, blob \in Blobs :
          /\ (type = "DELETE") <=> (blob = EmptyBlob)
          /\ \/ AppendWrite(type, key, blob, 0)
             \/ AppendWriteFails(key, blob)
             \/ AppendKilled(key, blob)

WALOpen == OpenEmpty \/ OpenCreate \/ OpenCreateFails \/ OpenSync \/ OpenSyncFails
             \/ OpenExisting \/ OpenRefused
WALWalk == WalkEntry \/ WalkEnd \/ WalkTorn \/ WalkRefused
WalkFails == WalkStatFails \/ WalkReadFails
WALRotate == ResetTruncate \/ ResetHeader \/ ResetReturn \/ ResetFails

WALNext ==
    \/ WALOpen \/ WALWalk \/ WalkFails \/ WALRotate
    \/ ClientRecover \/ verify \/ ClientSetEpoch \/ ClientReset \/ ClientAppend
    \/ AppendReturn \/ AppendSyncFails
    \/ Close \/ Kill
    \/ \E survivor \in Survivors : PowerLoss(survivor)

(* A thread inside a call runs on to the call's end; no failure is needed  *)
(* to get it there.                                                        *)
WALFairness ==
    /\ WF_walVars(WALWalk)
    /\ WF_walVars(ResetTruncate \/ ResetHeader \/ ResetReturn)
    /\ WF_walVars(OpenCreate \/ OpenSync) /\ WF_walVars(AppendReturn)

WALSpec == WALInit /\ [][WALNext]_walVars /\ WALFairness

-----------------------------------------------------------------------------
(* Properties *)

(* Every variable has its type. *)
WALTypeOK ==
    /\ walFile \in Seq(Cell)
    /\ walFloor \in 0..Len(walFile)
    /\ walOld \subseteq Seq(Cell)
    /\ wal_pc \in {"closed", "creating", "opening", "open", "ready", "appended", "walking",
                   "resetting", "truncated", "rotated"}
    /\ m_epoch \in Nat /\ m_seq \in Nat /\ m_headHash \in Hash /\ m_pendingWrites \in Nat
    /\ walk \in WalkLocals
    /\ status \in {"none", "Ok", "TruncatedTail", "Malformed", "Tampered", "BadHeader"}

(* The parts of a log that the class wrote and nothing else touched. *)
PrevHash(f, i) == IF i = 2 THEN ZeroHash ELSE f[i - 1].hash

GoodEntry(f, i) ==
    /\ f[i].kind = "entry"
    /\ f[i].body.seq = i - 2
    /\ f[i].hash = ChainHash(PrevHash(f, i), f[i].body)
    /\ ~Oversize(f[i].body)

WholeLog(f) ==
    /\ f # <<>> /\ f[1] = Header
    /\ \A i \in 2..Len(f) : GoodEntry(f, i)

GoodLog(f) ==
    f # <<>> => /\ f[1] = Header
                /\ \A i \in 2..Len(f) : GoodEntry(f, i) \/ (i = Len(f) /\ f[i] = Part)

(* The handle stands at the end of a whole log. *)
AtHead ==
    /\ WholeLog(walFile)
    /\ m_seq = Len(walFile) - 1
    /\ m_headHash = PrevHash(walFile, Len(walFile) + 1)

(* The walk has verified exactly the cells before walk.pos. *)
WalkVerified ==
    /\ walk.pos \in 2..(Len(walFile) + 1)
    /\ \A i \in 2..(walk.pos - 1) : GoodEntry(walFile, i)
    /\ walk.expectedSeq = walk.pos - 2
    /\ walk.prevHash = PrevHash(walFile, walk.pos)
    /\ walk.back \in {"open", "ready"}
    /\ walk.back = "ready" => AtHead

(* recover() and verify() never refuse, and the constructor never rejects, *)
(* a file that only this class wrote: DECISIONS.md's invariant, for        *)
(* Malformed and for the header check of the constructor too.              *)
OwnLogAccepted == status \notin {"Malformed", "Tampered", "BadHeader"}

(* The checkpoint that head() exports - m_seq and m_headHash - is the      *)
(* number of entries in the file and the hash of the last one, whenever a  *)
(* caller can ask for it.                                                  *)
CheckpointMatchesLog == wal_pc = "ready" => AtHead

(* recover() cuts off torn bytes only: no complete entry leaves the file   *)
(* by a step of walkChain().                                               *)
RecoveryKeepsEntries ==
    [][wal_pc = "walking" /\ wal_pc' # "closed"
         => \A i \in 1..Len(walFile) :
              walFile[i].kind = "entry" => i <= Len(walFile') /\ walFile'[i] = walFile[i]]_walVars

(* With syncEveryN = N, at most N-1 appends that returned can be lost in a *)
(* power cut.                                                              *)
GroupCommitBound == wal_pc = "ready" => Len(walFile) - walFloor < m_syncEveryN

(* Every call on the log returns: the walk ends whatever the file holds,   *)
(* and reset() gets through its system calls or gives up.                  *)
CallsReturn ==
    wal_pc \in {"creating", "opening", "appended", "walking", "resetting", "truncated", "rotated"}
      ~> wal_pc \in {"closed", "open", "ready"}

(* The inductive invariant behind OwnLogAccepted and CheckpointMatchesLog. *)
LogInv ==
    /\ GoodLog(walFile)
    /\ \A f \in walOld : GoodLog(f)
    /\ wal_pc \in {"ready", "appended", "resetting"} => AtHead
    /\ wal_pc \in {"opening", "open", "walking"} => walFile # <<>>
    /\ wal_pc = "walking" => WalkVerified
    /\ wal_pc \in {"creating", "truncated"} => walFile = <<>>
    /\ wal_pc = "rotated" => walFile = <<Header>>

ChainInv == LogInv /\ OwnLogAccepted

(* The inductive invariant behind GroupCommitBound: m_pendingWrites counts *)
(* at least the cells that are not on disk, in every state between two     *)
(* calls of a process's whole life, and reaches N only inside append().    *)
GroupCommitInv ==
    /\ wal_pc \notin {"opening", "rotated"} => Len(walFile) - walFloor <= m_pendingWrites
    /\ m_pendingWrites <= m_syncEveryN
    /\ wal_pc # "appended" => m_pendingWrites < m_syncEveryN

(* The failures that leave nothing unsynced behind the count's back. *)
CountSafeFailures ==
    {"power", "write", "open header", "reset fsync", "ftruncate", "reset header",
     "fstat", "read", "recover ftruncate"}

(* The failures after which the log stays readable. *)
ChainSafeFailures ==
    {"kill", "power", "write", "append fsync", "open header", "open fsync",
     "close fsync", "reset fsync", "ftruncate"}

=============================================================================
