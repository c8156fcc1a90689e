---------------------------- MODULE WAL_proofs ----------------------------
(***************************************************************************)
(* Proofs about the write-ahead log, for every set of keys and values,     *)
(* every size limit and every syncEveryN.                                  *)
(***************************************************************************)
EXTENDS WAL, SequenceTheorems, TLAPS

-----------------------------------------------------------------------------
(* Cells, entries and sequences of them. *)

(* What kind tells of a cell of the file. *)
LEMMA CellFacts ==
    /\ Header \in Cell /\ Part \in Cell
    /\ Header.kind = "header" /\ Part.kind = "part"
    /\ \A b \in Body, h \in Hash : [kind |-> "entry", body |-> b, hash |-> h] \in Cell
    /\ \A c \in Cell : c.kind = "entry" => c \in Entry /\ c.body \in Body /\ c.hash \in Hash
<1>1. /\ Header \in Cell /\ Part \in Cell
      /\ Header.kind = "header" /\ Part.kind = "part"
  BY DEF Cell, Header, Part
<1>2. \A b \in Body, h \in Hash : [kind |-> "entry", body |-> b, hash |-> h] \in Cell
  BY DEF Cell, Entry
<1>3. \A c \in Cell : c.kind = "entry" => c \in Entry /\ c.body \in Body /\ c.hash \in Hash
  <2> SUFFICES ASSUME NEW c \in Cell, c.kind = "entry"
               PROVE  c \in Entry /\ c.body \in Body /\ c.hash \in Hash
    OBVIOUS
  <2>1. c \in Entry
    BY <1>1 DEF Cell, Header, Part
  <2> QED
    BY <2>1 DEF Entry
<1> QED
  BY <1>1, <1>2, <1>3

(* The first i cells of a file. *)
LEMMA PrefixFacts ==
    ASSUME NEW f \in Seq(Cell), NEW i \in 0..Len(f)
    PROVE  /\ SubSeq(f, 1, i) \in Seq(Cell)
           /\ Len(SubSeq(f, 1, i)) = i
           /\ \A j \in 1..i : SubSeq(f, 1, i)[j] = f[j]
<1>1. \A j \in 1..i : f[j] \in Cell
  BY ElementOfSeq
<1>2. i \in Int /\ 1 \in Int
  OBVIOUS
<1>3. /\ SubSeq(f, 1, i) \in Seq(Cell)
      /\ Len(SubSeq(f, 1, i)) = IF 1 <= i THEN i - 1 + 1 ELSE 0
      /\ \A j \in 1..(i - 1 + 1) : SubSeq(f, 1, i)[j] = f[1 + j - 1]
  BY <1>1, <1>2, SubSeqProperties
<1> QED
  BY <1>3

(* Every survivor of a power loss is again a sequence of cells. *)
LEMMA PrefixesType ==
    ASSUME NEW f \in Seq(Cell), NEW n \in 0..Len(f)
    PROVE  Prefixes(f, n) \subseteq Seq(Cell)
<1>1. \A i \in n..Len(f) : SubSeq(f, 1, i) \in Seq(Cell)
  BY PrefixFacts
<1>2. \A i \in n..(Len(f) - 1) : Append(SubSeq(f, 1, i), Part) \in Seq(Cell)
  BY <1>1, CellFacts, AppendProperties
<1> QED
  BY <1>1, <1>2 DEF Prefixes

(* Every file that a power loss may leave is a sequence of cells. *)
LEMMA SurvivorsType ==
    WALTypeOK => Survivors \subseteq Seq(Cell)
BY PrefixesType DEF WALTypeOK, Survivors

(* The parts of WALTypeOK that an action of the file may change. *)
DiskTypeOK ==
    /\ walFile \in Seq(Cell)
    /\ walFloor \in 0..Len(walFile)
    /\ walOld \subseteq Seq(Cell)

(* write() keeps the types of the disk's variables. *)
LEMMA FileAppendType ==
    ASSUME DiskTypeOK, NEW c \in Cell, FileAppend(c)
    PROVE  DiskTypeOK'
<1>1. walFile' \in Seq(Cell) /\ Len(walFile') = Len(walFile) + 1
  BY AppendProperties DEF DiskTypeOK, FileAppend
<1> QED
  BY <1>1 DEF DiskTypeOK, FileAppend

(* fsync() keeps the types of the disk's variables. *)
LEMMA FileSyncType ==
    ASSUME DiskTypeOK, FileSync
    PROVE  DiskTypeOK'
BY LenProperties DEF DiskTypeOK, FileSync

(* ftruncate() to a sequence of cells keeps the types of the disk's        *)
(* variables.                                                              *)
LEMMA FileTruncateType ==
    ASSUME WALTypeOK, NEW f \in Seq(Cell), FileTruncateTo(f)
    PROVE  DiskTypeOK'
<1>1. Len(f) \in Nat
  BY LenProperties
<1>2. walFloor \in Nat
  BY LenProperties DEF WALTypeOK
<1> QED
  BY <1>1, <1>2, SurvivorsType DEF DiskTypeOK, FileTruncateTo

(* So does a step that leaves the disk alone. *)
LEMMA DiskSameType ==
    ASSUME DiskTypeOK, UNCHANGED diskVars
    PROVE  DiskTypeOK'
BY DEF DiskTypeOK, diskVars


-----------------------------------------------------------------------------
(* Type correctness, for every kind of failure. *)

(* The parts of WALTypeOK that are not about the disk. *)
HandleTypeOK ==
    /\ wal_pc \in {"closed", "creating", "opening", "open", "ready", "appended", "walking",
                   "resetting", "truncated", "rotated"}
    /\ m_epoch \in Nat /\ m_seq \in Nat /\ m_headHash \in Hash /\ m_pendingWrites \in Nat
    /\ walk \in WalkLocals
    /\ status \in {"none", "Ok", "TruncatedTail", "Malformed", "Tampered", "BadHeader"}

(* The type invariant falls apart into the disk and the object. *)
LEMMA TypeParts ==
    /\ WALTypeOK <=> DiskTypeOK /\ HandleTypeOK
    /\ WALTypeOK' <=> DiskTypeOK' /\ HandleTypeOK'
BY DEF WALTypeOK, DiskTypeOK, HandleTypeOK

(* The all-zero digest is a hash. *)
LEMMA ZeroHashType == ZeroHash \in Hash
BY EmptySeq DEF ZeroHash, Hash

(* The locals of walkChain() outside a call have their types. *)
LEMMA NoWalkType ==
    NoWalk \in WalkLocals
BY ZeroHashType DEF NoWalk, WalkLocals

(* A destroyed object has members of the right types. *)
LEMMA HandleResetType ==
    ASSUME HandleReset
    PROVE  /\ m_epoch' \in Nat /\ m_seq' \in Nat /\ m_headHash' \in Hash
           /\ m_pendingWrites' \in Nat
           /\ walk' \in WalkLocals
BY ZeroHashType, NoWalkType DEF HandleReset

(* The type invariant holds in the beginning. *)
LEMMA InitType == WALInit => WALTypeOK
BY EmptySeq, ZeroHashType, NoWalkType DEF WALInit, WALTypeOK

(* The constructor keeps the types. *)
LEMMA OpenType ==
    ASSUME WALTypeOK, WALOpen
    PROVE  WALTypeOK'
<1> USE TypeParts
<1>1. DiskTypeOK'
  BY CellFacts, FileAppendType, FileSyncType, DiskSameType
  DEF WALOpen, OpenEmpty, OpenCreate, OpenCreateFails, OpenSync, OpenSyncFails, OpenExisting, OpenRefused
<1>2. HandleTypeOK'
  BY DEF HandleTypeOK, handleVars,
         WALOpen, OpenEmpty, OpenCreate, OpenCreateFails, OpenSync, OpenSyncFails, OpenExisting, OpenRefused
<1> QED
  BY <1>1, <1>2

(* close() keeps the types. *)
LEMMA CloseType ==
    ASSUME WALTypeOK, Close
    PROVE  WALTypeOK'
<1> USE TypeParts
<1>1. DiskTypeOK'
  BY FileSyncType, DiskSameType DEF Close, CloseFlush
<1>2. HandleTypeOK'
  BY HandleResetType DEF HandleTypeOK, Close
<1> QED
  BY <1>1, <1>2

(* The entry that append() writes is an entry, and its hash is a hash. *)
LEMMA NewEntryType ==
    ASSUME WALTypeOK, NEW type \in RecordType, NEW key \in Keys, NEW blob \in Blobs,
           NEW timestamp \in Nat
    PROVE  LET body == NewBody(type, key, blob, timestamp)
               hash == ChainHash(m_headHash, body)
           IN  /\ body \in Body /\ hash \in Hash
               /\ [kind |-> "entry", body |-> body, hash |-> hash] \in Cell
<1> DEFINE body == NewBody(type, key, blob, timestamp)
           hash == ChainHash(m_headHash, body)
<1>1. body \in Body
  BY DEF NewBody, Body, WALTypeOK
<1> HIDE DEF body
<1>2. hash \in Hash
  BY <1>1, AppendProperties DEF WALTypeOK, Hash, ChainHash
<1> HIDE DEF hash
<1>3. [kind |-> "entry", body |-> body, hash |-> hash] \in Cell
  BY <1>1, <1>2, CellFacts
<1> QED
  BY <1>1, <1>2, <1>3 DEF body, hash

(* append()'s write keeps the types: the new entry is a cell. *)
LEMMA AppendWriteType ==
    ASSUME WALTypeOK, NEW type \in RecordType, NEW key \in Keys, NEW blob \in Blobs,
           NEW timestamp \in Nat, AppendWrite(type, key, blob, timestamp)
    PROVE  WALTypeOK'
<1> DEFINE body == NewBody(type, key, blob, timestamp)
           hash == ChainHash(m_headHash, body)
<1>1. hash \in Hash /\ [kind |-> "entry", body |-> body, hash |-> hash] \in Cell
  BY NewEntryType
<1>2. /\ FileAppend([kind |-> "entry", body |-> body, hash |-> hash])
      /\ m_headHash' = hash /\ m_seq' = m_seq + 1 /\ m_pendingWrites' = m_pendingWrites + 1
      /\ wal_pc' = "appended" /\ UNCHANGED <<m_epoch, walk, status>>
  BY DEF AppendWrite
<1> HIDE DEF body, hash
<1>3. DiskTypeOK'
  BY <1>1, <1>2, FileAppendType, TypeParts
<1>4. HandleTypeOK'
  BY <1>1, <1>2, TypeParts DEF HandleTypeOK
<1> QED
  BY <1>3, <1>4, TypeParts

(* An append() that fails or is killed keeps the types. *)
LEMMA AppendFailsType ==
    ASSUME WALTypeOK, NEW key \in Keys, NEW blob \in Blobs,
           AppendWriteFails(key, blob) \/ AppendKilled(key, blob)
    PROVE  WALTypeOK'
<1> USE TypeParts
<1>1. DiskTypeOK'
  BY CellFacts, FileAppendType, DiskSameType DEF AppendWriteFails, AppendKilled
<1>2. HandleTypeOK'
  BY HandleResetType DEF HandleTypeOK, handleVars, AppendWriteFails, AppendKilled
<1> QED
  BY <1>1, <1>2

(* The group commit at the end of append() keeps the types. *)
LEMMA AppendReturnType ==
    ASSUME WALTypeOK, AppendReturn \/ AppendSyncFails
    PROVE  WALTypeOK'
<1> USE TypeParts
<1>1. DiskTypeOK'
  BY FileSyncType, DiskSameType DEF AppendReturn, AppendSyncFails, diskVars
<1>2. HandleTypeOK'
  <2>1. m_pendingWrites \in Nat
    BY DEF HandleTypeOK
  <2>2. m_pendingWrites' = 0 \/ m_pendingWrites' = m_pendingWrites
    <3>1. CASE AppendReturn
      BY <3>1 DEF AppendReturn
    <3>2. CASE AppendSyncFails
      BY <3>2 DEF AppendSyncFails, handleVars
    <3> QED
      BY <3>1, <3>2
  <2>3. m_pendingWrites' \in Nat
    BY <2>1, <2>2
  <2> QED
    BY <2>3 DEF HandleTypeOK, AppendReturn, AppendSyncFails, handleVars
<1> QED
  BY <1>1, <1>2

(* The cell that a step of the walk reads; the walk goes on only past a    *)
(* complete entry that has passed every check.                             *)
LEMMA WalkReads ==
    ASSUME WALTypeOK, ~WalkAtEnd
    PROVE  /\ walk.pos \in 1..Len(walFile)
           /\ walFile[walk.pos] \in Cell
           /\ "Ok" \in ReadResults => /\ walk.pos > 1
                                      /\ walFile[walk.pos].kind = "entry"
                                      /\ EntryVerdict(walFile[walk.pos]) = "Ok"
<1>1. walk.pos \in Nat \ {0} /\ Len(walFile) \in Nat
  BY LenProperties DEF WALTypeOK, WalkLocals
<1>2. walk.pos \in 1..Len(walFile)
  BY <1>1 DEF WalkAtEnd
<1>3. walFile[walk.pos] \in Cell
  BY <1>2, ElementOfSeq DEF WALTypeOK
<1>4. ASSUME "Ok" \in ReadResults
      PROVE  /\ walk.pos > 1
             /\ walFile[walk.pos].kind = "entry"
             /\ EntryVerdict(walFile[walk.pos]) = "Ok"
  BY <1>4 DEF ReadResults
<1> QED
  BY <1>2, <1>3, <1>4

(* The start of walkChain() keeps the types. *)
LEMMA WalkStartType ==
    ASSUME WALTypeOK, NEW minEpoch \in Nat \cup {-1}, NEW truncate \in BOOLEAN,
           WalkStart(minEpoch, truncate), UNCHANGED <<diskVars, handleVars, status>>
    PROVE  WALTypeOK'
<1> USE TypeParts
<1>1. DiskTypeOK'
  BY DiskSameType
<1>2. walk' \in WalkLocals /\ wal_pc' = "walking"
  BY ZeroHashType DEF WalkStart, WalkLocals
<1>3. HandleTypeOK'
  BY <1>2 DEF HandleTypeOK, handleVars
<1> QED
  BY <1>1, <1>3

(* The locals of walkChain() after an entry have their types. *)
LEMMA WalkAdvanceType ==
    ASSUME NEW w \in WalkLocals, NEW p \in Nat \ {0}, NEW h \in Hash, NEW n \in Nat
    PROVE  [w EXCEPT !.pos = p, !.prevHash = h, !.expectedSeq = n] \in WalkLocals
BY DEF WalkLocals

(* An entry that verifies keeps the types. *)
LEMMA WalkEntryType ==
    ASSUME WALTypeOK, WalkEntry
    PROVE  WALTypeOK'
<1> USE TypeParts
<1>1. /\ walFile[walk.pos].hash \in Hash
      /\ walFile[walk.pos].body \in Body
  BY WalkReads, CellFacts DEF WalkEntry
<1>2. walFile[walk.pos].body.seq + 1 \in Nat
  BY <1>1 DEF Body
<1>3. walk \in WalkLocals
  BY DEF HandleTypeOK
<1>4. walk' \in WalkLocals
  <2>1. walk.pos + 1 \in Nat \ {0}
    BY <1>3 DEF WalkLocals
  <2> QED
    BY <1>1, <1>2, <1>3, <2>1, WalkAdvanceType DEF WalkEntry
<1>5. HandleTypeOK'
  BY <1>4 DEF HandleTypeOK, WalkEntry, handleVars
<1>6. DiskTypeOK'
  BY DiskSameType DEF WalkEntry
<1> QED
  BY <1>5, <1>6

(* The chain state that recover() adopts, and where the call returns to. *)
LEMMA AdoptType ==
    ASSUME WALTypeOK, Adopt
    PROVE  /\ wal_pc' \in {"closed", "open", "ready"}
           /\ m_epoch' \in Nat /\ m_seq' \in Nat /\ m_headHash' \in Hash
           /\ m_pendingWrites' \in Nat
<1>1. /\ walk.back \in {"closed", "open", "ready"}
      /\ walk.expectedSeq \in Nat /\ walk.prevHash \in Hash /\ walk.truncate \in BOOLEAN
  BY DEF WALTypeOK, WalkLocals
<1>2. m_epoch \in Nat /\ m_seq \in Nat /\ m_headHash \in Hash /\ m_pendingWrites \in Nat
  BY DEF WALTypeOK
<1>3. CASE walk.truncate
  BY <1>1, <1>2, <1>3 DEF Adopt
<1>4. CASE ~walk.truncate
  BY <1>1, <1>2, <1>4 DEF Adopt, handleVars
<1> QED
  BY <1>3, <1>4

(* What walkChain() cuts the file to is a sequence of cells. *)
LEMMA VerifiedPrefixType ==
    ASSUME WALTypeOK, ~WalkAtEnd
    PROVE  VerifiedPrefix \in Seq(Cell)
<1>1. walk.pos \in 1..Len(walFile) /\ Len(walFile) \in Nat /\ walFile \in Seq(Cell)
  BY WalkReads, LenProperties DEF WALTypeOK
<1>2. SubSeq(walFile, 1, walk.pos - 1) \in Seq(Cell)
  BY <1>1, PrefixFacts
<1>3. <<Part>> \in Seq(Cell)
  BY CellFacts
<1> QED
  BY <1>2, <1>3 DEF VerifiedPrefix

(* The return of walkChain(), and recover()'s adoption of the chain state, *)
(* keep the types.                                                         *)
LEMMA WalkReturnsType ==
    ASSUME WALTypeOK, WALWalk \/ WalkFails, ~WalkEntry
    PROVE  WALTypeOK'
<1> USE TypeParts
<1>1. CASE WalkEnd \/ WalkStatFails
  <2>1. DiskTypeOK'
    BY <1>1, DiskSameType DEF WalkEnd, WalkStatFails
  <2>2. HandleTypeOK'
    BY <1>1, AdoptType, NoWalkType DEF HandleTypeOK, WalkEnd, WalkStatFails
  <2> QED
    BY <2>1, <2>2
<1>2. CASE WalkTorn \/ WalkReadFails
  <2>1. DiskTypeOK'
    BY <1>2, DiskSameType, VerifiedPrefixType, FileTruncateType
    DEF WalkTorn, WalkReadFails, ReturnTorn
  <2>2. HandleTypeOK'
    BY <1>2, AdoptType, NoWalkType DEF HandleTypeOK, WalkTorn, WalkReadFails, ReturnTorn
  <2> QED
    BY <2>1, <2>2
<1>3. CASE WalkRefused
  <2>1. DiskTypeOK'
    BY <1>3, DiskSameType DEF WalkRefused
  <2>2. wal_pc' \in {"closed", "open", "ready"}
    BY <1>3 DEF WalkRefused, HandleTypeOK, WalkLocals
  <2>3. status' \in {"Malformed", "Tampered"}
    BY <1>3 DEF WalkRefused
  <2>4. HandleTypeOK'
    BY <1>3, <2>2, <2>3, NoWalkType DEF HandleTypeOK, WalkRefused, handleVars
  <2> QED
    BY <2>1, <2>4
<1> QED
  BY <1>1, <1>2, <1>3 DEF WALWalk, WalkFails

(* reset() keeps the types. *)
LEMMA ResetType ==
    ASSUME WALTypeOK, ClientReset \/ WALRotate
    PROVE  WALTypeOK'
<1> USE TypeParts
<1>1. CASE ClientReset
  BY <1>1, FileSyncType, DiskSameType DEF ClientReset, ResetSync, HandleTypeOK, handleVars
<1>2. CASE ResetTruncate
  <2>1. DiskTypeOK'
    BY <1>2, EmptySeq, FileTruncateType DEF ResetTruncate
  <2> QED
    BY <1>2, <2>1 DEF ResetTruncate, HandleTypeOK, handleVars
<1>3. CASE ResetHeader
  <2>1. DiskTypeOK'
    BY <1>3, CellFacts, FileAppendType DEF ResetHeader
  <2> QED
    BY <1>3, <2>1 DEF ResetHeader, HandleTypeOK, handleVars
<1>4. CASE ResetReturn
  BY <1>4, FileSyncType, ZeroHashType DEF ResetReturn, HandleTypeOK
<1>5. CASE ResetFails
  <2>1. DiskTypeOK'
    BY <1>5, CellFacts, FileAppendType, DiskSameType DEF ResetFails
  <2> QED
    BY <1>5, <2>1 DEF ResetFails, HandleTypeOK, handleVars
<1> QED
  BY <1>1, <1>2, <1>3, <1>4, <1>5 DEF WALRotate

(* The end of the process or of the power keeps the types. *)
LEMMA EndType ==
    ASSUME WALTypeOK, Kill \/ \E survivor \in Survivors : PowerLoss(survivor)
    PROVE  WALTypeOK'
<1> USE TypeParts
<1>1. CASE Kill
  <2>1. DiskTypeOK'
    BY <1>1, DiskSameType DEF Kill
  <2> QED
    BY <1>1, <2>1, HandleResetType DEF Kill, HandleTypeOK
<1>2. ASSUME NEW survivor \in Survivors, PowerLoss(survivor)
      PROVE  WALTypeOK'
  <2>1. DiskTypeOK'
    BY <1>2, SurvivorsType, LenProperties DEF PowerLoss, DiskTypeOK
  <2> QED
    BY <1>2, <2>1, HandleResetType DEF PowerLoss, HandleTypeOK
<1> QED
  BY <1>1, <1>2

(* Every step keeps the type invariant. *)
LEMMA TypeStep ==
    WALTypeOK /\ [WALNext]_walVars => WALTypeOK'
<1> SUFFICES ASSUME WALTypeOK, [WALNext]_walVars
             PROVE  WALTypeOK'
  OBVIOUS
<1>1. CASE WALOpen
  BY <1>1, OpenType
<1>2. CASE WALWalk \/ WalkFails
  BY <1>2, WalkEntryType, WalkReturnsType
<1>3. CASE WALRotate \/ ClientReset
  BY <1>3, ResetType
<1>4. CASE ClientRecover \/ verify
  BY <1>4, WalkStartType DEF ClientRecover, verify
<1>5. CASE ClientSetEpoch
  BY <1>5, TypeParts, DiskSameType DEF ClientSetEpoch, HandleTypeOK
<1>6. CASE ClientAppend
  <2>1. PICK type \in RecordType, key \in Keys, blob \in Blobs :
          \/ AppendWrite(type, key, blob, 0)
          \/ AppendWriteFails(key, blob)
          \/ AppendKilled(key, blob)
    BY <1>6 DEF ClientAppend
  <2> QED
    BY <2>1, AppendWriteType, AppendFailsType
<1>7. CASE AppendReturn \/ AppendSyncFails
  BY <1>7, AppendReturnType
<1>8. CASE Close
  BY <1>8, CloseType
<1>9. CASE Kill \/ \E survivor \in Survivors : PowerLoss(survivor)
  BY <1>9, EndType
<1>10. CASE UNCHANGED walVars
  BY <1>10 DEF walVars, diskVars, handleVars, WALTypeOK
<1> QED
  BY <1>1, <1>2, <1>3, <1>4, <1>5, <1>6, <1>7, <1>8, <1>9, <1>10 DEF WALNext

(* Whatever fails, the file stays a sequence of cells with its durable     *)
(* part inside it, the chain state of the object stays a number and a      *)
(* hash, and the locals of walkChain() stay in their ranges.               *)
THEOREM TypeCorrect == WALSpec => []WALTypeOK
<1>1. WALInit => WALTypeOK
  BY InitType
<1>2. WALTypeOK /\ [WALNext]_walVars => WALTypeOK'
  BY TypeStep
<1> QED
  BY <1>1, <1>2, PTL DEF WALSpec

-----------------------------------------------------------------------------
(* Good logs: what the class writes when nothing but the failures of       *)
(* ChainSafeFailures happens.                                              *)

(* Only failures that the class copes with happen. *)
ChainSafe == Failures \subseteq ChainSafeFailures

(* The failures that ChainSafe rules out. *)
LEMMA SafeFailures ==
    ASSUME ChainSafe
    PROVE  /\ "torn header" \notin Failures /\ "partial write" \notin Failures
           /\ "reset header" \notin Failures /\ "reset header fsync" \notin Failures
           /\ "fstat" \notin Failures /\ "read" \notin Failures
           /\ "recover ftruncate" \notin Failures
BY DEF ChainSafe, ChainSafeFailures

(* Whether a cell is the next good entry depends on it and the one before. *)
LEMMA GoodEntryLocal ==
    ASSUME NEW f, NEW g, NEW i \in Nat, i >= 2,
           f[i] = g[i], f[i - 1] = g[i - 1], GoodEntry(f, i)
    PROVE  GoodEntry(g, i)
BY DEF GoodEntry, PrevHash

(* A log without torn bytes is a good log. *)
LEMMA WholeIsGood ==
    ASSUME NEW f, WholeLog(f)
    PROVE  GoodLog(f)
BY DEF WholeLog, GoodLog

(* A good log without its last cell, or any shorter prefix, has no torn    *)
(* cell: it is empty or whole.                                             *)
LEMMA GoodPrefixWhole ==
    ASSUME NEW f \in Seq(Cell), GoodLog(f), NEW i \in 1..Len(f),
           i = Len(f) => \A j \in 2..Len(f) : GoodEntry(f, j)
    PROVE  WholeLog(SubSeq(f, 1, i))
<1> DEFINE g == SubSeq(f, 1, i)
<1>1. /\ i \in 0..Len(f) /\ Len(f) \in Nat /\ f # <<>>
  BY LenProperties, EmptySeq
<1>2. g \in Seq(Cell) /\ Len(g) = i /\ \A j \in 1..i : g[j] = f[j]
  BY <1>1, PrefixFacts
<1> HIDE DEF g
<1>3. g # <<>> /\ g[1] = Header
  BY <1>1, <1>2, EmptySeq DEF GoodLog
<1>4. ASSUME NEW j \in 2..i PROVE GoodEntry(g, j)
  <2>1. GoodEntry(f, j)
    <3>1. CASE i = Len(f)
      BY <1>4, <3>1
    <3>2. CASE i # Len(f)
      <4>1. j \in 2..Len(f) /\ j # Len(f)
        BY <1>1, <3>2
      <4> QED
        BY <1>1, <4>1 DEF GoodLog
    <3> QED
      BY <3>1, <3>2
  <2>2. j \in Nat /\ j >= 2 /\ f[j] = g[j] /\ f[j - 1] = g[j - 1]
    BY <1>2, <1>1
  <2> QED
    BY <2>1, <2>2, GoodEntryLocal
<1>5. WholeLog(g)
  BY <1>2, <1>3, <1>4 DEF WholeLog
<1> QED
  BY <1>5 DEF g

(* Part of an entry after a whole log. *)
LEMMA WholePlusPart ==
    ASSUME NEW f \in Seq(Cell), WholeLog(f)
    PROVE  GoodLog(Append(f, Part))
<1> DEFINE g == Append(f, Part)
<1>1. /\ Len(f) \in Nat /\ Len(g) = Len(f) + 1
      /\ \A i \in 1..Len(f) : g[i] = f[i]
      /\ g[Len(f) + 1] = Part
  BY LenProperties, AppendProperties, CellFacts
<1>2. f # <<>> /\ Len(f) >= 1 /\ f[1] = Header
  BY EmptySeq DEF WholeLog
<1> HIDE DEF g
<1>3. g[1] = Header
  BY <1>1, <1>2
<1>4. ASSUME NEW i \in 2..Len(g) PROVE GoodEntry(g, i) \/ (i = Len(g) /\ g[i] = Part)
  <2>1. CASE i = Len(g)
    BY <1>1, <2>1
  <2>2. CASE i # Len(g)
    <3>1. i \in 2..Len(f) /\ f[i] = g[i] /\ f[i - 1] = g[i - 1] /\ i \in Nat /\ i >= 2
      BY <1>1, <2>2
    <3>2. GoodEntry(f, i)
      BY <3>1 DEF WholeLog
    <3> QED
      BY <3>1, <3>2, GoodEntryLocal
  <2> QED
    BY <2>1, <2>2
<1>5. GoodLog(g)
  BY <1>3, <1>4 DEF GoodLog
<1> QED
  BY <1>5 DEF g

(* What a power loss leaves of a good log is a good log. *)
LEMMA GoodPrefixes ==
    ASSUME NEW f \in Seq(Cell), GoodLog(f), NEW n \in 0..Len(f),
           ChainSafe
    PROVE  \A g \in Prefixes(f, n) : GoodLog(g)
<1>1. Len(f) \in Nat /\ n \in Nat
  BY LenProperties
<1>2. ASSUME NEW i \in n..Len(f) PROVE GoodLog(SubSeq(f, 1, i))
  <2>0. i \in Nat /\ i <= Len(f)
    BY <1>1, <1>2
  <2>1. CASE i = 0
    <3>1. SubSeq(f, 1, i) = <<>>
      BY <2>0, <2>1, SubSeqEmpty
    <3> QED
      BY <3>1 DEF GoodLog
  <2>2. CASE i > 0 /\ i < Len(f)
    <3>1. i \in 1..Len(f) /\ i # Len(f)
      BY <1>1, <2>0, <2>2
    <3> QED
      BY <3>1, GoodPrefixWhole, WholeIsGood
  <2>3. CASE i > 0 /\ i = Len(f)
    <3>1. SubSeq(f, 1, i) = f
      <4>1. i \in 0..Len(f)
        BY <1>1, <2>0, <2>3
      <4>2. /\ SubSeq(f, 1, i) \in Seq(Cell) /\ Len(SubSeq(f, 1, i)) = Len(f)
            /\ \A j \in 1..Len(f) : SubSeq(f, 1, i)[j] = f[j]
        BY <4>1, <2>3, PrefixFacts
      <4> QED
        BY <4>2, SeqEqual
    <3> QED
      BY <3>1
  <2> QED
    BY <1>1, <2>0, <2>1, <2>2, <2>3
<1>3. ASSUME NEW i \in n..(Len(f) - 1), i > 0
      PROVE  GoodLog(Append(SubSeq(f, 1, i), Part))
  <2>1. i \in 1..Len(f) /\ i # Len(f) /\ i \in 0..Len(f)
    BY <1>1, <1>3
  <2>2. WholeLog(SubSeq(f, 1, i)) /\ SubSeq(f, 1, i) \in Seq(Cell)
    BY <2>1, GoodPrefixWhole, PrefixFacts
  <2> QED
    BY <2>2, WholePlusPart
<1>4. "torn header" \notin Failures
  BY SafeFailures
<1> QED
  BY <1>2, <1>3, <1>4 DEF Prefixes

(* A power loss leaves a good log. *)
LEMMA GoodSurvivors ==
    ASSUME WALTypeOK, LogInv, ChainSafe
    PROVE  \A f \in Survivors : GoodLog(f)
<1>1. walFile \in Seq(Cell) /\ walFloor \in 0..Len(walFile) /\ GoodLog(walFile)
  BY DEF WALTypeOK, LogInv
<1>2. \A f \in Prefixes(walFile, walFloor) : GoodLog(f)
  BY <1>1, GoodPrefixes
<1>3. \A f \in walOld : GoodLog(f)
  BY DEF LogInv
<1> QED
  BY <1>2, <1>3 DEF Survivors

(* A blob that set() or remove() logs has a size. *)
LEMMA BlobSize ==
    ASSUME NEW blob \in Blobs
    PROVE  blob.size \in Nat
BY SizeAssumption DEF Blobs, serialize, EmptyBlob, SizeAssumption

(* append() at the head of a whole log gives a whole log and its head. *)
LEMMA AppendKeepsHead ==
    ASSUME WALTypeOK, AtHead,
           NEW type \in RecordType, NEW key \in Keys, NEW blob \in Blobs,
           NEW timestamp \in Nat, AppendWrite(type, key, blob, timestamp)
    PROVE  AtHead'
<1> DEFINE body == NewBody(type, key, blob, timestamp)
           hash == ChainHash(m_headHash, body)
           e == [kind |-> "entry", body |-> body, hash |-> hash]
           n == Len(walFile)
<1>1. e \in Cell /\ walFile \in Seq(Cell) /\ n \in Nat
  BY NewEntryType, LenProperties DEF WALTypeOK
<1>2. walFile' = Append(walFile, e) /\ m_headHash' = hash /\ m_seq' = m_seq + 1
  BY DEF AppendWrite, FileAppend
<1>3. /\ e.kind = "entry" /\ e.body = body /\ e.hash = hash
      /\ body.seq = m_seq
  BY DEF NewBody
<1>4. ~Oversize(body)
  <2>1. FieldsFit(key, blob) /\ body.key = key /\ body.blob = blob
    BY DEF AppendWrite, NewBody
  <2>2. KeySize[key] \in Nat /\ blob.size \in Nat /\ kMaxFieldSize \in Nat
    BY SizeAssumption, BlobSize DEF SizeAssumption
  <2> HIDE DEF body
  <2> QED
    BY <2>1, <2>2 DEF FieldsFit, Oversize
<1>5. hash = ChainHash(m_headHash, body)
  OBVIOUS
<1> HIDE DEF body, hash, e
<1>6. /\ Len(walFile') = n + 1
      /\ walFile' # <<>>
      /\ \A i \in 1..n : walFile'[i] = walFile[i]
      /\ walFile'[n + 1] = e
  BY <1>1, <1>2, AppendProperties
<1>7. /\ n >= 1 /\ walFile[1] = Header
      /\ m_seq = n - 1 /\ m_headHash = PrevHash(walFile, n + 1)
      /\ \A i \in 2..n : GoodEntry(walFile, i)
  BY <1>1, EmptySeq DEF AtHead, WholeLog
<1>8. PrevHash(walFile', n + 1) = PrevHash(walFile, n + 1)
  BY <1>1, <1>6, <1>7 DEF PrevHash
<1>9. GoodEntry(walFile', n + 1)
  BY <1>1, <1>3, <1>4, <1>5, <1>6, <1>7, <1>8 DEF GoodEntry
<1>10. \A i \in 2..(n + 1) : GoodEntry(walFile', i)
  <2> SUFFICES ASSUME NEW i \in 2..n
               PROVE  GoodEntry(walFile', i)
    BY <1>1, <1>9
  <2>1. i \in Nat /\ i >= 2 /\ walFile[i] = walFile'[i] /\ walFile[i - 1] = walFile'[i - 1]
    BY <1>1, <1>6
  <2> QED
    BY <1>7, <2>1, GoodEntryLocal
<1>11. WholeLog(walFile')
  BY <1>1, <1>6, <1>7, <1>10 DEF WholeLog
<1>12. m_headHash' = PrevHash(walFile', Len(walFile') + 1)
  BY <1>1, <1>2, <1>3, <1>6, <1>7 DEF PrevHash
<1>13. m_seq' = Len(walFile') - 1
  BY <1>1, <1>2, <1>6, <1>7
<1> QED
  BY <1>11, <1>12, <1>13 DEF AtHead

(* A cell that the walk has reached in a good log. *)
LEMMA WalkCell ==
    ASSUME WALTypeOK, LogInv, ChainSafe, wal_pc = "walking", ~WalkAtEnd
    PROVE  /\ walk.pos \in 2..Len(walFile)
           /\ \/ /\ GoodEntry(walFile, walk.pos)
                 /\ ReadResults = {"Ok"}
              \/ /\ walk.pos = Len(walFile) /\ walFile[walk.pos] = Part
                 /\ ReadResults = {"TruncatedTail"}
<1> DEFINE cell == walFile[walk.pos]
<1>1. /\ walk.pos \in 1..Len(walFile) /\ Len(walFile) \in Nat /\ cell \in Cell
  BY WalkReads, LenProperties DEF WALTypeOK
<1>2. /\ WalkVerified /\ GoodLog(walFile) /\ walFile # <<>>
  BY DEF LogInv
<1>3. walk.pos \in 2..Len(walFile) /\ walk.pos > 1
  BY <1>1, <1>2 DEF WalkVerified
<1>4. GoodEntry(walFile, walk.pos) \/ (walk.pos = Len(walFile) /\ cell = Part)
  BY <1>2, <1>3 DEF GoodLog
<1>5. CASE GoodEntry(walFile, walk.pos)
  <2>1. /\ cell.kind = "entry" /\ cell.body.seq = walk.pos - 2
        /\ cell.hash = ChainHash(PrevHash(walFile, walk.pos), cell.body)
        /\ ~Oversize(cell.body)
    BY <1>5 DEF GoodEntry
  <2>2. walk.expectedSeq = walk.pos - 2 /\ walk.prevHash = PrevHash(walFile, walk.pos)
    BY <1>2 DEF WalkVerified
  <2>3. EntryVerdict(cell) = "Ok"
    BY <2>1, <2>2 DEF EntryVerdict
  <2>4. ReadResults = {"Ok"}
    BY <1>3, <2>1, <2>3 DEF ReadResults
  <2> QED
    BY <1>3, <1>5, <2>4
<1>6. CASE walk.pos = Len(walFile) /\ cell = Part
  <2>1. cell.kind # "entry"
    BY <1>6, CellFacts
  <2>2. ReadResults = {"TruncatedTail"}
    BY <1>3, <1>6, <2>1 DEF ReadResults
  <2> QED
    BY <1>3, <1>6, <2>2
<1> QED
  BY <1>4, <1>5, <1>6

-----------------------------------------------------------------------------
(* LogInv is inductive. *)

(* The chain invariant holds in the beginning. *)
LEMMA ChainInit == WALInit => LogInv
BY DEF WALInit, LogInv, GoodLog

(* Steps that leave the contents of the file alone. *)
LEMMA SameFile ==
    ASSUME FileSync \/ UNCHANGED diskVars
    PROVE  walFile' = walFile /\ walOld' \subseteq walOld
BY DEF FileSync, diskVars

(* Outside the calls LogInv asks only for good logs. *)
LEMMA ChainWhenClosed ==
    ASSUME wal_pc' = "closed", GoodLog(walFile'), \A f \in walOld' : GoodLog(f)
    PROVE  LogInv'
BY DEF LogInv

(* A cut leaves good logs on the disk when what is left is one. *)
LEMMA TruncateKeepsGood ==
    ASSUME WALTypeOK, LogInv, ChainSafe, NEW f, GoodLog(f), FileTruncateTo(f)
    PROVE  /\ walFile' = f /\ GoodLog(walFile')
           /\ \A g \in walOld' : GoodLog(g)
<1>1. \A g \in Survivors : GoodLog(g)
  BY GoodSurvivors
<1> QED
  BY <1>1 DEF FileTruncateTo

(* The constructor keeps the chain invariant and refuses no good log. *)
LEMMA OpenChain ==
    ASSUME WALTypeOK, LogInv, ChainSafe, WALOpen
    PROVE  LogInv'
<1>1. CASE OpenCreate
  <2>1. walFile' = <<Header>> /\ walOld' = walOld
    BY <1>1 DEF OpenCreate, FileAppend, LogInv
  <2>2. GoodLog(<<Header>>) /\ <<Header>> # <<>>
    BY DEF GoodLog
  <2> QED
    BY <1>1, <2>1, <2>2 DEF LogInv, OpenCreate
<1>2. CASE OpenCreateFails
  <2>1. UNCHANGED diskVars /\ wal_pc' = "closed"
    BY <1>2, SafeFailures DEF OpenCreateFails
  <2> QED
    BY <2>1 DEF diskVars, LogInv
<1>3. CASE OpenSync \/ OpenSyncFails \/ OpenExisting
  <2>1. walFile' = walFile /\ walOld' \subseteq walOld /\ wal_pc' \in {"open", "closed"}
        /\ status' = status
    BY <1>3, SameFile DEF OpenSync, OpenSyncFails, OpenExisting
  <2>2. wal_pc' = "open" => walFile # <<>>
    BY <1>3 DEF OpenSync, OpenSyncFails, OpenExisting, LogInv
  <2> QED
    BY <2>1, <2>2 DEF LogInv
<1>4. CASE OpenRefused
  BY <1>4, SafeFailures DEF OpenRefused, LogInv, GoodLog, validateHeader
<1>5. CASE OpenEmpty
  BY <1>5 DEF OpenEmpty, diskVars, LogInv
<1> QED
  BY <1>1, <1>2, <1>3, <1>4, <1>5 DEF WALOpen

(* append()'s write links its entry to the chain. *)
LEMMA AppendWriteChain ==
    ASSUME WALTypeOK, LogInv,
           NEW type \in RecordType, NEW key \in Keys, NEW blob \in Blobs,
           NEW timestamp \in Nat, AppendWrite(type, key, blob, timestamp)
    PROVE  LogInv'
<1>1. AtHead
  BY DEF AppendWrite, LogInv
<1>2. AtHead'
  BY <1>1, AppendKeepsHead
<1>3. GoodLog(walFile')
  BY <1>2, WholeIsGood DEF AtHead
<1>4. walOld' = walOld /\ wal_pc' = "appended" /\ status' = status
  BY DEF AppendWrite, FileAppend
<1> QED
  BY <1>2, <1>3, <1>4 DEF LogInv

(* An append() that fails or is killed keeps the chain invariant. *)
LEMMA AppendFailsChain ==
    ASSUME WALTypeOK, LogInv, ChainSafe, NEW key \in Keys, NEW blob \in Blobs,
           AppendWriteFails(key, blob) \/ AppendKilled(key, blob)
    PROVE  LogInv'
<1>1. CASE AppendWriteFails(key, blob)
  <2>1. UNCHANGED <<diskVars, wal_pc, handleVars, walk, status>>
    BY <1>1, SafeFailures DEF AppendWriteFails
  <2> QED
    BY <2>1 DEF diskVars, handleVars, LogInv, AtHead, WalkVerified
<1>2. CASE AppendKilled(key, blob)
  <2>1. WholeLog(walFile) /\ walFile \in Seq(Cell)
    BY <1>2 DEF AppendKilled, LogInv, AtHead, WALTypeOK
  <2>2. walFile' = Append(walFile, Part) /\ walOld' = walOld
    BY <1>2 DEF AppendKilled, FileAppend
  <2>3. GoodLog(walFile')
    BY <2>1, <2>2, WholePlusPart
  <2> QED
    BY <1>2, <2>2, <2>3, ChainWhenClosed DEF AppendKilled, LogInv
<1> QED
  BY <1>1, <1>2

(* The group commit at the end of append() keeps the chain invariant. *)
LEMMA AppendReturnChain ==
    ASSUME LogInv, AppendReturn \/ AppendSyncFails
    PROVE  LogInv'
<1>1. /\ walFile' = walFile /\ walOld' \subseteq walOld
      /\ wal_pc = "appended" /\ wal_pc' = "ready"
      /\ UNCHANGED <<m_seq, m_headHash, status>>
  BY SameFile DEF AppendReturn, AppendSyncFails, diskVars, handleVars
<1> QED
  BY <1>1 DEF LogInv, AtHead

(* walkChain() starts with nothing verified. *)
LEMMA WalkStartChain ==
    ASSUME WALTypeOK, LogInv, NEW minEpoch, NEW truncate,
           WalkStart(minEpoch, truncate), UNCHANGED <<diskVars, m_seq, m_headHash, status>>
    PROVE  LogInv'
<1>1. walFile # <<>> /\ walFile[1] = Header /\ Len(walFile) \in Nat \ {0}
  BY EmptySeq DEF LogInv, WalkStart, AtHead, WholeLog, GoodLog, WALTypeOK
<1>2. /\ walk'.pos = 2 /\ walk'.expectedSeq = 0 /\ walk'.prevHash = ZeroHash
      /\ walk'.back = wal_pc /\ wal_pc \in {"open", "ready"} /\ wal_pc' = "walking"
  BY <1>1 DEF WalkStart
<1>3. /\ walFile' = walFile /\ walOld' = walOld /\ status' = status
      /\ m_seq' = m_seq /\ m_headHash' = m_headHash
  BY DEF diskVars, handleVars
<1>4. wal_pc = "ready" => AtHead'
  BY <1>3 DEF LogInv, AtHead
<1>5. WalkVerified'
  BY <1>1, <1>2, <1>3, <1>4 DEF WalkVerified, PrevHash
<1> QED
  BY <1>1, <1>2, <1>3, <1>5 DEF LogInv

(* An entry that verifies extends the verified prefix. *)
LEMMA WalkEntryChain ==
    ASSUME WALTypeOK, LogInv, ChainSafe, WalkEntry
    PROVE  LogInv'
<1> DEFINE pos == walk.pos
<1>1. pos \in 2..Len(walFile) /\ GoodEntry(walFile, pos) /\ Len(walFile) \in Nat
  BY WalkCell, LenProperties DEF WalkEntry, WALTypeOK
<1>2. /\ walk'.pos = pos + 1 /\ walk'.prevHash = walFile[pos].hash
      /\ walk'.expectedSeq = walFile[pos].body.seq + 1 /\ walk'.back = walk.back
  BY DEF WalkEntry, WALTypeOK, WalkLocals
<1>3. /\ walFile' = walFile /\ walOld' = walOld /\ status' = status
      /\ m_seq' = m_seq /\ m_headHash' = m_headHash
      /\ wal_pc = "walking" /\ wal_pc' = "walking"
  BY DEF WalkEntry, diskVars, handleVars
<1>4. WalkVerified
  BY <1>3 DEF LogInv
<1> HIDE DEF pos
<1>5. walFile[pos].body.seq + 1 = (pos + 1) - 2
  BY <1>1 DEF GoodEntry
<1>6. walFile[pos].hash = PrevHash(walFile, pos + 1)
  BY <1>1 DEF PrevHash
<1>7. \A i \in 2..((pos + 1) - 1) : GoodEntry(walFile, i)
  BY <1>1, <1>4 DEF WalkVerified, pos
<1>8. AtHead => AtHead'
  BY <1>3 DEF AtHead
<1>9. WalkVerified'
  BY <1>1, <1>2, <1>3, <1>4, <1>5, <1>6, <1>7, <1>8 DEF WalkVerified
<1> QED
  BY <1>3, <1>9 DEF LogInv

(* A walk that returns over a file it leaves alone: verify(), or a         *)
(* recover() that has verified every cell.                                 *)
LEMMA WalkReturnsSame ==
    ASSUME WALTypeOK, LogInv, wal_pc = "walking", Adopt,
           UNCHANGED diskVars,
           walk.truncate => walk.pos = Len(walFile) + 1
    PROVE  LogInv'
<1>1. WalkVerified /\ GoodLog(walFile) /\ walFile # <<>> /\ Len(walFile) \in Nat
  BY LenProperties DEF LogInv, WALTypeOK
<1>2. walFile' = walFile /\ walOld' = walOld
  BY DEF diskVars
<1>3. CASE walk.truncate
  <2>1. m_seq' = walk.expectedSeq /\ m_headHash' = walk.prevHash /\ wal_pc' = "ready"
    BY <1>3 DEF Adopt
  <2>2. WholeLog(walFile)
    BY <1>1, <1>3 DEF WalkVerified, WholeLog, GoodLog
  <2>3. AtHead'
    BY <1>1, <1>2, <1>3, <2>1, <2>2 DEF WalkVerified, AtHead
  <2> QED
    BY <1>1, <1>2, <2>1, <2>3 DEF LogInv
<1>4. CASE ~walk.truncate
  <2>1. wal_pc' = walk.back /\ m_seq' = m_seq /\ m_headHash' = m_headHash
    BY <1>4 DEF Adopt, handleVars
  <2>2. walk.back \in {"open", "ready"} /\ (walk.back = "ready" => AtHead)
    BY <1>1 DEF WalkVerified
  <2>3. wal_pc' = "ready" => AtHead'
    BY <1>2, <2>1, <2>2 DEF AtHead
  <2> QED
    BY <1>1, <1>2, <2>1, <2>2, <2>3 DEF LogInv
<1> QED
  BY <1>3, <1>4

(* A walk that reaches the end of the file has verified the whole log. *)
LEMMA WalkEndChain ==
    ASSUME WALTypeOK, LogInv, WalkEnd
    PROVE  LogInv'
<1>1. WalkEnd
  OBVIOUS
<1>2. WalkVerified /\ Len(walFile) \in Nat
  BY <1>1, LenProperties DEF LogInv, WALTypeOK, WalkEnd
<1>3. walk.pos = Len(walFile) + 1
  BY <1>1, <1>2 DEF WalkEnd, WalkAtEnd, WalkVerified
<1> QED
  BY <1>1, <1>3, WalkReturnsSame DEF WalkEnd

(* The torn cell goes and the whole log before it stays. *)
LEMMA CutIsWhole ==
    ASSUME WALTypeOK, LogInv, wal_pc = "walking", walk.pos \in 2..Len(walFile)
    PROVE  /\ VerifiedPrefix = SubSeq(walFile, 1, walk.pos - 1)
           /\ WholeLog(VerifiedPrefix)
           /\ Len(VerifiedPrefix) = walk.pos - 1
           /\ \A i \in 1..(walk.pos - 1) : VerifiedPrefix[i] = walFile[i]
<1> DEFINE p == walk.pos
<1>1. /\ walFile \in Seq(Cell) /\ Len(walFile) \in Nat /\ GoodLog(walFile)
  BY LenProperties DEF WALTypeOK, LogInv
<1>2. p - 1 \in 1..Len(walFile) /\ p - 1 # Len(walFile) /\ p - 1 \in 0..Len(walFile) /\ p # 1
  BY <1>1
<1>3. VerifiedPrefix = SubSeq(walFile, 1, p - 1)
  BY <1>2 DEF VerifiedPrefix
<1>4. WholeLog(SubSeq(walFile, 1, p - 1))
  BY <1>1, <1>2, GoodPrefixWhole
<1>5. /\ Len(SubSeq(walFile, 1, p - 1)) = p - 1
      /\ \A i \in 1..(p - 1) : SubSeq(walFile, 1, p - 1)[i] = walFile[i]
  BY <1>1, <1>2, PrefixFacts
<1> QED
  BY <1>3, <1>4, <1>5

(* A torn tail is the last cell, and what is left without it is the        *)
(* verified prefix.                                                        *)
LEMMA WalkTornChain ==
    ASSUME WALTypeOK, LogInv, ChainSafe, WalkTorn
    PROVE  LogInv'
<1>1. /\ wal_pc = "walking" /\ walk.pos \in 2..Len(walFile) /\ Len(walFile) \in Nat
  BY WalkCell, LenProperties DEF WalkTorn, WALTypeOK
<1>2. Adopt
  BY DEF WalkTorn, ReturnTorn
<1>3. CASE walk.truncate
  <2>1. FileTruncateTo(VerifiedPrefix)
    BY <1>3, SafeFailures DEF WalkTorn, ReturnTorn
  <2>2. /\ WholeLog(VerifiedPrefix) /\ Len(VerifiedPrefix) = walk.pos - 1
        /\ \A i \in 1..(walk.pos - 1) : VerifiedPrefix[i] = walFile[i]
    BY <1>1, CutIsWhole
  <2>3. /\ walFile' = VerifiedPrefix /\ GoodLog(walFile')
        /\ \A g \in walOld' : GoodLog(g)
    BY <2>1, <2>2, WholeIsGood, TruncateKeepsGood
  <2>4. m_seq' = walk.expectedSeq /\ m_headHash' = walk.prevHash /\ wal_pc' = "ready"
    BY <1>2, <1>3 DEF Adopt
  <2>5. walk.expectedSeq = walk.pos - 2 /\ walk.prevHash = PrevHash(walFile, walk.pos)
    BY <1>1 DEF LogInv, WalkVerified
  <2>6. PrevHash(walFile', walk.pos) = PrevHash(walFile, walk.pos)
    BY <1>1, <2>2, <2>3 DEF PrevHash
  <2>7. Len(walFile') = walk.pos - 1 /\ WholeLog(walFile')
    BY <2>2, <2>3
  <2>8. m_seq' = Len(walFile') - 1 /\ m_headHash' = PrevHash(walFile', Len(walFile') + 1)
    BY <1>1, <2>4, <2>5, <2>6, <2>7
  <2>9. AtHead'
    BY <2>7, <2>8 DEF AtHead
  <2> QED
    BY <1>2, <2>3, <2>4, <2>9 DEF LogInv
<1>4. CASE ~walk.truncate
  <2>1. UNCHANGED diskVars
    BY <1>4 DEF WalkTorn, ReturnTorn
  <2> QED
    BY <1>1, <1>2, <1>4, <2>1, WalkReturnsSame
<1> QED
  BY <1>3, <1>4

(* walkChain() finds nothing to refuse in a good log. *)
LEMMA NeverRefused ==
    ASSUME WALTypeOK, LogInv, ChainSafe
    PROVE  ~WalkRefused
BY WalkCell DEF WalkRefused

(* ChainSafe rules the failures of walkChain()'s own calls out. *)
LEMMA WalkNeverFails ==
    ASSUME ChainSafe
    PROVE  ~WalkFails
BY SafeFailures DEF WalkFails, WalkStatFails, WalkReadFails

(* reset() starts with a flush. *)
LEMMA ResetSyncChain ==
    ASSUME LogInv, ResetSync, UNCHANGED <<m_seq, m_headHash, status>>
    PROVE  LogInv'
<1>1. FileSync \/ UNCHANGED diskVars
  BY Zenon DEF ResetSync
<1>2. wal_pc = "ready" /\ wal_pc' = "resetting"
  BY Zenon DEF ResetSync
<1>3. walFile' = walFile /\ walOld' \subseteq walOld
  BY <1>1, SameFile
<1> QED
  BY <1>2, <1>3 DEF LogInv, AtHead

(* reset() ends the chain and starts a new one, or keeps it. *)
LEMMA ResetChain ==
    ASSUME WALTypeOK, LogInv, ChainSafe, ClientReset \/ WALRotate
    PROVE  LogInv'
<1>1. CASE ClientReset
  BY <1>1, ResetSyncChain DEF ClientReset, handleVars
<1>2. CASE ResetTruncate
  <2>1. GoodLog(<<>>)
    BY DEF GoodLog
  <2>2. walFile' = <<>> /\ GoodLog(walFile') /\ \A g \in walOld' : GoodLog(g)
    BY <1>2, <2>1, TruncateKeepsGood DEF ResetTruncate
  <2> QED
    BY <1>2, <2>2 DEF ResetTruncate, LogInv
<1>3. CASE ResetHeader
  <2>1. walFile' = <<Header>> /\ walOld' = walOld
    BY <1>3 DEF ResetHeader, FileAppend, LogInv
  <2>2. GoodLog(<<Header>>)
    BY DEF GoodLog
  <2> QED
    BY <1>3, <2>1, <2>2 DEF ResetHeader, LogInv
<1>4. CASE ResetReturn
  <2>1. walFile' = <<Header>> /\ walOld' \subseteq walOld /\ wal_pc' = "ready"
        /\ status' = status /\ m_seq' = 0 /\ m_headHash' = ZeroHash
    BY <1>4, SameFile DEF ResetReturn, LogInv
  <2>2. WholeLog(<<Header>>) /\ Len(<<Header>>) = 1 /\ PrevHash(<<Header>>, 1 + 1) = ZeroHash
    BY DEF WholeLog, PrevHash
  <2>3. AtHead'
    BY <2>1, <2>2 DEF AtHead
  <2> QED
    BY <2>1, <2>2, <2>3, WholeIsGood DEF LogInv
<1>5. CASE ResetFails
  <2>1. /\ walFile' = walFile /\ walOld' = walOld
        /\ wal_pc = "resetting" /\ wal_pc' = "ready"
        /\ UNCHANGED <<m_seq, m_headHash, status>>
    BY <1>5, SafeFailures DEF ResetFails, diskVars, handleVars
  <2> QED
    BY <2>1 DEF LogInv, AtHead
<1> QED
  BY <1>1, <1>2, <1>3, <1>4, <1>5 DEF WALRotate

(* The end of the process or of the power leaves a good log. *)
LEMMA EndChain ==
    ASSUME WALTypeOK, LogInv, ChainSafe,
           Close \/ Kill \/ \E survivor \in Survivors : PowerLoss(survivor)
    PROVE  LogInv'
<1>1. CASE Close \/ Kill
  <2>1. /\ walFile' = walFile /\ walOld' \subseteq walOld
        /\ wal_pc' = "closed" /\ (status' = status \/ status' = "none")
    BY <1>1, SameFile DEF Close, CloseFlush, Kill
  <2> QED
    BY <2>1, ChainWhenClosed DEF LogInv
<1>2. ASSUME NEW survivor \in Survivors, PowerLoss(survivor)
      PROVE  LogInv'
  <2>1. GoodLog(survivor)
    BY GoodSurvivors
  <2> QED
    BY <1>2, <2>1, ChainWhenClosed DEF PowerLoss
<1> QED
  BY <1>1, <1>2

(* Every step keeps the chain invariant. *)
LEMMA LogStep ==
    ASSUME ChainSafe, WALTypeOK, LogInv, [WALNext]_walVars
    PROVE  LogInv'
<1>1. CASE WALOpen
  BY <1>1, OpenChain
<1>2. CASE WALWalk
  BY <1>2, WalkEntryChain, WalkEndChain, WalkTornChain, NeverRefused DEF WALWalk
<1>3. CASE WALRotate \/ ClientReset
  BY <1>3, ResetChain
<1>4. CASE ClientRecover \/ verify
  BY <1>4, WalkStartChain DEF ClientRecover, verify, handleVars
<1>5. CASE ClientSetEpoch
  BY <1>5 DEF ClientSetEpoch, diskVars, LogInv, AtHead, WalkVerified
<1>6. CASE ClientAppend
  <2>1. PICK type \in RecordType, key \in Keys, blob \in Blobs :
          \/ AppendWrite(type, key, blob, 0)
          \/ AppendWriteFails(key, blob)
          \/ AppendKilled(key, blob)
    BY <1>6 DEF ClientAppend
  <2> QED
    BY <2>1, AppendWriteChain, AppendFailsChain
<1>7. CASE AppendReturn \/ AppendSyncFails
  BY <1>7, AppendReturnChain
<1>8. CASE Close \/ Kill \/ \E survivor \in Survivors : PowerLoss(survivor)
  BY <1>8, EndChain
<1>9. CASE UNCHANGED walVars
  BY <1>9 DEF walVars, diskVars, handleVars, LogInv, AtHead, WalkVerified
<1> QED
  BY <1>1, <1>2, <1>3, <1>4, <1>5, <1>6, <1>7, <1>8, <1>9, WalkNeverFails DEF WALNext

(* Nor does any of them report a defect of the log. *)
LEMMA ChainStep ==
    ASSUME ChainSafe, WALTypeOK, ChainInv, [WALNext]_walVars
    PROVE  ChainInv'
<1> USE DEF ChainInv
<1>1. ~OpenRefused
  BY SafeFailures DEF OpenRefused, LogInv, GoodLog, validateHeader
<1>2. ~WalkRefused /\ ~WalkFails
  BY NeverRefused, WalkNeverFails
<1>3. status' = status \/ status' \in {"none", "Ok", "TruncatedTail"}
  <2>1. CASE WALOpen \/ WALWalk
    BY <1>1, <1>2, <2>1, Zenon
    DEF WALOpen, OpenEmpty, OpenCreate, OpenCreateFails, OpenSync, OpenSyncFails, OpenExisting,
        WALWalk, WalkEntry, WalkEnd, WalkTorn, ReturnTorn
  <2>2. CASE WALRotate \/ ClientRecover \/ verify \/ ClientSetEpoch \/ ClientReset
    BY <2>2, Zenon
    DEF WALRotate, ResetTruncate, ResetHeader, ResetReturn, ResetFails, ClientRecover, verify,
        ClientSetEpoch, ClientReset
  <2>3. CASE ClientAppend
    BY <2>3, Zenon DEF ClientAppend, AppendWrite, AppendWriteFails, AppendKilled
  <2>4. CASE AppendReturn \/ AppendSyncFails \/ Close \/ Kill
    BY <2>4, Zenon DEF AppendReturn, AppendSyncFails, Close, Kill
  <2>5. CASE \E survivor \in Survivors : PowerLoss(survivor)
    BY <2>5, Zenon DEF PowerLoss
  <2>6. CASE UNCHANGED walVars
    BY <2>6 DEF walVars
  <2> QED
    BY <1>2, <2>1, <2>2, <2>3, <2>4, <2>5, <2>6 DEF WALNext
<1>4. OwnLogAccepted'
  BY <1>3 DEF OwnLogAccepted
<1> QED
  BY <1>4, LogStep

(* Under the failures that the class copes with, the log and the object's  *)
(* chain state agree at every step of every call, and so does every file   *)
(* that a power loss can leave.                                            *)
THEOREM ChainInvariant ==
    ASSUME ChainSafe
    PROVE  WALSpec => []ChainInv
<1>1. WALInit => WALTypeOK /\ ChainInv
  BY InitType, ChainInit DEF ChainInv, OwnLogAccepted, WALInit
<1>2. (WALTypeOK /\ ChainInv) /\ [WALNext]_walVars => (WALTypeOK /\ ChainInv)'
  BY TypeStep, ChainStep
<1> QED
  BY <1>1, <1>2, PTL DEF WALSpec

(* verify(), recover() and the constructor accept every file that only     *)
(* this class wrote, through any number of kills, power losses and         *)
(* restarts.                                                               *)
THEOREM OwnLogs ==
    ASSUME ChainSafe
    PROVE  WALSpec => []OwnLogAccepted
<1>1. ChainInv => OwnLogAccepted
  BY DEF ChainInv
<1> QED
  BY <1>1, ChainInvariant, PTL

(* head() always exports the number of entries in the file and the hash of *)
(* the last one.                                                           *)
THEOREM Checkpoints ==
    ASSUME ChainSafe
    PROVE  WALSpec => []CheckpointMatchesLog
<1>1. ChainInv => CheckpointMatchesLog
  BY DEF ChainInv, LogInv, CheckpointMatchesLog
<1> QED
  BY <1>1, ChainInvariant, PTL

(* A step of the walk keeps every complete entry in its place. *)
LEMMA WalkKeepsEntries ==
    ASSUME WALTypeOK, LogInv, ChainSafe, [WALNext]_walVars,
           wal_pc = "walking", wal_pc' # "closed",
           NEW i \in 1..Len(walFile), walFile[i].kind = "entry"
    PROVE  i <= Len(walFile') /\ walFile'[i] = walFile[i]
<1>1. CASE walFile' = walFile
  <2>1. Len(walFile) \in Nat
    BY LenProperties DEF WALTypeOK
  <2> QED
    BY <1>1, <2>1
<1>2. CASE WalkTorn /\ FileTruncateTo(VerifiedPrefix)
  <2>1. /\ walk.pos = Len(walFile) /\ walFile[walk.pos] = Part
        /\ walk.pos \in 2..Len(walFile) /\ Len(walFile) \in Nat
    BY <1>2, WalkCell, LenProperties DEF WalkTorn, WALTypeOK
  <2>2. i \in 1..(walk.pos - 1)
    <3>1. i # walk.pos
      BY <2>1, CellFacts
    <3> QED
      BY <2>1, <3>1
  <2>3. walFile' = VerifiedPrefix
    BY <1>2 DEF FileTruncateTo
  <2>4. /\ Len(VerifiedPrefix) = walk.pos - 1
        /\ \A j \in 1..(walk.pos - 1) : VerifiedPrefix[j] = walFile[j]
    BY <2>1, CutIsWhole
  <2> QED
    BY <2>1, <2>2, <2>3, <2>4
<1>3. walFile' = walFile \/ (WalkTorn /\ FileTruncateTo(VerifiedPrefix))
  <2>1. CASE WALWalk
    BY <2>1 DEF WALWalk, WalkEntry, WalkEnd, WalkTorn, ReturnTorn, WalkRefused, diskVars
  <2>2. CASE UNCHANGED walVars
    BY <2>2 DEF walVars, diskVars
  <2>3. ~WALOpen
    BY DEF WALOpen, OpenEmpty, OpenCreate, OpenCreateFails, OpenSync, OpenSyncFails, OpenExisting,
           OpenRefused
  <2>4. ~WALRotate /\ ~ClientReset
    BY DEF WALRotate, ResetTruncate, ResetHeader, ResetReturn, ResetFails,
           ClientReset, ResetSync
  <2>5. ~ClientRecover /\ ~verify /\ ~ClientSetEpoch /\ ~AppendReturn /\ ~AppendSyncFails
    BY DEF ClientRecover, verify, WalkStart, ClientSetEpoch, AppendReturn, AppendSyncFails
  <2>6. ~ClientAppend
    BY DEF ClientAppend, AppendWrite, AppendWriteFails, AppendKilled
  <2>7. ~Close /\ ~Kill /\ ~\E survivor \in Survivors : PowerLoss(survivor)
    BY DEF Close, Kill, PowerLoss
  <2> QED
    BY <2>1, <2>2, <2>3, <2>4, <2>5, <2>6, <2>7, WalkNeverFails DEF WALNext
<1> QED
  BY <1>1, <1>2, <1>3

(* recover() never cuts a complete entry off the log. *)
THEOREM RecoveryKeeps ==
    ASSUME ChainSafe
    PROVE  WALSpec => RecoveryKeepsEntries
<1>1. WALInit => WALTypeOK /\ ChainInv
  BY InitType, ChainInit DEF ChainInv, OwnLogAccepted, WALInit
<1>2. (WALTypeOK /\ ChainInv) /\ [WALNext]_walVars => (WALTypeOK /\ ChainInv)'
  BY TypeStep, ChainStep
<1>3. (WALTypeOK /\ ChainInv) /\ [WALNext]_walVars
        => [wal_pc = "walking" /\ wal_pc' # "closed"
              => \A i \in 1..Len(walFile) :
                   walFile[i].kind = "entry" => i <= Len(walFile') /\ walFile'[i] = walFile[i]]_walVars
  BY WalkKeepsEntries DEF ChainInv
<1> QED
  BY <1>1, <1>2, <1>3, PTL DEF WALSpec, RecoveryKeepsEntries

-----------------------------------------------------------------------------
(* The group commit. *)

(* Only failures happen that leave nothing unsynced uncounted. *)
CountSafe == Failures \subseteq CountSafeFailures

Unsynced == Len(walFile) - walFloor

(* The failures that CountSafe rules out. *)
LEMMA CountedFailures ==
    ASSUME CountSafe
    PROVE  /\ "kill" \notin Failures /\ "torn header" \notin Failures
           /\ "partial write" \notin Failures /\ "append fsync" \notin Failures
           /\ "open fsync" \notin Failures /\ "close fsync" \notin Failures
           /\ "reset header fsync" \notin Failures
BY DEF CountSafe, CountSafeFailures

(* The clamp of the constructor makes N positive. *)
LEMMA SyncEveryPositive == m_syncEveryN \in Nat \ {0}
BY WALAssumption DEF m_syncEveryN

(* What the numbers of the invariant are. *)
LEMMA CountTypes ==
    ASSUME WALTypeOK
    PROVE  /\ Len(walFile) \in Nat /\ walFloor \in Nat /\ walFloor <= Len(walFile)
           /\ m_pendingWrites \in Nat /\ Unsynced \in Nat
BY LenProperties DEF WALTypeOK, Unsynced

(* fsync() leaves nothing unsynced. *)
LEMMA SyncLeavesNothing ==
    ASSUME WALTypeOK, FileSync
    PROVE  Unsynced' = 0
<1>1. walFloor' = Len(walFile) /\ walFile' = walFile
  BY DEF FileSync
<1> QED
  BY <1>1, CountTypes DEF Unsynced

(* write() adds one unsynced cell. *)
LEMMA AppendAddsOne ==
    ASSUME WALTypeOK, NEW cell, FileAppend(cell)
    PROVE  Unsynced' = Unsynced + 1
<1>1. walFile' = Append(walFile, cell) /\ walFloor' = walFloor
  BY DEF FileAppend
<1>2. Len(Append(walFile, cell)) = Len(walFile) + 1
  BY DEF WALTypeOK
<1> QED
  BY <1>1, <1>2, CountTypes DEF Unsynced

(* A truncation adds no unsynced cell. *)
LEMMA TruncateAddsNothing ==
    ASSUME WALTypeOK, NEW f \in Seq(Cell), Len(f) <= Len(walFile), FileTruncateTo(f)
    PROVE  Unsynced' <= Unsynced
<1>1. walFile' = f /\ walFloor' = IF walFloor < Len(f) THEN walFloor ELSE Len(f)
  BY DEF FileTruncateTo
<1>2. Len(f) \in Nat
  BY LenProperties
<1> QED
  BY <1>1, <1>2, CountTypes DEF Unsynced

(* A step that leaves the disk alone leaves the unsynced cells alone. *)
LEMMA SameUnsynced ==
    ASSUME UNCHANGED diskVars
    PROVE  Unsynced' = Unsynced
BY DEF diskVars, Unsynced

(* The invariant in terms of Unsynced, now and after a step. *)
LEMMA CountParts ==
    /\ GroupCommitInv <=>
         /\ wal_pc \notin {"opening", "rotated"} => Unsynced <= m_pendingWrites
         /\ m_pendingWrites <= m_syncEveryN
         /\ wal_pc # "appended" => m_pendingWrites < m_syncEveryN
    /\ GroupCommitInv' <=>
         /\ wal_pc' \notin {"opening", "rotated"} => Unsynced' <= m_pendingWrites'
         /\ m_pendingWrites' <= m_syncEveryN
         /\ wal_pc' # "appended" => m_pendingWrites' < m_syncEveryN
BY DEF GroupCommitInv, Unsynced, m_syncEveryN

(* The count holds in the beginning. *)
LEMMA CountInit == WALInit => GroupCommitInv
<1> SUFFICES ASSUME WALInit PROVE GroupCommitInv
  OBVIOUS
<1>1. Len(walFile) = 0 /\ walFloor = 0 /\ m_pendingWrites = 0 /\ wal_pc = "closed"
  BY EmptySeq DEF WALInit
<1> QED
  BY <1>1, SyncEveryPositive DEF GroupCommitInv

(* The constructor syncs the header that it writes. *)
LEMMA OpenCount ==
    ASSUME WALTypeOK, GroupCommitInv, CountSafe, WALOpen
    PROVE  GroupCommitInv'
<1> USE CountParts
<1>1. m_pendingWrites' = m_pendingWrites
  BY DEF WALOpen, OpenEmpty, OpenCreate, OpenCreateFails, OpenSync, OpenSyncFails, OpenExisting,
         OpenRefused, handleVars
<1>2. wal_pc # "appended" /\ wal_pc' # "appended"
  BY DEF WALOpen, OpenEmpty, OpenCreate, OpenCreateFails, OpenSync, OpenSyncFails, OpenExisting, OpenRefused
<1>3. CASE OpenCreate
  BY <1>1, <1>2, <1>3 DEF OpenCreate
<1>4. CASE OpenSync
  <2>1. Unsynced' = 0
    BY <1>4, SyncLeavesNothing DEF OpenSync
  <2> QED
    BY <1>1, <1>2, <2>1, CountTypes
<1>5. CASE OpenEmpty \/ OpenCreateFails \/ OpenExisting \/ OpenRefused
  <2>1. UNCHANGED diskVars /\ wal_pc \in {"closed", "creating"}
    BY <1>5, CountedFailures DEF OpenEmpty, OpenCreateFails, OpenExisting, OpenRefused
  <2> QED
    BY <1>1, <1>2, <2>1, SameUnsynced
<1>6. ~OpenSyncFails
  BY CountedFailures DEF OpenSyncFails
<1> QED
  BY <1>3, <1>4, <1>5, <1>6 DEF WALOpen

(* append() counts what it writes, and syncs at the N-th write. *)
LEMMA AppendCount ==
    ASSUME WALTypeOK, GroupCommitInv, CountSafe, ClientAppend \/ AppendReturn \/ AppendSyncFails
    PROVE  GroupCommitInv'
<1> USE CountParts
<1>1. CASE ClientAppend
  <2>1. PICK type \in RecordType, key \in Keys, blob \in Blobs :
          \/ AppendWrite(type, key, blob, 0)
          \/ AppendWriteFails(key, blob)
          \/ AppendKilled(key, blob)
    BY <1>1 DEF ClientAppend
  <2>2. CASE AppendWrite(type, key, blob, 0)
    <3>1. /\ wal_pc = "ready" /\ wal_pc' = "appended"
          /\ m_pendingWrites' = m_pendingWrites + 1
      BY <2>2 DEF AppendWrite
    <3>2. Unsynced' = Unsynced + 1
      BY <2>2, AppendAddsOne DEF AppendWrite
    <3> QED
      BY <3>1, <3>2, CountTypes, SyncEveryPositive
  <2>3. CASE AppendWriteFails(key, blob)
    <3>1. UNCHANGED <<diskVars, wal_pc, m_pendingWrites>>
      BY <2>3, CountedFailures DEF AppendWriteFails, handleVars
    <3> QED
      BY <3>1, SameUnsynced
  <2>4. ~AppendKilled(key, blob)
    BY CountedFailures DEF AppendKilled
  <2> QED
    BY <2>1, <2>2, <2>3, <2>4
<1>2. CASE AppendReturn
  <2>1. wal_pc = "appended" /\ wal_pc' = "ready"
    BY <1>2 DEF AppendReturn
  <2>2. CASE SyncDue
    <3>1. Unsynced' = 0 /\ m_pendingWrites' = 0
      BY <1>2, <2>2, SyncLeavesNothing DEF AppendReturn
    <3> QED
      BY <2>1, <3>1, SyncEveryPositive
  <2>3. CASE ~SyncDue
    <3>1. UNCHANGED <<diskVars, m_pendingWrites>> /\ m_pendingWrites < m_syncEveryN
      BY <1>2, <2>3, CountTypes, SyncEveryPositive DEF AppendReturn, SyncDue
    <3> QED
      BY <2>1, <3>1, SameUnsynced
  <2> QED
    BY <2>2, <2>3
<1>3. ~AppendSyncFails
  BY CountedFailures DEF AppendSyncFails
<1> QED
  BY <1>1, <1>2, <1>3

(* What walkChain() cuts the file to is no longer than the file. *)
LEMMA CutIsShorter ==
    ASSUME WALTypeOK, ~WalkAtEnd
    PROVE  VerifiedPrefix \in Seq(Cell) /\ Len(VerifiedPrefix) <= Len(walFile)
<1>1. walk.pos \in 1..Len(walFile) /\ Len(walFile) \in Nat /\ walFile \in Seq(Cell)
  BY WalkReads, LenProperties DEF WALTypeOK
<1>2. walk.pos - 1 \in 0..Len(walFile)
  BY <1>1
<1>3. Len(SubSeq(walFile, 1, walk.pos - 1)) = walk.pos - 1
  BY <1>1, <1>2, PrefixFacts
<1>4. Len(<<Part>>) = 1
  OBVIOUS
<1> QED
  BY <1>1, <1>3, <1>4, VerifiedPrefixType DEF VerifiedPrefix

(* The walk leaves the count alone, and cuts the file at most. *)
LEMMA WalkCount ==
    ASSUME WALTypeOK, GroupCommitInv, WALWalk \/ WalkFails
    PROVE  GroupCommitInv'
<1> USE CountParts
<1>1. wal_pc = "walking" /\ wal_pc' \notin {"opening", "rotated", "appended"}
  BY DEF WALWalk, WalkFails, WalkEntry, WalkEnd, WalkTorn, WalkRefused, WalkStatFails,
         WalkReadFails, ReturnTorn, Adopt, WALTypeOK, WalkLocals
<1>2. m_pendingWrites' = m_pendingWrites
  BY DEF WALWalk, WalkFails, WalkEntry, WalkEnd, WalkTorn, WalkRefused, WalkStatFails,
         WalkReadFails, ReturnTorn, Adopt, handleVars
<1>3. CASE UNCHANGED diskVars
  BY <1>1, <1>2, <1>3, SameUnsynced
<1>4. CASE ~WalkAtEnd /\ FileTruncateTo(VerifiedPrefix)
  <2>1. Unsynced' <= Unsynced
    BY <1>4, CutIsShorter, TruncateAddsNothing
  <2>2. Unsynced' \in Int
    <3>1. Len(VerifiedPrefix) \in Nat
      BY <1>4, CutIsShorter, LenProperties
    <3> QED
      BY <1>4, <3>1, CountTypes DEF FileTruncateTo, Unsynced
  <2> QED
    BY <1>1, <1>2, <2>1, <2>2, CountTypes
<1>5. UNCHANGED diskVars \/ (~WalkAtEnd /\ FileTruncateTo(VerifiedPrefix))
  BY DEF WALWalk, WalkFails, WalkEntry, WalkEnd, WalkTorn, WalkRefused, WalkStatFails,
         WalkReadFails, ReturnTorn
<1> QED
  BY <1>3, <1>4, <1>5

(* reset() ends with nothing pending and nothing unsynced, or keeps both. *)
LEMMA ResetCount ==
    ASSUME WALTypeOK, GroupCommitInv, CountSafe, ClientReset \/ WALRotate
    PROVE  GroupCommitInv'
<1> USE CountParts
<1>1. CASE ClientReset
  <2>1. wal_pc = "ready" /\ wal_pc' = "resetting" /\ m_pendingWrites' = m_pendingWrites
    BY <1>1 DEF ClientReset, ResetSync, handleVars
  <2>2. Unsynced' = 0 \/ Unsynced' = Unsynced
    BY <1>1, SyncLeavesNothing, SameUnsynced DEF ClientReset, ResetSync
  <2> QED
    BY <2>1, <2>2, CountTypes
<1>2. CASE ResetTruncate
  <2>1. /\ wal_pc = "resetting" /\ wal_pc' = "truncated"
        /\ m_pendingWrites' = m_pendingWrites
    BY <1>2 DEF ResetTruncate, handleVars
  <2>2. walFile' = <<>> /\ walFloor' = 0
    BY <1>2, CountTypes, EmptySeq DEF ResetTruncate, FileTruncateTo
  <2>3. Unsynced' = 0
    BY <2>2, EmptySeq DEF Unsynced
  <2> QED
    BY <2>1, <2>3, CountTypes
<1>3. CASE ResetHeader
  BY <1>3 DEF ResetHeader, handleVars
<1>4. CASE ResetReturn
  <2>1. Unsynced' = 0 /\ m_pendingWrites' = 0 /\ wal_pc' = "ready"
    BY <1>4, SyncLeavesNothing DEF ResetReturn
  <2> QED
    BY <2>1, SyncEveryPositive
<1>5. CASE ResetFails
  <2>1. /\ wal_pc \in {"resetting", "truncated"} /\ wal_pc' = "ready"
        /\ UNCHANGED <<diskVars, m_pendingWrites>>
    BY <1>5, CountedFailures DEF ResetFails, handleVars
  <2> QED
    BY <2>1, SameUnsynced
<1> QED
  BY <1>1, <1>2, <1>3, <1>4, <1>5 DEF WALRotate

(* close() flushes what is pending, and a power loss leaves a file that is *)
(* on disk.                                                                *)
LEMMA EndCount ==
    ASSUME WALTypeOK, GroupCommitInv, CountSafe,
           Close \/ Kill \/ \E survivor \in Survivors : PowerLoss(survivor)
    PROVE  GroupCommitInv'
<1> USE CountParts
<1>1. ~Kill
  BY CountedFailures DEF Kill
<1>2. wal_pc' = "closed" /\ m_pendingWrites' = 0
  BY <1>1 DEF Close, PowerLoss, HandleReset
<1>3. CASE Close
  <2>1. wal_pc \notin {"opening", "rotated"}
    BY <1>3 DEF Close
  <2>2. CASE FileSync
    BY <1>2, <2>2, SyncLeavesNothing, SyncEveryPositive
  <2>3. CASE m_pendingWrites = 0 /\ UNCHANGED diskVars
    BY <1>2, <2>1, <2>3, SameUnsynced, SyncEveryPositive
  <2>4. FileSync \/ (~(m_pendingWrites > 0) /\ UNCHANGED diskVars)
    BY <1>3, CountedFailures DEF Close, CloseFlush
  <2> QED
    BY <2>2, <2>3, <2>4, CountTypes
<1>4. ASSUME NEW survivor \in Survivors, PowerLoss(survivor)
      PROVE  GroupCommitInv'
  <2>1. walFile' = survivor /\ walFloor' = Len(survivor) /\ Len(survivor) \in Nat
    BY <1>4, SurvivorsType, LenProperties DEF PowerLoss
  <2>2. Unsynced' = 0
    BY <2>1 DEF Unsynced
  <2> QED
    BY <1>2, <2>2, SyncEveryPositive
<1> QED
  BY <1>1, <1>3, <1>4

(* Every step keeps the count. *)
LEMMA CountStep ==
    ASSUME CountSafe, WALTypeOK, GroupCommitInv, [WALNext]_walVars
    PROVE  GroupCommitInv'
<1> USE CountParts
<1>1. CASE WALOpen
  BY <1>1, OpenCount
<1>2. CASE WALWalk \/ WalkFails
  BY <1>2, WalkCount
<1>3. CASE WALRotate \/ ClientReset
  BY <1>3, ResetCount
<1>4. CASE ClientRecover \/ verify \/ ClientSetEpoch
  <2>1. /\ UNCHANGED <<diskVars, m_pendingWrites>>
        /\ wal_pc \in {"open", "ready"} /\ wal_pc' \in {"walking", "ready"}
    BY <1>4 DEF ClientRecover, verify, WalkStart, ClientSetEpoch, handleVars
  <2> QED
    BY <2>1, SameUnsynced
<1>5. CASE ClientAppend \/ AppendReturn \/ AppendSyncFails
  BY <1>5, AppendCount
<1>6. CASE Close \/ Kill \/ \E survivor \in Survivors : PowerLoss(survivor)
  BY <1>6, EndCount
<1>7. CASE UNCHANGED walVars
  BY <1>7, SameUnsynced DEF walVars, handleVars
<1> QED
  BY <1>1, <1>2, <1>3, <1>4, <1>5, <1>6, <1>7 DEF WALNext

(* The count of pending writes covers all that is not on disk, and stays   *)
(* below N between two calls, for every syncEveryN.                        *)
THEOREM GroupCommitInvariant ==
    ASSUME CountSafe
    PROVE  WALSpec => [](WALTypeOK /\ GroupCommitInv)
<1>1. WALInit => WALTypeOK /\ GroupCommitInv
  BY InitType, CountInit
<1>2. (WALTypeOK /\ GroupCommitInv) /\ [WALNext]_walVars => (WALTypeOK /\ GroupCommitInv)'
  BY TypeStep, CountStep
<1> QED
  BY <1>1, <1>2, PTL DEF WALSpec

(* With syncEveryN = N, a power cut takes at most N-1 appends that         *)
(* returned, through any number of rotations, shutdowns, power losses and  *)
(* restarts, and also when reads, truncations and rotations fail.          *)
THEOREM GroupCommit ==
    ASSUME CountSafe
    PROVE  WALSpec => []GroupCommitBound
<1>1. WALTypeOK /\ GroupCommitInv => GroupCommitBound
  BY CountTypes, SyncEveryPositive DEF GroupCommitInv, GroupCommitBound
<1> QED
  BY <1>1, GroupCommitInvariant, PTL

=============================================================================
