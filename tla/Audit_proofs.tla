---------------------------- MODULE Audit_proofs ----------------------------
(***************************************************************************)
(* Proofs about litespeed-verify beside a running engine, for every set of *)
(* keys and values and a log of any length.                                *)
(***************************************************************************)
EXTENDS Audit, WAL_proofs

-----------------------------------------------------------------------------
(* Walks over a file, the tool's and the engine's. *)

(* The entry at the walk's position passes the checks of walkChain() just  *)
(* if it is the good entry there.                                          *)
Accepts(w, c) ==
    /\ ~Oversize(c.body)
    /\ c.hash = ChainHash(w.prevHash, c.body)
    /\ c.body.seq = w.expectedSeq

(* What a verified walk accepts is the next good entry, and nothing else. *)
LEMMA AcceptsGood ==
    ASSUME NEW f, NEW w, Verified(f, w), f[w.pos].kind = "entry"
    PROVE  Accepts(w, f[w.pos]) <=> GoodEntry(f, w.pos)
BY DEF Verified, Accepts, GoodEntry

(* The walk's locals after an entry. *)
Advance(f, w) ==
    [w EXCEPT !.pos = w.pos + 1, !.prevHash = f[w.pos].hash,
              !.expectedSeq = f[w.pos].body.seq + 1]

(* The fields of the walk's locals after an entry. *)
LEMMA AdvanceFields ==
    ASSUME NEW f, NEW w \in WalkLocals
    PROVE  /\ Advance(f, w).pos = w.pos + 1
           /\ Advance(f, w).prevHash = f[w.pos].hash
           /\ Advance(f, w).expectedSeq = f[w.pos].body.seq + 1
           /\ Advance(f, w).truncate = w.truncate /\ Advance(f, w).back = w.back
BY DEF Advance, WalkLocals

(* A good entry takes a verified walk one cell on. *)
LEMMA AdvanceVerified ==
    ASSUME NEW f \in Seq(Cell), NEW w \in WalkLocals, Verified(f, w),
           w.pos <= Len(f), GoodEntry(f, w.pos)
    PROVE  Verified(f, Advance(f, w))
<1> DEFINE v == Advance(f, w)
<1>1. /\ w.pos \in 2..Len(f) /\ Len(f) \in Nat /\ w.pos \in Nat
      /\ v.pos = w.pos + 1 /\ v.prevHash = f[w.pos].hash
      /\ v.expectedSeq = f[w.pos].body.seq + 1
  BY AdvanceFields, LenProperties DEF Verified
<1> HIDE DEF v
<1>2. v.pos \in 2..(Len(f) + 1)
  BY <1>1
<1>3. \A i \in 2..(v.pos - 1) : GoodEntry(f, i)
  <2> SUFFICES ASSUME NEW i \in 2..(v.pos - 1) PROVE GoodEntry(f, i)
    OBVIOUS
  <2>1. i = w.pos \/ i \in 2..(w.pos - 1)
    BY <1>1
  <2> QED
    BY <2>1 DEF Verified
<1>4. v.expectedSeq = v.pos - 2
  BY <1>1 DEF GoodEntry
<1>5. v.prevHash = PrevHash(f, v.pos)
  BY <1>1 DEF PrevHash
<1> QED
  BY <1>2, <1>3, <1>4, <1>5 DEF Verified, v

(* The walk begins verified behind a header. *)
LEMMA StartVerified ==
    ASSUME NEW f \in Seq(Cell), f # <<>>, NEW w, w.pos = 2, w.expectedSeq = 0,
           w.prevHash = ZeroHash
    PROVE  Verified(f, w)
<1>1. Len(f) \in Nat \ {0}
  BY LenProperties, EmptySeq
<1> QED
  BY <1>1 DEF Verified, PrevHash

-----------------------------------------------------------------------------
(* The tool's walk, in the terms of this module. *)

(* The walk is over. *)
ToolDone == tool_walk' = NoWalk /\ tool_pc' = "open"

(* An entry is accepted; the end of the file; a torn tail; an alarm. *)
ToolOnEntry ==
    /\ tool_walk.pos \in 2..Len(seen)
    /\ seen[tool_walk.pos].kind = "entry" /\ Accepts(tool_walk, seen[tool_walk.pos])
    /\ tool_walk' = Advance(seen, tool_walk) /\ UNCHANGED <<tool_pc, verdict>>

ToolOnEnd == tool_walk.pos > Len(seen) /\ verdict' = "Ok" /\ ToolDone

ToolOnTorn ==
    /\ tool_walk.pos \in 2..Len(seen) /\ seen[tool_walk.pos].kind # "entry"
    /\ verdict' = "TruncatedTail" /\ ToolDone

ToolOnDefect ==
    /\ tool_walk.pos \in 2..Len(seen)
    /\ \/ seen[tool_walk.pos].kind = "entry" /\ ~Accepts(tool_walk, seen[tool_walk.pos])
       \/ seen[tool_walk.pos].kind # "entry" /\ tool_walk.pos # Len(seen)
    /\ verdict' \in {"Malformed", "Tampered"} /\ ToolDone

(* The checks in the code's order are those of Accepts. *)
LEMMA ToolVerdict ==
    ASSUME NEW c
    PROVE  /\ ToolWal!EntryVerdict(c) = "Ok" <=> Accepts(tool_walk, c)
           /\ ToolWal!EntryVerdict(c) \in {"Ok", "Malformed", "Tampered"}
BY DEF ToolWal!EntryVerdict, Accepts, ToolWal!Oversize, Oversize, ToolWal!ChainHash, ChainHash

(* What the tool may read at its position. *)
LEMMA ToolReadResults ==
    ASSUME ToolTypeOK
    PROVE  /\ seen[tool_walk.pos].kind = "entry"
                => ToolWal!ReadResults = {ToolWal!EntryVerdict(seen[tool_walk.pos])}
           /\ seen[tool_walk.pos].kind # "entry" /\ tool_walk.pos = Len(seen)
                => ToolWal!ReadResults = {"TruncatedTail"}
           /\ seen[tool_walk.pos].kind # "entry" /\ tool_walk.pos # Len(seen)
                => ToolWal!ReadResults = {"TruncatedTail", "Malformed", "Tampered"}
<1>1. tool_walk.pos > 1
  BY DEF ToolTypeOK, WalkLocals
<1> QED
  BY <1>1 DEF ToolWal!ReadResults

(* The steps of the tool's walk; none of them cuts the file. *)
LEMMA ToolWalkStep ==
    ASSUME ToolTypeOK, ToolWal!WALWalk
    PROVE  /\ tool_pc = "walking" /\ seen' = seen
           /\ ToolOnEntry \/ ToolOnEnd \/ ToolOnTorn \/ ToolOnDefect
<1>0. /\ tool_walk \in WalkLocals /\ tool_walk.pos \in Nat /\ tool_walk.pos >= 2
      /\ ~tool_walk.truncate /\ Len(seen) \in Nat
  BY LenProperties DEF ToolTypeOK, WalkLocals
<1>1. /\ ToolWal!WalkAtEnd <=> tool_walk.pos > Len(seen)
      /\ ~ToolWal!WalkAtEnd => tool_walk.pos \in 2..Len(seen)
  BY <1>0 DEF ToolWal!WalkAtEnd
<1>2. tool_pc = "walking"
  BY DEF ToolWal!WALWalk, ToolWal!WalkEntry, ToolWal!WalkEnd, ToolWal!WalkTorn, ToolWal!WalkRefused
<1>3. tool_walk.back = "open"
  BY <1>2 DEF ToolTypeOK
<1>4. NoWalk = ToolWal!NoWalk
  BY DEF NoWalk, ToolWal!NoWalk, ZeroHash, ToolWal!ZeroHash
<1>5. CASE ToolWal!WalkEntry
  <2>1. /\ tool_walk.pos \in 2..Len(seen) /\ "Ok" \in ToolWal!ReadResults
        /\ tool_walk' = Advance(seen, tool_walk)
        /\ seen' = seen /\ UNCHANGED <<tool_pc, verdict>>
    BY <1>1, <1>5 DEF ToolWal!WalkEntry, Advance, ToolWal!diskVars
  <2>2. seen[tool_walk.pos].kind = "entry" /\ Accepts(tool_walk, seen[tool_walk.pos])
    BY <2>1, ToolReadResults, ToolVerdict
  <2> QED
    BY <1>2, <2>1, <2>2 DEF ToolOnEntry
<1>6. CASE ToolWal!WalkEnd
  BY <1>0, <1>1, <1>2, <1>3, <1>4, <1>6
  DEF ToolWal!WalkEnd, ToolWal!Adopt, ToolOnEnd, ToolDone, ToolWal!diskVars
<1>7. CASE ToolWal!WalkTorn
  <2>1. /\ tool_walk.pos \in 2..Len(seen) /\ "TruncatedTail" \in ToolWal!ReadResults
        /\ ToolDone /\ verdict' = "TruncatedTail" /\ seen' = seen
    BY <1>0, <1>1, <1>3, <1>4, <1>7
    DEF ToolWal!WalkTorn, ToolWal!ReturnTorn, ToolWal!Adopt, ToolDone, ToolWal!diskVars
  <2>2. seen[tool_walk.pos].kind # "entry"
    BY <2>1, ToolReadResults, ToolVerdict
  <2> QED
    BY <1>2, <2>1, <2>2 DEF ToolOnTorn
<1>8. CASE ToolWal!WalkRefused
  <2>1. /\ tool_walk.pos \in 2..Len(seen)
        /\ ToolDone /\ seen' = seen
        /\ verdict' \in {"Malformed", "Tampered"} /\ verdict' \in ToolWal!ReadResults
    BY <1>1, <1>3, <1>4, <1>8 DEF ToolWal!WalkRefused, ToolDone, ToolWal!diskVars
  <2>2. \/ seen[tool_walk.pos].kind = "entry" /\ ~Accepts(tool_walk, seen[tool_walk.pos])
        \/ seen[tool_walk.pos].kind # "entry" /\ tool_walk.pos # Len(seen)
    BY <2>1, ToolReadResults, ToolVerdict
  <2> QED
    BY <1>2, <2>1, <2>2 DEF ToolOnDefect
<1> QED
  BY <1>5, <1>6, <1>7, <1>8 DEF ToolWal!WALWalk

-----------------------------------------------------------------------------
(* What the tool's steps keep, whatever the file holds. *)

(* Any step of the tool's process. *)
ToolStep == Tool \/ ToolGoesOn \/ ToolFails

(* A tool that does anything leaves the engine's object alone, and of the  *)
(* file all but what is not yet on disk and the header of one that it      *)
(* found empty.                                                            *)
ToolOnDisk ==
    /\ UNCHANGED <<wal_pc, m_epoch, m_seq, m_headHash, m_pendingWrites, walk, status, damaged>>
    /\ clashed => clashed'
    /\ \/ UNCHANGED diskVars
       \/ FileSync
       \/ /\ FileAppend(Header)
          /\ ~clashed' => walFile = <<>> /\ wal_pc \notin {"creating", "truncated"}

(* A failing system call ends the tool's walk as its end or a torn tail    *)
(* would, and cuts nothing.                                                *)
LEMMA ToolFailStep ==
    ASSUME ToolTypeOK, ToolWalkFails
    PROVE  /\ tool_pc = "walking" /\ UNCHANGED <<seen, diskVars, rotated, lost, promised>>
           /\ ToolDone /\ verdict' \in {"Ok", "TruncatedTail"}
           /\ accepted' = tool_walk.pos - 1 /\ ioError' = TRUE
<1>1. tool_pc = "walking"
  BY DEF ToolWalkFails, ToolWal!WalkFails, ToolWal!WalkStatFails, ToolWal!WalkReadFails
<1>2. ~tool_walk.truncate /\ tool_walk.back = "open"
  BY <1>1 DEF ToolTypeOK
<1>3. NoWalk = ToolWal!NoWalk
  BY DEF NoWalk, ToolWal!NoWalk, ZeroHash, ToolWal!ZeroHash
<1>4. seen' = seen /\ ToolDone /\ verdict' \in {"Ok", "TruncatedTail"}
  BY <1>2, <1>3
  DEF ToolWalkFails, ToolWal!WalkFails, ToolWal!WalkStatFails, ToolWal!WalkReadFails,
      ToolWal!ReturnTorn, ToolWal!Adopt, ToolDone, ToolWal!diskVars
<1> QED
  BY <1>1, <1>4 DEF ToolWalkFails, ToolWalksOn

(* The tool's steps touch the file in no other way. *)
LEMMA ToolTouches ==
    ASSUME ToolTypeOK, ToolStep
    PROVE  ToolOnDisk
<1>1. UNCHANGED engineVars
  BY DEF ToolStep, Tool, ToolGoesOn, ToolFails, ToolFindsNone, ToolFindsEmpty, ToolCreates,
         ToolOpens, ToolLosesHeader, ToolSyncs, ToolStats, ToolWalks, ToolMisreads, ToolExits,
         ToolStarts, ToolStartFails, ToolCreateFails, ToolWalkFails, ToolWalksOn
<1>2. CASE ToolCreates
  <2>1. /\ FileAppend(Header)
        /\ clashed' = (clashed \/ walFile # <<>> \/ wal_pc \in {"creating", "truncated"})
    BY <1>2 DEF ToolCreates
  <2>2. /\ clashed => clashed'
        /\ ~clashed' => walFile = <<>> /\ wal_pc \notin {"creating", "truncated"}
    BY <2>1, Zenon
  <2> QED
    BY <1>1, <2>1, <2>2 DEF ToolOnDisk, engineVars, handleVars
<1>3. CASE ~ToolCreates
  <2>1. ASSUME ToolWalks PROVE UNCHANGED diskVars /\ clashed' = clashed
    BY <2>1, ToolWalkStep DEF ToolWalks, ToolWalksOn
  <2>2. ASSUME ToolWalkFails PROVE UNCHANGED diskVars /\ clashed' = clashed
    BY <2>2, ToolFailStep DEF ToolWalkFails, ToolWalksOn
  <2>3. (UNCHANGED diskVars \/ FileSync) /\ clashed' = clashed
    BY <1>3, <2>1, <2>2
    DEF ToolStep, Tool, ToolGoesOn, ToolFails, ToolFindsNone, ToolFindsEmpty, ToolOpens,
        ToolLosesHeader, ToolSyncs, ToolStats, ToolMisreads, ToolExits, ToolStarts,
        ToolStartFails, ToolCreateFails
  <2> QED
    BY <1>1, <2>3 DEF ToolOnDisk, engineVars, handleVars
<1> QED
  BY <1>2, <1>3

(* So it keeps the types of the engine's variables. *)
LEMMA ToolKeepsTypes ==
    ASSUME WALTypeOK, ToolOnDisk
    PROVE  WALTypeOK'
<1> USE TypeParts
<1>1. DiskTypeOK'
  BY CellFacts, DiskSameType, FileSyncType, FileAppendType DEF ToolOnDisk
<1>2. HandleTypeOK'
  BY DEF ToolOnDisk, HandleTypeOK
<1> QED
  BY <1>1, <1>2

(* And the engine's log, but for a clash. *)
LEMMA ToolKeepsLog ==
    ASSUME WALTypeOK, LogInv, ToolOnDisk, ~clashed'
    PROVE  LogInv'
<1>0. UNCHANGED <<wal_pc, m_seq, m_headHash, walk>>
  BY DEF ToolOnDisk
<1>1. CASE walFile' = walFile /\ walOld' \subseteq walOld
  BY <1>0, <1>1 DEF LogInv, AtHead, WalkVerified
<1>2. CASE FileAppend(Header)
  <2>1. CASE walFile' = walFile
    BY <1>1, <1>2, <2>1 DEF FileAppend
  <2>2. CASE walFile' # walFile
    <3>1. walFile = <<>> /\ wal_pc \notin {"creating", "truncated"}
      BY <2>2, SameFile DEF ToolOnDisk
    <3>2. wal_pc = "closed"
      BY <3>1, CellFacts DEF LogInv, AtHead, WholeLog, WALTypeOK
    <3>3. walFile' = <<Header>> /\ walOld' = walOld /\ wal_pc' = "closed"
      BY <1>0, <1>2, <3>1, <3>2 DEF FileAppend
    <3>4. GoodLog(walFile')
      BY <3>3 DEF GoodLog
    <3> QED
      BY <3>3, <3>4, ChainWhenClosed DEF LogInv
  <2> QED
    BY <2>1, <2>2
<1> QED
  BY <1>1, <1>2, SameFile DEF ToolOnDisk

(* The locals of walkChain() when verify() starts it. *)
LEMMA VerifyFields ==
    /\ Verify \in WalkLocals /\ Verify.pos = 2 /\ Verify.prevHash = ZeroHash
    /\ Verify.expectedSeq = 0 /\ Verify.truncate = FALSE /\ Verify.back = "open"
<1>1. NoWalk.pos = 2 /\ NoWalk.prevHash = ZeroHash /\ NoWalk.expectedSeq = 0
      /\ NoWalk.truncate = FALSE
  BY DEF NoWalk
<1>2. NoWalk \in WalkLocals
  BY NoWalkType
<1> QED
  BY <1>1, <1>2 DEF Verify, WalkLocals

(* The tool's own variables keep their types, and it never cuts the file. *)
LEMMA ToolTypeStep ==
    ASSUME ToolTypeOK, walFile \in Seq(Cell), ToolStep
    PROVE  ToolTypeOK'
<1>0. NoWalk \in WalkLocals /\ NoWalk.pos >= 2 /\ NoWalk.truncate = FALSE
  BY NoWalkType DEF NoWalk
<1>1. CASE \/ ToolFindsNone \/ ToolFindsEmpty \/ ToolOpens \/ ToolStartFails
           \/ ToolLosesHeader \/ ToolSyncs \/ ToolCreateFails
  <2>1. /\ tool_pc' \in {"creating", "opening", "open"}
        /\ UNCHANGED <<tool_walk, seen, accepted, rotated, lost, clashed>>
        /\ ioError' = ioError \/ ioError' = TRUE
    BY <1>1 DEF ToolFindsNone, ToolFindsEmpty, ToolOpens, ToolStartFails, ToolStarts,
                ToolLosesHeader, ToolSyncs, ToolCreateFails
  <2> QED
    BY <2>1 DEF ToolTypeOK
<1>2. CASE ToolCreates
  <2>1. /\ tool_pc' = "opening"
        /\ UNCHANGED <<tool_walk, seen, accepted, rotated, lost, ioError>>
        /\ clashed' = (clashed \/ walFile # <<>> \/ wal_pc \in {"creating", "truncated"})
    BY <1>2 DEF ToolCreates
  <2>2. clashed' \in BOOLEAN
    BY <2>1, Zenon
  <2> QED
    BY <2>1, <2>2 DEF ToolTypeOK
<1>3. CASE ToolStats
  <2>1. /\ tool_pc' = "walking" /\ verdict' = "none" /\ tool_walk' = Verify
        /\ seen' = walFile \/ seen' = Append(walFile, Part)
        /\ UNCHANGED <<accepted, rotated, lost, ioError, clashed>>
    BY <1>3 DEF ToolStats
  <2>2. seen' \in Seq(Cell)
    BY <2>1, CellFacts, AppendProperties
  <2> QED
    BY <2>1, <2>2, VerifyFields DEF ToolTypeOK
<1>4. CASE ToolWalks
  <2>1. /\ seen' = seen /\ accepted' = tool_walk.pos - 1
        /\ UNCHANGED <<rotated, lost, ioError, clashed>>
        /\ tool_pc = "walking"
        /\ ToolOnEntry \/ ToolOnEnd \/ ToolOnTorn \/ ToolOnDefect
    BY <1>4, ToolWalkStep DEF ToolWalks, ToolWalksOn
  <2>2. accepted' \in Nat
    BY <2>1 DEF ToolTypeOK, WalkLocals
  <2>3. CASE ToolOnEntry
    <3>1. /\ tool_walk' = Advance(seen, tool_walk) /\ UNCHANGED <<tool_pc, verdict>>
          /\ tool_walk \in WalkLocals /\ tool_walk.pos \in 2..Len(seen)
          /\ seen[tool_walk.pos].kind = "entry"
      BY <2>3 DEF ToolOnEntry, ToolTypeOK
    <3>2. seen[tool_walk.pos] \in Cell
      <4>1. seen \in Seq(Cell) /\ tool_walk.pos \in 1..Len(seen)
        BY <3>1, LenProperties DEF ToolTypeOK
      <4> QED
        BY <4>1, ElementOfSeq
    <3>3. seen[tool_walk.pos].hash \in Hash /\ seen[tool_walk.pos].body.seq \in Nat
      BY <3>1, <3>2, CellFacts DEF Body
    <3>4. tool_walk.pos \in Nat /\ tool_walk.pos >= 2
      BY DEF ToolTypeOK, WalkLocals
    <3>5. tool_walk' \in WalkLocals
      <4>1. tool_walk.pos + 1 \in Nat \ {0} /\ seen[tool_walk.pos].body.seq + 1 \in Nat
        BY <3>3, <3>4
      <4> QED
        BY <3>1, <3>3, <4>1, WalkAdvanceType DEF Advance
    <3>6. /\ tool_walk'.pos = tool_walk.pos + 1 /\ tool_walk'.truncate = tool_walk.truncate
          /\ tool_walk'.back = tool_walk.back
      BY <3>1, AdvanceFields
    <3> QED
      BY <2>1, <2>2, <3>1, <3>4, <3>5, <3>6 DEF ToolTypeOK
  <2>4. CASE ToolOnEnd \/ ToolOnTorn \/ ToolOnDefect
    <3>1. tool_walk' = NoWalk /\ tool_pc' = "open"
      BY <2>4 DEF ToolOnEnd, ToolOnTorn, ToolOnDefect, ToolDone
    <3> QED
      BY <1>0, <2>1, <2>2, <3>1 DEF ToolTypeOK
  <2> QED
    BY <2>1, <2>3, <2>4
<1>5. CASE ToolMisreads
  <2>1. /\ tool_walk' = NoWalk /\ tool_pc' = "open"
        /\ UNCHANGED <<seen, accepted, rotated, lost, ioError, clashed>>
    BY <1>5 DEF ToolMisreads
  <2> QED
    BY <1>0, <2>1 DEF ToolTypeOK
<1>6. CASE ToolExits
  <2>1. /\ tool_pc' = "closed" /\ tool_walk' = tool_walk
        /\ seen' = <<>> /\ accepted' = 0 /\ rotated' = FALSE /\ lost' = FALSE
        /\ ioError' = FALSE /\ clashed' = clashed
    BY <1>6 DEF ToolExits
  <2> QED
    BY <2>1, EmptySeq DEF ToolTypeOK
<1>7. CASE ToolWalkFails
  <2>1. /\ tool_walk' = NoWalk /\ tool_pc' = "open" /\ accepted' = tool_walk.pos - 1
        /\ UNCHANGED <<seen, rotated, lost, clashed>> /\ ioError' = TRUE
    BY <1>7, ToolFailStep DEF ToolDone, ToolWalkFails, ToolWalksOn
  <2>2. accepted' \in Nat
    BY <2>1 DEF ToolTypeOK, WalkLocals
  <2> QED
    BY <1>0, <2>1, <2>2 DEF ToolTypeOK
<1> QED
  BY <1>1, <1>2, <1>3, <1>4, <1>5, <1>6, <1>7 DEF ToolStep, Tool, ToolGoesOn, ToolFails

(* A step of the engine leaves the tool alone; when it empties the file    *)
(* under the tool, the tool counts as rotated.                             *)
LEMMA ToolUnderEngine ==
    ASSUME ToolTypeOK, EngineStep
    PROVE  /\ ToolTypeOK'
           /\ UNCHANGED <<tool_pc, tool_walk, verdict, seen, accepted, ioError, clashed, promised, damaged>>
           /\ rotated => rotated'
           /\ walFile # <<>> /\ tool_pc # "closed" /\ ~rotated' => walFile' # <<>>
<1>1. /\ UNCHANGED <<tool_pc, tool_walk, verdict, seen, accepted, ioError, clashed, promised, damaged>>
      /\ rotated' = (rotated \/ ((walFile # <<>> /\ walFile' = <<>>) /\ tool_pc # "closed"))
      /\ lost' = (lost \/ ((walFile # <<>> /\ walFile' = <<>>) /\ tool_pc = "walking"))
  BY DEF EngineStep
<1>2. /\ rotated' \in BOOLEAN /\ lost' \in BOOLEAN /\ (rotated => rotated')
      /\ walFile # <<>> /\ tool_pc # "closed" /\ ~rotated' => walFile' # <<>>
      /\ (lost => rotated) => (lost' => rotated')
  BY <1>1, Zenon
<1>3. ToolTypeOK'
  BY <1>1, <1>2 DEF ToolTypeOK
<1> QED
  BY <1>1, <1>2, <1>3

-----------------------------------------------------------------------------
(* Alarms. *)

(* QuietInv's claim about the tool. *)
QuietTool ==
    ~rotated =>
      /\ tool_pc \in {"opening", "open"} /\ verdict = "none" => walFile # <<>>
      /\ tool_pc = "walking" => seen # <<>> /\ GoodLog(seen) /\ Verified(seen, tool_walk)
      /\ ~ioError => verdict \in {"none", "NoFile", "Ok", "TruncatedTail"}

(* The invariant's parts. *)
LEMMA QuietParts ==
    /\ QuietInv <=> (~damaged /\ ~clashed => (WALTypeOK /\ ChainInv /\ ToolTypeOK /\ QuietTool))
    /\ QuietInv' <=> (~damaged' /\ ~clashed'
                        => (WALTypeOK' /\ ChainInv' /\ ToolTypeOK' /\ QuietTool'))
BY Zenon DEF QuietInv, QuietTool

(* What the tool sees of a good log is a good log, also half way through   *)
(* an append().                                                            *)
LEMMA SeesGoodLog ==
    ASSUME WALTypeOK, LogInv, walFile # <<>>, ToolStats
    PROVE  seen' \in Seq(Cell) /\ seen' # <<>> /\ GoodLog(seen')
<1>1. walFile \in Seq(Cell) /\ GoodLog(walFile)
  BY DEF WALTypeOK, LogInv
<1>2. CASE seen' = walFile
  BY <1>1, <1>2
<1>3. CASE wal_pc = "ready" /\ seen' = Append(walFile, Part)
  <2>1. WholeLog(walFile)
    BY <1>3 DEF LogInv, AtHead
  <2>2. seen' \in Seq(Cell) /\ seen' # <<>>
    BY <1>1, <1>3, CellFacts, AppendProperties
  <2> QED
    BY <1>1, <1>3, <2>1, <2>2, WholePlusPart
<1> QED
  BY <1>2, <1>3 DEF ToolStats

(* The tool's walk over a good log raises no alarm. *)
LEMMA QuietWalk ==
    ASSUME ToolTypeOK, seen # <<>>, GoodLog(seen), Verified(seen, tool_walk), ToolWalks
    PROVE  /\ seen' = seen
           /\ tool_pc' = "walking" => Verified(seen, tool_walk')
           /\ tool_pc' \in {"walking", "open"}
           /\ tool_pc' = "open" => verdict' \in {"Ok", "TruncatedTail"}
           /\ tool_pc' = "walking" => verdict' = "none"
<1>0. /\ tool_pc = "walking" /\ seen' = seen /\ verdict = "none"
      /\ ToolOnEntry \/ ToolOnEnd \/ ToolOnTorn \/ ToolOnDefect
  BY ToolWalkStep DEF ToolWalks, ToolTypeOK
<1>1. seen \in Seq(Cell) /\ tool_walk \in WalkLocals /\ Len(seen) \in Nat
  BY LenProperties DEF ToolTypeOK
<1>2. CASE ToolOnEntry
  <2>1. /\ tool_walk.pos \in 2..Len(seen) /\ GoodEntry(seen, tool_walk.pos)
        /\ tool_walk' = Advance(seen, tool_walk) /\ UNCHANGED <<tool_pc, verdict>>
    BY <1>2, AcceptsGood DEF ToolOnEntry
  <2>2. tool_walk.pos <= Len(seen)
    BY <1>1, <2>1
  <2>3. Verified(seen, tool_walk')
    BY <1>1, <2>1, <2>2, AdvanceVerified
  <2> QED
    BY <1>0, <2>1, <2>3
<1>3. CASE ToolOnEnd \/ ToolOnTorn
  BY <1>0, <1>3 DEF ToolOnEnd, ToolOnTorn, ToolDone
<1>4. ~ToolOnDefect
  <2> SUFFICES ASSUME ToolOnDefect PROVE FALSE
    OBVIOUS
  <2>1. tool_walk.pos \in 2..Len(seen)
    BY DEF ToolOnDefect
  <2>2. \/ GoodEntry(seen, tool_walk.pos)
        \/ tool_walk.pos = Len(seen) /\ seen[tool_walk.pos] = Part
    BY <2>1 DEF GoodLog
  <2>3. CASE GoodEntry(seen, tool_walk.pos)
    <3>1. seen[tool_walk.pos].kind = "entry"
      BY <2>3 DEF GoodEntry
    <3>2. Accepts(tool_walk, seen[tool_walk.pos])
      BY <2>3, <3>1, AcceptsGood
    <3> QED
      BY <3>1, <3>2 DEF ToolOnDefect
  <2>4. CASE tool_walk.pos = Len(seen) /\ seen[tool_walk.pos] = Part
    BY <2>4, CellFacts DEF ToolOnDefect
  <2> QED
    BY <2>2, <2>3, <2>4
<1> QED
  BY <1>0, <1>2, <1>3, <1>4

(* The tool never empties the file. *)
LEMMA ToolGrowsFile ==
    ASSUME WALTypeOK, ToolTypeOK, ToolStep
    PROVE  walFile # <<>> => walFile' # <<>>
<1>1. walFile' = walFile \/ walFile' = Append(walFile, Header)
  BY ToolTouches, SameFile DEF ToolOnDisk, FileAppend
<1> QED
  BY <1>1, CellFacts, AppendProperties DEF WALTypeOK

(* Without damage, the tool's steps keep its part of the invariant. *)
LEMMA QuietToolStep ==
    ASSUME WALTypeOK, LogInv, ToolTypeOK, QuietTool, ToolStep
    PROVE  QuietTool'
<1>0. walFile # <<>> => walFile' # <<>>
  BY ToolGrowsFile
<1>1. CASE ToolFindsNone
  <2>1. tool_pc' = "open" /\ verdict' = "NoFile"
    BY <1>1 DEF ToolFindsNone, ToolStarts
  <2> QED
    BY <2>1 DEF QuietTool
<1>2. CASE ToolCreates
  <2>1. /\ tool_pc' = "opening" /\ UNCHANGED <<verdict, rotated, ioError>>
        /\ walFile' = Append(walFile, Header)
    BY <1>2 DEF ToolCreates, FileAppend
  <2>2. walFile' # <<>>
    BY <2>1, CellFacts, AppendProperties DEF WALTypeOK
  <2> QED
    BY <2>1, <2>2 DEF QuietTool
<1>3. CASE ToolOpens
  <2>1. tool_pc' = "open" /\ verdict' = "none" /\ walFile # <<>>
    BY <1>3 DEF ToolOpens, ToolStarts
  <2> QED
    BY <1>0, <2>1 DEF QuietTool
<1>4. CASE ToolLosesHeader
  BY <1>4 DEF ToolLosesHeader, QuietTool
<1>10. CASE ToolFindsEmpty
  <2>1. tool_pc' = "creating" /\ verdict' = "none"
    BY <1>10 DEF ToolFindsEmpty, ToolStarts
  <2> QED
    BY <2>1 DEF QuietTool
<1>11. CASE ToolStartFails \/ ToolCreateFails
  <2>1. tool_pc' = "open" /\ verdict' = "BadHeader" /\ ioError' = TRUE
    BY <1>11 DEF ToolStartFails, ToolCreateFails, ToolStarts
  <2> QED
    BY <2>1 DEF QuietTool
<1>12. CASE ToolWalkFails
  <2>1. tool_pc' = "open" /\ verdict' # "none" /\ ioError' = TRUE
    BY <1>12, ToolFailStep DEF ToolDone
  <2> QED
    BY <2>1 DEF QuietTool
<1>5. CASE ToolSyncs
  <2>1. /\ tool_pc = "opening" /\ tool_pc' = "open"
        /\ UNCHANGED <<verdict, rotated, ioError>>
    BY <1>5 DEF ToolSyncs
  <2> QED
    BY <1>0, <2>1 DEF QuietTool
<1>6. CASE ToolStats
  <2>1. /\ tool_pc = "open" /\ verdict = "none"
        /\ tool_pc' = "walking" /\ tool_walk' = Verify /\ UNCHANGED <<verdict, rotated>>
    BY <1>6 DEF ToolStats
  <2>2. ASSUME ~rotated PROVE seen' # <<>> /\ GoodLog(seen') /\ Verified(seen', tool_walk')
    <3>1. walFile # <<>>
      BY <2>1, <2>2 DEF QuietTool
    <3>2. seen' \in Seq(Cell) /\ seen' # <<>> /\ GoodLog(seen')
      BY <1>6, <3>1, SeesGoodLog
    <3>3. Verified(seen', tool_walk')
      BY <2>1, <3>2, VerifyFields, StartVerified
    <3> QED
      BY <3>2, <3>3
  <2> QED
    BY <2>1, <2>2 DEF QuietTool
<1>7. CASE ToolWalks
  <2>1. rotated' = rotated /\ tool_pc = "walking"
    BY <1>7, ToolWalkStep DEF ToolWalks, ToolWalksOn
  <2>2. CASE rotated
    BY <2>1, <2>2 DEF QuietTool
  <2>3. CASE ~rotated
    <3>1. seen # <<>> /\ GoodLog(seen) /\ Verified(seen, tool_walk)
      BY <2>1, <2>3 DEF QuietTool
    <3>2. /\ seen' = seen
          /\ tool_pc' = "walking" => Verified(seen, tool_walk')
          /\ tool_pc' \in {"walking", "open"}
          /\ tool_pc' = "open" => verdict' \in {"Ok", "TruncatedTail"}
          /\ tool_pc' = "walking" => verdict' = "none"
      BY <1>7, <3>1, QuietWalk
    <3> QED
      BY <3>1, <3>2 DEF QuietTool
  <2> QED
    BY <2>2, <2>3
<1>8. CASE ToolMisreads
  <2>1. lost /\ rotated' = rotated
    BY <1>8 DEF ToolMisreads
  <2>2. rotated'
    BY <2>1 DEF ToolTypeOK
  <2> QED
    BY <2>2 DEF QuietTool
<1>9. CASE ToolExits
  BY <1>9 DEF ToolExits, QuietTool
<1> QED
  BY <1>1, <1>2, <1>3, <1>4, <1>5, <1>6, <1>7, <1>8, <1>9, <1>10, <1>11, <1>12
  DEF ToolStep, Tool, ToolGoesOn, ToolFails

(* Nor does a step of the engine disturb it. *)
LEMMA QuietUnderEngine ==
    ASSUME ToolTypeOK, QuietTool, EngineStep
    PROVE  QuietTool'
<1>1. /\ UNCHANGED <<tool_pc, tool_walk, verdict, seen, ioError>>
      /\ rotated => rotated'
      /\ walFile # <<>> /\ tool_pc # "closed" /\ ~rotated' => walFile' # <<>>
  BY ToolUnderEngine
<1> QED
  BY <1>1 DEF QuietTool

(* What the storage, and what a clash, did to the log is not forgotten. *)
LEMMA OnceAndForAll ==
    ASSUME [AuditNext]_auditVars
    PROVE  (damaged => damaged') /\ (clashed => clashed')
<1>1. CASE EngineStep
  BY <1>1 DEF EngineStep
<1>2. CASE ToolCreates
  <2>1. /\ damaged' = damaged
        /\ clashed' = (clashed \/ walFile # <<>> \/ wal_pc \in {"creating", "truncated"})
    BY <1>2 DEF ToolCreates, engineVars
  <2> QED
    BY <2>1, Zenon
<1>3. CASE ToolStep /\ ~ToolCreates
  <2>1. damaged' = damaged /\ clashed' = clashed
    BY <1>3 DEF ToolStep, Tool, ToolGoesOn, ToolFails, ToolFindsNone, ToolFindsEmpty, ToolOpens,
      ToolLosesHeader, ToolSyncs, ToolStats, ToolWalks, ToolMisreads, ToolExits, ToolStarts,
      ToolStartFails, ToolCreateFails, ToolWalkFails, ToolWalksOn, engineVars
  <2> QED
    BY <2>1
<1>4. CASE \E i \in 2..Len(walFile), kind \in Damages : Strikes(i, kind)
  BY <1>4 DEF Strikes
<1>5. CASE UNCHANGED auditVars
  BY <1>5 DEF auditVars
<1> QED
  BY <1>1, <1>2, <1>3, <1>4, <1>5 DEF AuditNext, ToolStep

(* Every step keeps the invariant; damage or a clash ends its claim. *)
LEMMA QuietStep ==
    ASSUME ChainSafe, QuietInv, [AuditNext]_auditVars
    PROVE  QuietInv'
<1> USE QuietParts
<1>1. CASE damaged' \/ clashed'
  BY <1>1
<1>2. CASE ~damaged' /\ ~clashed'
  <2>1. ~damaged /\ ~clashed
    BY <1>2, OnceAndForAll
  <2>2. WALTypeOK /\ ChainInv /\ LogInv /\ ToolTypeOK /\ QuietTool /\ walFile \in Seq(Cell)
    BY <2>1 DEF ChainInv, WALTypeOK
  <2>3. CASE EngineStep
    <3>1. WALNext
      BY <2>3 DEF EngineStep
    <3>2. WALTypeOK' /\ ChainInv'
      BY <2>2, <3>1, TypeStep, ChainStep
    <3> QED
      BY <2>2, <2>3, <3>2, ToolUnderEngine, QuietUnderEngine
  <2>4. CASE ToolStep
    <3>1. ToolOnDisk
      BY <2>2, <2>4, ToolTouches
    <3>2. WALTypeOK' /\ LogInv'
      BY <1>2, <2>2, <3>1, ToolKeepsTypes, ToolKeepsLog
    <3>3. OwnLogAccepted'
      BY <2>2, <3>1 DEF ToolOnDisk, ChainInv, OwnLogAccepted
    <3> QED
      BY <2>2, <2>4, <3>2, <3>3, ToolTypeStep, QuietToolStep DEF ChainInv
  <2>5. CASE \E i \in 2..Len(walFile), kind \in Damages : Strikes(i, kind)
    BY <1>2, <2>5 DEF Strikes
  <2>6. CASE UNCHANGED auditVars
    <3>1. UNCHANGED walVars /\ UNCHANGED <<toolVars, clashed>>
      BY <2>6 DEF auditVars
    <3>2. WALTypeOK' /\ ChainInv'
      BY <2>2, <3>1, TypeStep, ChainStep
    <3>3. ToolTypeOK' /\ QuietTool'
      BY <2>2, <3>1 DEF toolVars, walVars, diskVars, ToolTypeOK, QuietTool
    <3> QED
      BY <3>2, <3>3
  <2> QED
    BY <2>3, <2>4, <2>5, <2>6 DEF AuditNext, ToolStep
<1> QED
  BY <1>1, <1>2

(* The invariant holds in the beginning. *)
LEMMA QuietInit == AuditInit => QuietInv
<1> SUFFICES ASSUME AuditInit PROVE QuietInv
  OBVIOUS
<1>1. WALTypeOK /\ ChainInv
  BY InitType, ChainInit DEF AuditInit, ChainInv, OwnLogAccepted, WALInit
<1>2. NoWalk \in WalkLocals /\ NoWalk.pos >= 2 /\ NoWalk.truncate = FALSE
  BY NoWalkType DEF NoWalk
<1>3. ToolTypeOK
  BY <1>2, EmptySeq DEF AuditInit, ToolTypeOK
<1>4. QuietTool
  BY DEF AuditInit, QuietTool
<1> QED
  BY <1>1, <1>3, <1>4, QuietParts

(* The verifier is read-only towards an engine that runs beside it: while  *)
(* the storage does no damage, the log in the file stays the engine's own  *)
(* good chain, with kills, power losses and rotations at any time, and     *)
(* whatever system call of the tool fails.  The exception is in the        *)
(* property: a header put into a file that the tool found empty and that   *)
(* the engine was creating or rotating at that moment.                     *)
THEOREM ReadOnlyTool ==
    ASSUME ChainSafe
    PROVE  AuditSpec => []ToolLeavesChainIntact
<1>1. QuietInv => ToolLeavesChainIntact
  BY QuietParts DEF ToolLeavesChainIntact
<1>2. QuietInv /\ [AuditNext]_auditVars => QuietInv'
  BY QuietStep
<1> QED
  BY QuietInit, <1>1, <1>2, PTL DEF AuditSpec

(* The verifier raises an alarm only about a damaged file, one that the    *)
(* engine rotated under it, one with a header of its own, or when a system *)
(* call of its own failed, however it interleaves with append().           *)
THEOREM NoFalseAlarms ==
    ASSUME ChainSafe
    PROVE  AuditSpec => []AlarmsAreReal
<1>1. QuietInv => AlarmsAreReal
  BY QuietParts DEF QuietTool, AlarmsAreReal, ToolRan, exitCode
<1>2. QuietInv /\ [AuditNext]_auditVars => QuietInv'
  BY QuietStep
<1> QED
  BY QuietInit, <1>1, <1>2, PTL DEF AuditSpec

-----------------------------------------------------------------------------
(* Files that hold a log, and broken ones. *)

(* A file without torn bytes that holds a log is that log. *)
LEMMA HoldsWhole ==
    ASSUME NEW f \in Seq(Cell), NEW t \in Seq(Cell), HoldsLog(f, t),
           \A i \in 2..Len(f) : GoodEntry(f, i)
    PROVE  f = t
<1> SUFFICES ASSUME t # <<>>, f = Append(t, Part) PROVE FALSE
  BY DEF HoldsLog
<1>1. Len(t) \in Nat /\ Len(t) # 0
  BY LenProperties, EmptySeq
<1>2. Len(f) = Len(t) + 1 /\ f[Len(f)] = Part
  BY CellFacts, AppendProperties
<1>3. Len(f) \in 2..Len(f)
  BY <1>1, <1>2
<1>4. f[Len(f)].kind = "entry"
  BY <1>3 DEF GoodEntry
<1> QED
  BY <1>2, <1>4, CellFacts

(* One with a torn cell is the log with that cell behind it. *)
LEMMA HoldsTorn ==
    ASSUME NEW f \in Seq(Cell), NEW t \in Seq(Cell), HoldsLog(f, t),
           NEW p \in 2..Len(f), f[p].kind # "entry"
    PROVE  /\ t # <<>> /\ f = Append(t, Part) /\ p = Len(f)
           /\ SubSeq(f, 1, p - 1) = t
<1>1. f # t
  <2> SUFFICES ASSUME f = t PROVE FALSE
    OBVIOUS
  <2>1. t # <<>>
    BY EmptySeq
  <2>2. GoodEntry(t, p)
    BY <2>1 DEF HoldsLog, WholeLog
  <2> QED
    BY <2>2 DEF GoodEntry
<1>2. t # <<>> /\ f = Append(t, Part) /\ WholeLog(t)
  BY <1>1 DEF HoldsLog
<1>3. /\ Len(t) \in Nat /\ Len(f) = Len(t) + 1
      /\ \A i \in 1..Len(t) : f[i] = t[i]
  BY <1>2, CellFacts, LenProperties, AppendProperties
<1>4. p = Len(f)
  <2> SUFFICES ASSUME p # Len(f) PROVE FALSE
    OBVIOUS
  <2>1. p \in 2..Len(t) /\ f[p] = t[p]
    BY <1>3
  <2> QED
    BY <1>2, <2>1 DEF WholeLog, GoodEntry
<1>5. /\ SubSeq(f, 1, p - 1) \in Seq(Cell) /\ Len(SubSeq(f, 1, p - 1)) = Len(t)
      /\ \A i \in 1..Len(t) : SubSeq(f, 1, p - 1)[i] = f[i]
  <2>1. p - 1 \in 0..Len(f) /\ p - 1 = Len(t)
    BY <1>3, <1>4
  <2> QED
    BY <2>1, PrefixFacts
<1>6. SubSeq(f, 1, p - 1) = t
  <2>1. \A i \in 1..Len(t) : SubSeq(f, 1, p - 1)[i] = t[i]
    BY <1>3, <1>5
  <2> QED
    BY <1>5, <2>1, SeqEqual
<1> QED
  BY <1>2, <1>4, <1>6

(* A verified walk over a broken file stands at an entry: it meets neither *)
(* the end of the file nor a torn tail.                                    *)
LEMMA BrokenWalk ==
    ASSUME NEW f \in Seq(Cell), Broken(f), NEW w, Verified(f, w)
    PROVE  w.pos \in 2..Len(f) /\ f[w.pos].kind = "entry"
<1>1. PICK j \in 2..Len(f) : (\A i \in 2..j : f[i].kind = "entry") /\ ~GoodEntry(f, j)
  BY DEF Broken
<1>2. Len(f) \in Nat /\ w.pos \in 2..(Len(f) + 1) /\ \A i \in 2..(w.pos - 1) : GoodEntry(f, i)
  BY LenProperties DEF Verified
<1>3. w.pos <= j
  BY <1>1, <1>2
<1>4. w.pos \in 2..j
  BY <1>2, <1>3
<1> QED
  BY <1>1, <1>2, <1>4

(* Nothing that is appended mends a broken file. *)
LEMMA BrokenGrows ==
    ASSUME NEW f \in Seq(Cell), Broken(f), NEW c \in Cell
    PROVE  Broken(Append(f, c)) /\ Append(f, c)[1] = f[1]
<1> DEFINE g == Append(f, c)
<1>1. PICK j \in 2..Len(f) : (\A i \in 2..j : f[i].kind = "entry") /\ ~GoodEntry(f, j)
  BY DEF Broken
<1>2. Len(f) \in Nat /\ Len(g) = Len(f) + 1 /\ \A i \in 1..Len(f) : g[i] = f[i]
  BY LenProperties, AppendProperties
<1> HIDE DEF g
<1>3. j \in 2..Len(g) /\ j \in Nat /\ j >= 2 /\ g[j] = f[j] /\ g[j - 1] = f[j - 1] /\ g[1] = f[1]
  BY <1>2
<1>4. \A i \in 2..j : g[i].kind = "entry"
  BY <1>1, <1>2
<1>5. ~GoodEntry(g, j)
  BY <1>1, <1>3, GoodEntryLocal
<1>6. Broken(g)
  BY <1>3, <1>4, <1>5 DEF Broken
<1> QED
  BY <1>3, <1>6 DEF g

(* A broken file has cells. *)
LEMMA BrokenNotEmpty ==
    ASSUME NEW f, Broken(f)
    PROVE  f # <<>>
BY DEF Broken

-----------------------------------------------------------------------------
(* Damage breaks the file. *)

(* Entries lead to an entry of a good log, and each of them is good. *)
LEMMA EntriesBefore ==
    ASSUME NEW f \in Seq(Cell), GoodLog(f), NEW i \in 2..Len(f), f[i].kind = "entry"
    PROVE  /\ f[1] = Header /\ Len(f) \in Nat
           /\ \A k \in 2..i : GoodEntry(f, k) /\ f[k].kind = "entry"
           /\ f[i] \in Cell /\ f[i] \in Entry /\ f[i].body \in Body /\ f[i].hash \in Hash
           /\ PrevHash(f, i) \in Hash
<1>1. Len(f) \in Nat /\ f # <<>>
  BY LenProperties, EmptySeq
<1>2. ASSUME NEW k \in 2..i PROVE GoodEntry(f, k) /\ f[k].kind = "entry"
  <2>1. k \in 2..Len(f) /\ (k = Len(f) => k = i)
    BY <1>1
  <2>2. GoodEntry(f, k)
    BY <1>1, <2>1, CellFacts DEF GoodLog
  <2> QED
    BY <2>2 DEF GoodEntry
<1>3. f[i] \in Cell
  <2>1. i \in 1..Len(f)
    BY <1>1
  <2> QED
    BY <2>1, ElementOfSeq
<1>4. PrevHash(f, i) \in Hash
  <2>1. CASE i = 2
    BY <2>1, ZeroHashType DEF PrevHash
  <2>2. CASE i # 2
    <3>1. i - 1 \in 2..i /\ i - 1 \in 1..Len(f)
      BY <1>1, <2>2
    <3>2. f[i - 1] \in Cell /\ f[i - 1].kind = "entry"
      BY <1>2, <3>1, ElementOfSeq
    <3> QED
      BY <2>2, <3>2, CellFacts DEF PrevHash
  <2> QED
    BY <2>1, <2>2
<1> QED
  BY <1>1, <1>2, <1>3, <1>4, CellFacts DEF GoodLog

(* The file with entry i replaced by another. *)
LEMMA Replaced ==
    ASSUME NEW f \in Seq(Cell), GoodLog(f), NEW i \in 2..Len(f), f[i].kind = "entry",
           NEW c \in Cell, c.kind = "entry"
    PROVE  LET g == [f EXCEPT ![i] = c]
           IN  /\ g \in Seq(Cell) /\ Len(g) = Len(f) /\ g[1] = Header /\ g[i] = c
               /\ \A k \in 2..i : g[k].kind = "entry"
               /\ \A k \in 1..Len(f) : k # i => g[k] = f[k]
               /\ PrevHash(g, i) = PrevHash(f, i)
<1> DEFINE g == [f EXCEPT ![i] = c]
<1>1. i \in 1..Len(f) /\ Len(f) \in Nat
  BY LenProperties
<1>2. /\ g \in Seq(Cell) /\ Len(g) = Len(f)
      /\ \A k \in 1..Len(f) : g[k] = IF k = i THEN c ELSE f[k]
  BY <1>1, ExceptSeq
<1> HIDE DEF g
<1>3. g[1] = Header /\ g[i] = c /\ \A k \in 1..Len(f) : k # i => g[k] = f[k]
  BY <1>1, <1>2, EntriesBefore
<1>4. \A k \in 2..i : g[k].kind = "entry"
  BY <1>1, <1>2, EntriesBefore
<1>5. PrevHash(g, i) = PrevHash(f, i)
  <2>1. i - 1 \in 1..Len(f) /\ i - 1 # i
    BY <1>1
  <2> QED
    BY <1>3, <2>1 DEF PrevHash
<1> QED
  BY <1>2, <1>3, <1>4, <1>5 DEF g

(* An entry with another timestamp. *)
LEMMA ChangedEntry ==
    ASSUME NEW c \in Entry
    PROVE  /\ Changed(c) \in Entry /\ Changed(c).kind = "entry" /\ Changed(c).hash = c.hash
           /\ Changed(c).body \in Body /\ Changed(c).body # c.body
<1>1. c.body \in Body /\ c.hash \in Hash /\ c.kind = "entry"
  BY DEF Entry
<1>2. Changed(c) = [c EXCEPT !.body = [c.body EXCEPT !.timestamp = c.body.timestamp + 1]]
  BY DEF Changed
<1>3. c.body.timestamp \in Nat
  BY <1>1 DEF Body
<1> DEFINE b == [c.body EXCEPT !.timestamp = c.body.timestamp + 1]
<1>4. b \in Body /\ b.timestamp = c.body.timestamp + 1
  BY <1>1, <1>3 DEF Body
<1> HIDE DEF b
<1>5. b # c.body
  BY <1>3, <1>4
<1>6. Changed(c) = [c EXCEPT !.body = b]
  BY <1>2 DEF b
<1> QED
  BY <1>1, <1>4, <1>5, <1>6 DEF Entry

(* Other content in place. *)
LEMMA ContentBreaks ==
    ASSUME NEW f \in Seq(Cell), GoodLog(f), NEW i \in 2..Len(f), f[i].kind = "entry"
    PROVE  LET g == [f EXCEPT ![i] = Changed(f[i])]
           IN  g \in Seq(Cell) /\ g[1] = Header /\ Broken(g)
<1> DEFINE c == Changed(f[i])
           g == [f EXCEPT ![i] = c]
<1>1. /\ f[i] \in Entry /\ f[i].body \in Body /\ PrevHash(f, i) \in Hash /\ GoodEntry(f, i)
  BY EntriesBefore
<1>2. c \in Cell /\ c.kind = "entry" /\ c.hash = f[i].hash /\ c.body \in Body /\ c.body # f[i].body
  BY <1>1, ChangedEntry DEF Cell
<1> HIDE DEF c
<1>3. /\ g \in Seq(Cell) /\ Len(g) = Len(f) /\ g[1] = Header /\ g[i] = c
      /\ \A k \in 2..i : g[k].kind = "entry"
      /\ PrevHash(g, i) = PrevHash(f, i)
  BY <1>2, Replaced
<1> HIDE DEF g
<1>4. ~GoodEntry(g, i)
  <2> SUFFICES ASSUME GoodEntry(g, i) PROVE FALSE
    OBVIOUS
  <2>1. Append(PrevHash(f, i), c.body) = Append(PrevHash(f, i), f[i].body)
    BY <1>1, <1>2, <1>3 DEF GoodEntry, ChainHash
  <2> QED
    BY <1>1, <1>2, <2>1, AppendInjective DEF Hash
<1>5. Broken(g)
  BY <1>3, <1>4 DEF Broken
<1> QED
  BY <1>3, <1>5 DEF g, c

(* Another hash in place. *)
LEMMA HashBreaks ==
    ASSUME NEW f \in Seq(Cell), GoodLog(f), NEW i \in 2..Len(f), f[i].kind = "entry"
    PROVE  LET g == [f EXCEPT ![i].hash = ZeroHash]
           IN  g \in Seq(Cell) /\ g[1] = Header /\ Broken(g)
<1> DEFINE c == [f[i] EXCEPT !.hash = ZeroHash]
           g == [f EXCEPT ![i] = c]
<1>1. /\ f[i] \in Entry /\ f[i].body \in Body /\ PrevHash(f, i) \in Hash
  BY EntriesBefore
<1>2. c \in Cell /\ c.kind = "entry" /\ c.hash = ZeroHash /\ c.body \in Body
  BY <1>1, ZeroHashType DEF Cell, Entry
<1>3. [f EXCEPT ![i].hash = ZeroHash] = g
  OBVIOUS
<1> HIDE DEF c
<1>4. /\ g \in Seq(Cell) /\ Len(g) = Len(f) /\ g[1] = Header /\ g[i] = c
      /\ \A k \in 2..i : g[k].kind = "entry"
      /\ PrevHash(g, i) = PrevHash(f, i)
  BY <1>2, Replaced
<1> HIDE DEF g
<1>5. ~GoodEntry(g, i)
  <2> SUFFICES ASSUME GoodEntry(g, i) PROVE FALSE
    OBVIOUS
  <2>1. <<>> = Append(PrevHash(f, i), c.body)
    BY <1>2, <1>4 DEF GoodEntry, ChainHash, ZeroHash
  <2> QED
    BY <1>1, <1>2, <2>1, AppendProperties DEF Hash
<1>6. Broken(g)
  BY <1>4, <1>5 DEF Broken
<1> QED
  BY <1>3, <1>4, <1>6

(* An entry replaced by a well-formed one: its successor gives it away. *)
LEMMA RewriteBreaks ==
    ASSUME NEW f \in Seq(Cell), GoodLog(f), NEW i \in 2..Len(f), f[i].kind = "entry",
           i < Len(f), f[i + 1].kind = "entry"
    PROVE  LET g == [f EXCEPT ![i] = [Changed(f[i]) EXCEPT
                                        !.hash = ChainHash(PrevHash(f, i), Changed(f[i]).body)]]
           IN  g \in Seq(Cell) /\ g[1] = Header /\ Broken(g)
<1> DEFINE h == ChainHash(PrevHash(f, i), Changed(f[i]).body)
           c == [Changed(f[i]) EXCEPT !.hash = h]
           g == [f EXCEPT ![i] = c]
<1>0. i + 1 \in 2..Len(f) /\ Len(f) \in Nat /\ i \in Nat
  BY LenProperties
<1>1. /\ f[i] \in Entry /\ f[i].body \in Body /\ f[i].hash \in Hash /\ PrevHash(f, i) \in Hash
      /\ GoodEntry(f, i)
  BY EntriesBefore
<1>2. f[i + 1].body \in Body /\ GoodEntry(f, i + 1)
  BY <1>0, EntriesBefore
<1>3. /\ Changed(f[i]) \in Entry /\ Changed(f[i]).body \in Body
      /\ Changed(f[i]).body # f[i].body
  BY <1>1, ChangedEntry
<1>4. h \in Hash /\ h # f[i].hash
  <2>1. h = Append(PrevHash(f, i), Changed(f[i]).body)
        /\ f[i].hash = Append(PrevHash(f, i), f[i].body)
    BY <1>1 DEF ChainHash, GoodEntry
  <2> QED
    BY <1>1, <1>3, <2>1, AppendInjective, AppendProperties DEF Hash
<1> HIDE DEF h
<1>5. c \in Cell /\ c.kind = "entry" /\ c.hash = h
  BY <1>3, <1>4 DEF Cell, Entry
<1> HIDE DEF c
<1>6. /\ g \in Seq(Cell) /\ Len(g) = Len(f) /\ g[1] = Header /\ g[i] = c
      /\ \A k \in 2..i : g[k].kind = "entry"
      /\ \A k \in 1..Len(f) : k # i => g[k] = f[k]
  BY <1>5, Replaced
<1> HIDE DEF g
<1>7. g[i + 1] = f[i + 1]
  BY <1>0, <1>6
<1>8. ~GoodEntry(g, i + 1)
  <2> SUFFICES ASSUME GoodEntry(g, i + 1) PROVE FALSE
    OBVIOUS
  <2>1. PrevHash(g, i + 1) = h /\ PrevHash(f, i + 1) = f[i].hash
    BY <1>0, <1>5, <1>6 DEF PrevHash
  <2>2. Append(h, f[i + 1].body) = Append(f[i].hash, f[i + 1].body)
    BY <1>2, <1>7, <2>1 DEF GoodEntry, ChainHash
  <2> QED
    BY <1>1, <1>2, <1>4, <2>2, AppendInjective DEF Hash
<1>9. Broken(g)
  <2>1. \A k \in 2..(i + 1) : g[k].kind = "entry"
    BY <1>0, <1>6, <1>7
  <2>2. i + 1 \in 2..Len(g)
    BY <1>0, <1>6
  <2> QED
    BY <1>8, <2>1, <2>2 DEF Broken
<1> QED
  BY <1>6, <1>9 DEF g, c, h

(* A length over the limit. *)
LEMMA OversizeBreaks ==
    ASSUME NEW f \in Seq(Cell), GoodLog(f), NEW i \in 2..Len(f), f[i].kind = "entry",
           NEW big \in Keys, KeySize[big] > kMaxFieldSize
    PROVE  LET g == [f EXCEPT ![i].body.key = big]
           IN  g \in Seq(Cell) /\ g[1] = Header /\ Broken(g)
<1> DEFINE b == [f[i].body EXCEPT !.key = big]
           c == [f[i] EXCEPT !.body = b]
           g == [f EXCEPT ![i] = c]
<1>1. f[i] \in Entry /\ f[i].body \in Body
  BY EntriesBefore
<1>2. [f EXCEPT ![i].body.key = big] = g
  OBVIOUS
<1>3. b \in Body /\ b.key = big
  BY <1>1 DEF Body
<1> HIDE DEF b
<1>4. c \in Cell /\ c.kind = "entry" /\ c.body = b
  BY <1>1, <1>3 DEF Cell, Entry
<1> HIDE DEF c
<1>5. /\ g \in Seq(Cell) /\ Len(g) = Len(f) /\ g[1] = Header /\ g[i] = c
      /\ \A k \in 2..i : g[k].kind = "entry"
  BY <1>4, Replaced
<1> HIDE DEF g
<1>6. ~GoodEntry(g, i)
  BY <1>3, <1>4, <1>5 DEF GoodEntry, Oversize
<1>7. Broken(g)
  BY <1>5, <1>6 DEF Broken
<1> QED
  BY <1>2, <1>5, <1>7

(* A file in which the entry after i has taken its place. *)
LEMMA SeqBreaks ==
    ASSUME NEW f \in Seq(Cell), GoodLog(f), NEW i \in 2..Len(f), f[i].kind = "entry",
           i < Len(f), f[i + 1].kind = "entry",
           NEW g \in Seq(Cell), Len(g) >= i, g[i] = f[i + 1],
           \A k \in 1..(i - 1) : g[k] = f[k]
    PROVE  g[1] = Header /\ Broken(g)
<1>0. i + 1 \in 2..Len(f) /\ Len(f) \in Nat /\ i \in Nat /\ Len(g) \in Nat
  BY LenProperties
<1>1. f[1] = Header /\ \A k \in 2..i : f[k].kind = "entry"
  BY EntriesBefore
<1>2. f[i + 1].body.seq = (i + 1) - 2
  <2>1. i + 1 \in 2..(i + 1)
    BY <1>0
  <2>2. GoodEntry(f, i + 1)
    BY <1>0, <2>1, EntriesBefore
  <2> QED
    BY <2>2 DEF GoodEntry
<1>3. ~GoodEntry(g, i)
  BY <1>0, <1>2 DEF GoodEntry
<1>4. \A k \in 2..i : g[k].kind = "entry"
  BY <1>0, <1>1
<1>5. g[1] = Header
  BY <1>0, <1>1
<1>6. i \in 2..Len(g)
  BY <1>0
<1> QED
  BY <1>3, <1>4, <1>5, <1>6 DEF Broken

(* An entry dropped. *)
LEMMA DropBreaks ==
    ASSUME NEW f \in Seq(Cell), GoodLog(f), NEW i \in 2..Len(f), f[i].kind = "entry",
           i < Len(f), f[i + 1].kind = "entry"
    PROVE  LET g == SubSeq(f, 1, i - 1) \o SubSeq(f, i + 1, Len(f))
           IN  g \in Seq(Cell) /\ g[1] = Header /\ Broken(g)
<1> DEFINE s == SubSeq(f, 1, i - 1)
           t == SubSeq(f, i + 1, Len(f))
           g == s \o t
<1>0. Len(f) \in Nat /\ i \in Nat /\ i - 1 \in 0..Len(f) /\ i + 1 \in Int
  BY LenProperties
<1>1. s \in Seq(Cell) /\ Len(s) = i - 1 /\ \A k \in 1..(i - 1) : s[k] = f[k]
  BY <1>0, PrefixFacts
<1>2. \A k \in (i + 1)..Len(f) : f[k] \in Cell
  <2>1. \A k \in (i + 1)..Len(f) : k \in 1..Len(f)
    BY <1>0
  <2> QED
    BY <2>1, ElementOfSeq
<1>3. /\ t \in Seq(Cell)
      /\ Len(t) = IF i + 1 <= Len(f) THEN Len(f) - (i + 1) + 1 ELSE 0
      /\ \A k \in 1..(Len(f) - (i + 1) + 1) : t[k] = f[(i + 1) + k - 1]
  BY <1>0, <1>2, SubSeqProperties
<1> HIDE DEF s, t
<1>4. Len(t) = Len(f) - i /\ Len(t) >= 1 /\ t[1] = f[i + 1]
  BY <1>0, <1>3
<1>5. /\ g \in Seq(Cell) /\ Len(g) = Len(s) + Len(t)
      /\ \A k \in 1..(Len(s) + Len(t)) : g[k] = IF k <= Len(s) THEN s[k] ELSE t[k - Len(s)]
  BY <1>1, <1>3, ConcatProperties
<1> HIDE DEF g
<1>6. Len(g) >= i /\ g[i] = f[i + 1] /\ \A k \in 1..(i - 1) : g[k] = f[k]
  <2>1. Len(s) \in Nat /\ Len(t) \in Nat /\ Len(s) = i - 1
    BY <1>1, <1>3, LenProperties
  <2>2. Len(g) >= i
    BY <1>0, <1>4, <1>5, <2>1
  <2>3. g[i] = t[1]
    <3>1. i \in 1..(Len(s) + Len(t)) /\ ~(i <= Len(s)) /\ i - Len(s) = 1
      BY <1>0, <1>4, <2>1
    <3> QED
      BY <1>5, <3>1
  <2>4. \A k \in 1..(i - 1) : g[k] = f[k]
    <3>1. \A k \in 1..(i - 1) : k \in 1..(Len(s) + Len(t)) /\ k <= Len(s)
      BY <1>0, <2>1
    <3> QED
      BY <1>1, <1>5, <3>1
  <2> QED
    BY <1>4, <2>2, <2>3, <2>4
<1>7. g[1] = Header /\ Broken(g)
  BY <1>5, <1>6, SeqBreaks
<1> QED
  BY <1>5, <1>7 DEF g, s, t

(* An entry exchanged with the next. *)
LEMMA SwapBreaks ==
    ASSUME NEW f \in Seq(Cell), GoodLog(f), NEW i \in 2..Len(f), f[i].kind = "entry",
           i < Len(f), f[i + 1].kind = "entry"
    PROVE  LET g == [f EXCEPT ![i] = f[i + 1], ![i + 1] = f[i]]
           IN  g \in Seq(Cell) /\ g[1] = Header /\ Broken(g)
<1> DEFINE m == [f EXCEPT ![i] = f[i + 1]]
           g == [m EXCEPT ![i + 1] = f[i]]
<1>0. Len(f) \in Nat /\ i \in Nat /\ i \in 1..Len(f) /\ i + 1 \in 1..Len(f)
  BY LenProperties
<1>1. f[i] \in Cell /\ f[i + 1] \in Cell
  BY <1>0, ElementOfSeq
<1>2. /\ m \in Seq(Cell) /\ Len(m) = Len(f)
      /\ \A k \in 1..Len(f) : m[k] = IF k = i THEN f[i + 1] ELSE f[k]
  BY <1>0, <1>1, ExceptSeq
<1>3. [f EXCEPT ![i] = f[i + 1], ![i + 1] = f[i]] = g
  OBVIOUS
<1> HIDE DEF m
<1>4. /\ g \in Seq(Cell) /\ Len(g) = Len(m)
      /\ \A k \in 1..Len(m) : g[k] = IF k = i + 1 THEN f[i] ELSE m[k]
  <2>1. i + 1 \in 1..Len(m)
    BY <1>0, <1>2
  <2> QED
    BY <1>1, <1>2, <2>1, ExceptSeq
<1> HIDE DEF g
<1>5. Len(g) >= i /\ g[i] = f[i + 1] /\ \A k \in 1..(i - 1) : g[k] = f[k]
  BY <1>0, <1>2, <1>4
<1>6. g[1] = Header /\ Broken(g)
  BY <1>4, <1>5, SeqBreaks
<1> QED
  BY <1>3, <1>4, <1>6

(* The kinds of damage that walkChain() can tell from a torn tail, with a  *)
(* key over the limit where an entry may get one.                          *)
DamageShows ==
    /\ "length" \notin Damages
    /\ "oversize" \in Damages => \E k \in Keys : KeySize[k] > kMaxFieldSize

(* Every such damage to a good log leaves a broken file. *)
LEMMA DamageBreaks ==
    ASSUME NEW f \in Seq(Cell), GoodLog(f), NEW i \in 2..Len(f), f[i].kind = "entry",
           DamageShows, NEW kind \in Damages,
           kind \notin {"content", "hash", "oversize"} => i < Len(f) /\ f[i + 1].kind = "entry"
    PROVE  Damage(f, i, kind) \in Seq(Cell) /\ Damage(f, i, kind)[1] = Header
             /\ Broken(Damage(f, i, kind))
<1>1. kind \in {"content", "hash", "rewritten", "oversize", "dropped", "swapped"}
  BY AuditAssumption DEF DamageShows, DamageKinds
<1>2. CASE kind = "content"
  <2>1. Damage(f, i, kind) = [f EXCEPT ![i] = Changed(f[i])]
    BY <1>2 DEF Damage
  <2> QED
    <3> DEFINE g == [f EXCEPT ![i] = Changed(f[i])]
    <3>1. g \in Seq(Cell) /\ g[1] = Header /\ Broken(g)
      BY ContentBreaks, Zenon
    <3>2. Damage(f, i, kind) = g
      BY <2>1
    <3> HIDE DEF g
    <3> QED
      BY <3>1, <3>2
<1>3. CASE kind = "hash"
  <2>1. Damage(f, i, kind) = [f EXCEPT ![i].hash = ZeroHash]
    BY <1>3 DEF Damage
  <2> QED
    <3> DEFINE g == [f EXCEPT ![i].hash = ZeroHash]
    <3>1. g \in Seq(Cell) /\ g[1] = Header /\ Broken(g)
      BY HashBreaks, Zenon
    <3>2. Damage(f, i, kind) = g
      BY <2>1
    <3> HIDE DEF g
    <3> QED
      BY <3>1, <3>2
<1>4. CASE kind = "rewritten"
  <2>1. Damage(f, i, kind)
          = [f EXCEPT ![i] = [Changed(f[i]) EXCEPT
                                !.hash = ChainHash(PrevHash(f, i), Changed(f[i]).body)]]
    BY <1>4 DEF Damage
  <2>2. i < Len(f) /\ f[i + 1].kind = "entry"
    BY <1>4
  <2> QED
    <3> DEFINE g == [f EXCEPT ![i] = [Changed(f[i]) EXCEPT
                                     !.hash = ChainHash(PrevHash(f, i), Changed(f[i]).body)]]
    <3>1. g \in Seq(Cell) /\ g[1] = Header /\ Broken(g)
      BY <2>2, RewriteBreaks, Zenon
    <3>2. Damage(f, i, kind) = g
      BY <2>1
    <3> HIDE DEF g
    <3> QED
      BY <3>1, <3>2
<1>5. CASE kind = "oversize"
  <2> DEFINE big == CHOOSE k \in Keys : KeySize[k] > kMaxFieldSize
  <2>1. Damage(f, i, kind) = [f EXCEPT ![i].body.key = big]
    BY <1>5 DEF Damage
  <2>2. big \in Keys /\ KeySize[big] > kMaxFieldSize
    BY <1>5 DEF DamageShows
  <2> HIDE DEF big
  <2> QED
    <3> DEFINE g == [f EXCEPT ![i].body.key = big]
    <3>1. g \in Seq(Cell) /\ g[1] = Header /\ Broken(g)
      BY <2>2, OversizeBreaks, Zenon
    <3>2. Damage(f, i, kind) = g
      BY <2>1
    <3> HIDE DEF g
    <3> QED
      BY <3>1, <3>2
<1>6. CASE kind = "dropped"
  <2>1. Damage(f, i, kind) = SubSeq(f, 1, i - 1) \o SubSeq(f, i + 1, Len(f))
    BY <1>6 DEF Damage
  <2>2. i < Len(f) /\ f[i + 1].kind = "entry"
    BY <1>6
  <2> QED
    <3> DEFINE g == SubSeq(f, 1, i - 1) \o SubSeq(f, i + 1, Len(f))
    <3>1. g \in Seq(Cell) /\ g[1] = Header /\ Broken(g)
      BY <2>2, DropBreaks, Zenon
    <3>2. Damage(f, i, kind) = g
      BY <2>1
    <3> HIDE DEF g
    <3> QED
      BY <3>1, <3>2
<1>7. CASE kind = "swapped"
  <2>1. Damage(f, i, kind) = [f EXCEPT ![i] = f[i + 1], ![i + 1] = f[i]]
    BY <1>7 DEF Damage
  <2>2. i < Len(f) /\ f[i + 1].kind = "entry"
    BY <1>7
  <2> QED
    <3> DEFINE g == [f EXCEPT ![i] = f[i + 1], ![i + 1] = f[i]]
    <3>1. g \in Seq(Cell) /\ g[1] = Header /\ Broken(g)
      BY <2>2, SwapBreaks, Zenon
    <3>2. Damage(f, i, kind) = g
      BY <2>1
    <3> HIDE DEF g
    <3> QED
      BY <3>1, <3>2
<1> QED
  BY <1>1, <1>2, <1>3, <1>4, <1>5, <1>6, <1>7

-----------------------------------------------------------------------------
(* The engine's steps and the truth. *)

(* What a step of the engine does to the file when no power is lost. *)
LEMMA FileSteps ==
    ASSUME ChainSafe, "power" \notin Failures, WALTypeOK, WALNext
    PROVE  \/ walFile' = walFile
           \/ wal_pc \in {"creating", "truncated"} /\ walFile' = Append(walFile, Header)
           \/ /\ wal_pc = "ready" /\ wal_pc' = "appended"
              /\ \E e \in Cell : e.kind = "entry" /\ walFile' = Append(walFile, e)
           \/ wal_pc = "ready" /\ wal_pc' = "closed" /\ walFile' = Append(walFile, Part)
           \/ WalkTorn /\ walFile' = VerifiedPrefix
           \/ ResetTruncate
<1>1. CASE WALOpen
  BY <1>1, SafeFailures DEF WALOpen, OpenEmpty, OpenCreate, OpenCreateFails, OpenSync, OpenSyncFails,
       OpenExisting, OpenRefused, FileAppend, FileSync, diskVars
<1>2. CASE WALWalk
  BY <1>2 DEF WALWalk, WalkEntry, WalkEnd, WalkTorn, WalkRefused, ReturnTorn, FileTruncateTo,
       diskVars
<1>3. CASE WALRotate
  <2>1. ASSUME ResetFails PROVE UNCHANGED diskVars
    BY <2>1, SafeFailures, Zenon DEF ResetFails
  <2>2. CASE ResetHeader
    BY <2>2 DEF ResetHeader, FileAppend
  <2>3. CASE ResetReturn
    BY <2>3 DEF ResetReturn, FileSync
  <2> QED
    BY <1>3, <2>1, <2>2, <2>3 DEF WALRotate, diskVars
<1>4. CASE ClientReset
  <2>1. FileSync \/ UNCHANGED diskVars
    BY <1>4, Zenon DEF ClientReset, ResetSync
  <2> QED
    BY <2>1 DEF FileSync, diskVars
<1>5. CASE ClientRecover \/ verify \/ ClientSetEpoch
  BY <1>5 DEF ClientRecover, verify, ClientSetEpoch, diskVars
<1>6. CASE ClientAppend
  <2>1. PICK type \in RecordType, key \in Keys, blob \in Blobs :
          \/ AppendWrite(type, key, blob, 0)
          \/ AppendWriteFails(key, blob)
          \/ AppendKilled(key, blob)
    BY <1>6 DEF ClientAppend
  <2>2. CASE AppendWrite(type, key, blob, 0)
    <3> DEFINE body == NewBody(type, key, blob, 0)
               e == [kind |-> "entry", body |-> body, hash |-> ChainHash(m_headHash, body)]
    <3>1. e \in Cell
      BY NewEntryType
    <3>2. wal_pc = "ready" /\ wal_pc' = "appended" /\ walFile' = Append(walFile, e)
      BY <2>2 DEF AppendWrite, FileAppend
    <3>3. e.kind = "entry"
      OBVIOUS
    <3> HIDE DEF e
    <3> QED
      BY <3>1, <3>2, <3>3
  <2>3. CASE AppendWriteFails(key, blob)
    BY <2>3, SafeFailures DEF AppendWriteFails, diskVars
  <2>4. CASE AppendKilled(key, blob)
    BY <2>4 DEF AppendKilled, FileAppend
  <2> QED
    BY <2>1, <2>2, <2>3, <2>4
<1>7. CASE AppendReturn \/ AppendSyncFails
  BY <1>7, SameFile DEF AppendReturn, AppendSyncFails, diskVars
<1>8. CASE Close \/ Kill
  BY <1>8 DEF Close, CloseFlush, FileSync, Kill, diskVars
<1>9. ~\E survivor \in Survivors : PowerLoss(survivor)
  BY DEF PowerLoss
<1> QED
  BY <1>1, <1>2, <1>3, <1>4, <1>5, <1>6, <1>7, <1>8, <1>9, WalkNeverFails DEF WALNext

(* How the truth follows the file. *)
LEMMA TruthFollows ==
    ASSUME WALTypeOK, EngineStep
    PROVE  /\ walFile' = walFile => truth' = truth
           /\ walFile # <<>> /\ walFile' = <<>> => truth' = <<>>
           /\ \A c \in Cell : walFile' = Append(walFile, c)
                => truth' = IF c = Part THEN truth ELSE Append(truth, c)
           /\ walFile' # <<>> /\ Len(walFile') < Len(walFile) => truth' = truth
           /\ truth \in Seq(Cell) => truth' \in Seq(Cell)
<1>0. walFile \in Seq(Cell) /\ Len(walFile) \in Nat
  BY LenProperties DEF WALTypeOK
<1> DEFINE emptied == walFile # <<>> /\ walFile' = <<>>
           added == Len(walFile') > Len(walFile) /\ walFile'[Len(walFile')] # Part
<1>1. truth' = IF emptied THEN <<>>
               ELSE IF added THEN Append(truth, walFile'[Len(walFile')]) ELSE truth
  BY DEF EngineStep
<1>2. walFile' = walFile => ~emptied /\ ~added
  BY <1>0
<1>3. walFile' # <<>> /\ Len(walFile') < Len(walFile) => ~emptied /\ ~added
  <2>1. WALTypeOK'
    BY TypeStep DEF EngineStep
  <2>2. Len(walFile') \in Nat
    BY <2>1, LenProperties DEF WALTypeOK
  <2> QED
    BY <1>0, <2>2
<1>4. ASSUME NEW c \in Cell, walFile' = Append(walFile, c)
      PROVE  ~emptied /\ (added <=> c # Part) /\ walFile'[Len(walFile')] = c
  BY <1>0, <1>4, AppendProperties
<1>5. truth \in Seq(Cell) => truth' \in Seq(Cell)
  <2>1. walFile' \in Seq(Cell)
    BY TypeStep DEF EngineStep, WALTypeOK
  <2>2. ASSUME added PROVE walFile'[Len(walFile')] \in Cell
    <3>1. Len(walFile') \in 1..Len(walFile')
      BY <1>0, <2>1, <2>2, LenProperties
    <3> QED
      BY <2>1, <3>1, ElementOfSeq
  <2> HIDE DEF added
  <2> QED
    BY <1>1, <2>2, EmptySeq, AppendProperties
<1> HIDE DEF added
<1> QED
  BY <1>1, <1>2, <1>3, <1>4, <1>5

(* A step of the engine on a true log leaves a true log. *)
LEMMA TrueStep ==
    ASSUME ChainSafe, "power" \notin Failures, WALTypeOK, truth \in Seq(Cell), LogIsTrue,
           EngineStep
    PROVE  LogIsTrue' /\ truth' \in Seq(Cell)
<1>0. /\ WALNext /\ LogInv /\ HoldsLog(walFile, truth)
      /\ walFile \in Seq(Cell) /\ Len(walFile) \in Nat
  BY LenProperties DEF EngineStep, LogIsTrue, WALTypeOK
<1>1. LogInv'
  BY <1>0, LogStep
<1>2. ASSUME wal_pc \in {"ready", "resetting"}
      PROVE  walFile = truth /\ walFile # <<>> /\ WholeLog(walFile)
  <2>1. WholeLog(walFile)
    BY <1>0, <1>2 DEF LogInv, AtHead
  <2> QED
    BY <1>0, <2>1, HoldsWhole DEF WholeLog
<1>3. CASE walFile' = walFile
  BY <1>0, <1>1, <1>3, TruthFollows DEF LogIsTrue
<1>4. CASE wal_pc \in {"creating", "truncated"} /\ walFile' = Append(walFile, Header)
  <2>1. walFile = <<>>
    BY <1>0, <1>4 DEF LogInv
  <2>2. truth = <<>>
    BY <1>0, <2>1, CellFacts, AppendProperties DEF HoldsLog
  <2>3. walFile' = <<Header>> /\ truth' = <<Header>>
    BY <1>4, <2>1, <2>2, CellFacts, TruthFollows
  <2>4. <<Header>> \in Seq(Cell) /\ Len(<<Header>>) = 1 /\ WholeLog(<<Header>>)
    BY CellFacts DEF WholeLog
  <2> QED
    BY <1>1, <2>3, <2>4 DEF LogIsTrue, HoldsLog
<1>5. CASE /\ wal_pc = "ready" /\ wal_pc' = "appended"
           /\ \E e \in Cell : e.kind = "entry" /\ walFile' = Append(walFile, e)
  <2>1. PICK e \in Cell : e.kind = "entry" /\ walFile' = Append(walFile, e)
    BY <1>5
  <2>2. truth' = walFile'
    BY <1>2, <1>5, <2>1, TruthFollows, CellFacts
  <2>3. WholeLog(walFile')
    BY <1>1, <1>5 DEF LogInv, AtHead
  <2>4. walFile' \in Seq(Cell)
    BY <1>0, <2>1, AppendProperties
  <2> QED
    BY <1>1, <2>2, <2>3, <2>4 DEF LogIsTrue, HoldsLog
<1>6. CASE wal_pc = "ready" /\ wal_pc' = "closed" /\ walFile' = Append(walFile, Part)
  <2>1. truth' = truth
    BY <1>6, TruthFollows, CellFacts
  <2> QED
    BY <1>0, <1>1, <1>2, <1>6, <2>1 DEF LogIsTrue, HoldsLog
<1>7. CASE WalkTorn /\ walFile' = VerifiedPrefix
  <2>1. /\ walk.pos = Len(walFile) /\ walFile[walk.pos] = Part /\ walk.pos \in 2..Len(walFile)
        /\ wal_pc = "walking"
    BY <1>0, <1>7, WalkCell DEF WalkTorn
  <2>2. VerifiedPrefix = SubSeq(walFile, 1, walk.pos - 1) /\ Len(VerifiedPrefix) = walk.pos - 1
    BY <1>0, <2>1, CutIsWhole
  <2>3. /\ truth # <<>> /\ SubSeq(walFile, 1, walk.pos - 1) = truth
    <3>1. walFile[walk.pos].kind # "entry"
      BY <2>1, CellFacts
    <3> QED
      BY <1>0, <2>1, <3>1, HoldsTorn
  <2>4. walFile' = truth /\ Len(walFile') < Len(walFile)
    BY <1>0, <1>7, <2>1, <2>2, <2>3
  <2>5. truth' = truth
    BY <2>3, <2>4, TruthFollows
  <2> QED
    BY <1>0, <1>1, <2>4, <2>5 DEF LogIsTrue, HoldsLog
<1>8. CASE ResetTruncate
  <2>1. wal_pc = "resetting" /\ walFile' = <<>>
    BY <1>8 DEF ResetTruncate, FileTruncateTo
  <2>2. truth' = <<>>
    BY <1>2, <2>1, TruthFollows
  <2> QED
    BY <1>1, <2>1, <2>2, EmptySeq DEF LogIsTrue, HoldsLog
<1> QED
  BY <1>0, <1>3, <1>4, <1>5, <1>6, <1>7, <1>8, FileSteps

(* Over a broken file the engine's walk neither ends nor finds a torn      *)
(* tail.                                                                   *)
LEMMA BrokenNeverAccepted ==
    ASSUME WALTypeOK, LogIsBroken, wal_pc = "walking"
    PROVE  /\ ~WalkAtEnd /\ "TruncatedTail" \notin ReadResults
           /\ walk.pos \in 2..Len(walFile) /\ walFile[walk.pos].kind = "entry"
<1>1. walFile \in Seq(Cell) /\ Broken(walFile) /\ Verified(walFile, walk) /\ Len(walFile) \in Nat
  BY LenProperties DEF WALTypeOK, LogIsBroken
<1>2. walk.pos \in 2..Len(walFile) /\ walFile[walk.pos].kind = "entry"
  BY <1>1, BrokenWalk
<1>3. ~WalkAtEnd
  BY <1>1, <1>2 DEF WalkAtEnd
<1>4. "TruncatedTail" \notin ReadResults
  <2>1. walk.pos > 1
    BY <1>1, <1>2
  <2>2. ReadResults = {EntryVerdict(walFile[walk.pos])}
    BY <1>2, <2>1 DEF ReadResults
  <2> QED
    BY <2>2 DEF EntryVerdict
<1> QED
  BY <1>2, <1>3, <1>4

(* The next states of the engine beside a broken file. *)
BrokenPc ==
    /\ wal_pc' \in {"closed", "open", "ready", "appended", "walking", "resetting"}
    /\ wal_pc' = "walking" => /\ walFile' = walFile
                              /\ Verified(walFile, walk') /\ walk'.back \in {"open", "ready"}

(* The engine reads no further than the defect, and only reset() gets the  *)
(* file emptied.                                                           *)
LEMMA BrokenPcStep ==
    ASSUME ChainSafe, "power" \notin Failures, WALTypeOK, LogIsBroken, WALNext, ~ResetTruncate
    PROVE  BrokenPc
<1>0. /\ walFile \in Seq(Cell) /\ walFile # <<>> /\ walFile[1] = Header
      /\ wal_pc \in {"closed", "open", "ready", "appended", "walking", "resetting"}
      /\ walk \in WalkLocals
  BY BrokenNotEmpty DEF WALTypeOK, LogIsBroken
<1>1. CASE WALOpen
  BY <1>0, <1>1 DEF BrokenPc, WALOpen, OpenEmpty, OpenCreate, OpenCreateFails, OpenSync, OpenSyncFails,
       OpenExisting, OpenRefused
<1>2. CASE WalkEntry
  <2>1. wal_pc = "walking" /\ wal_pc' = "walking" /\ walFile' = walFile
    BY <1>2 DEF WalkEntry, diskVars
  <2>2. /\ walk.pos \in 2..Len(walFile) /\ walFile[walk.pos].kind = "entry"
        /\ Verified(walFile, walk) /\ walk.back \in {"open", "ready"}
    BY <2>1, BrokenNeverAccepted DEF LogIsBroken
  <2>3. EntryVerdict(walFile[walk.pos]) = "Ok"
    BY <1>2, WalkReads DEF WalkEntry
  <2>4. Accepts(walk, walFile[walk.pos])
    BY <2>3 DEF EntryVerdict, Accepts
  <2>5. GoodEntry(walFile, walk.pos) /\ walk.pos <= Len(walFile)
    BY <2>2, <2>4, AcceptsGood
  <2>6. walk' = Advance(walFile, walk)
    BY <1>2 DEF WalkEntry, Advance
  <2>7. Verified(walFile, walk') /\ walk'.back = walk.back
    BY <1>0, <2>2, <2>5, <2>6, AdvanceVerified, AdvanceFields
  <2> QED
    BY <2>1, <2>2, <2>7 DEF BrokenPc
<1>3. ~WalkEnd /\ ~WalkTorn
  BY BrokenNeverAccepted DEF WalkEnd, WalkTorn
<1>4. CASE WalkRefused
  <2>1. wal_pc = "walking" /\ wal_pc' = walk.back
    BY <1>4 DEF WalkRefused
  <2> QED
    BY <2>1 DEF BrokenPc, LogIsBroken
<1>5. CASE WALRotate
  <2>1. ~ResetHeader /\ ~ResetReturn
    BY <1>0 DEF ResetHeader, ResetReturn
  <2>2. ASSUME ResetFails PROVE wal_pc' = "ready"
    BY <2>2, Zenon DEF ResetFails
  <2> QED
    BY <1>5, <2>1, <2>2 DEF WALRotate, BrokenPc
<1>6. CASE ClientReset
  <2>1. wal_pc' = "resetting"
    BY <1>6, Zenon DEF ClientReset, ResetSync
  <2> QED
    BY <2>1 DEF BrokenPc
<1>7. CASE ClientRecover \/ verify
  <2>1. /\ wal_pc \in {"open", "ready"} /\ walFile' = walFile
        /\ walk'.pos = 2 /\ walk'.prevHash = ZeroHash /\ walk'.expectedSeq = 0
        /\ walk'.back = wal_pc /\ wal_pc' = "walking"
    BY <1>0, <1>7 DEF ClientRecover, verify, WalkStart, diskVars
  <2>2. Verified(walFile, walk')
    BY <1>0, <2>1, StartVerified
  <2> QED
    BY <2>1, <2>2 DEF BrokenPc
<1>8. CASE ClientSetEpoch
  BY <1>8 DEF ClientSetEpoch, BrokenPc
<1>9. CASE ClientAppend
  <2>1. wal_pc' \in {"appended", "ready", "closed"}
    BY <1>9 DEF ClientAppend, AppendWrite, AppendWriteFails, AppendKilled
  <2> QED
    BY <2>1 DEF BrokenPc
<1>10. CASE AppendReturn \/ AppendSyncFails
  BY <1>10 DEF AppendReturn, AppendSyncFails, BrokenPc
<1>11. CASE Close \/ Kill
  BY <1>11 DEF Close, Kill, BrokenPc
<1>12. ~\E survivor \in Survivors : PowerLoss(survivor)
  BY DEF PowerLoss
<1> QED
  BY <1>1, <1>2, <1>3, <1>4, <1>5, <1>6, <1>7, <1>8, <1>9, <1>10, <1>11, <1>12, WalkNeverFails
  DEF WALNext, WALWalk

(* A broken file stays broken until reset() empties it, and is then the    *)
(* true empty log.                                                         *)
LEMMA BrokenStep ==
    ASSUME ChainSafe, "power" \notin Failures, WALTypeOK, truth \in Seq(Cell), LogIsBroken,
           EngineStep
    PROVE  (LogIsTrue' \/ LogIsBroken') /\ truth' \in Seq(Cell)
<1>0. /\ WALNext /\ damaged' = damaged /\ damaged /\ Broken(walFile) /\ walFile[1] = Header
      /\ walFile \in Seq(Cell) /\ walFile # <<>>
  BY BrokenNotEmpty DEF EngineStep, LogIsBroken, WALTypeOK
<1>1. CASE ResetTruncate
  <2>1. wal_pc' = "truncated" /\ walFile' = <<>> /\ walOld' = {}
    BY <1>1 DEF ResetTruncate, FileTruncateTo
  <2>2. truth' = <<>>
    BY <1>0, <2>1, TruthFollows
  <2>3. LogInv'
    BY <2>1 DEF LogInv, GoodLog
  <2> QED
    BY <2>1, <2>2, <2>3, EmptySeq DEF LogIsTrue, HoldsLog
<1>2. CASE ~ResetTruncate
  <2>1. BrokenPc
    BY <1>0, <1>2, BrokenPcStep
  <2>2. ~WalkTorn /\ wal_pc \notin {"creating", "truncated"}
    BY BrokenNeverAccepted DEF WalkTorn, LogIsBroken
  <2>3. walFile' = walFile \/ \E c \in Cell : walFile' = Append(walFile, c)
    BY <1>0, <1>2, <2>2, CellFacts, FileSteps
  <2>4. Broken(walFile') /\ walFile'[1] = Header
    <3>1. CASE walFile' = walFile
      BY <1>0, <3>1
    <3>2. ASSUME NEW c \in Cell, walFile' = Append(walFile, c)
          PROVE  Broken(walFile') /\ walFile'[1] = Header
      <4>1. Broken(Append(walFile, c)) /\ Append(walFile, c)[1] = walFile[1]
        BY <1>0, BrokenGrows
      <4> QED
        BY <1>0, <3>2, <4>1
    <3> QED
      BY <2>3, <3>1, <3>2
  <2>5. LogIsBroken'
    BY <1>0, <2>1, <2>4 DEF LogIsBroken, BrokenPc
  <2>6. truth' \in Seq(Cell)
    <3>1. CASE walFile' = walFile
      BY <3>1, TruthFollows
    <3>2. ASSUME NEW c \in Cell, walFile' = Append(walFile, c) PROVE truth' \in Seq(Cell)
      BY <3>2, TruthFollows, AppendProperties
    <3> QED
      BY <2>3, <3>1, <3>2
  <2> QED
    BY <2>5, <2>6
<1> QED
  BY <1>1, <1>2

-----------------------------------------------------------------------------
(* The tool and the truth. *)

(* A tool's step keeps the type of the truth, and without a clash leaves a *)
(* true log true and a broken file broken.                                 *)
LEMMA ToolKeepsTruth ==
    ASSUME WALTypeOK, ToolTypeOK, truth \in Seq(Cell), ToolStep
    PROVE  /\ truth' \in Seq(Cell)
           /\ ~clashed' /\ (LogIsTrue \/ LogIsBroken) => LogIsTrue' \/ LogIsBroken'
<1>1. ToolOnDisk
  BY ToolTouches
<1>2. CASE ToolCreates
  <2>0. <<Header>> \in Seq(Cell) /\ Len(<<Header>>) = 1 /\ WholeLog(<<Header>>)
    BY CellFacts DEF WholeLog
  <2>1. truth' \in Seq(Cell)
    BY <1>2, <2>0 DEF ToolCreates
  <2>2. ASSUME ~clashed', LogIsTrue \/ LogIsBroken PROVE LogIsTrue'
    <3>1. /\ walFile' = Append(walFile, Header)
          /\ clashed' = (clashed \/ walFile # <<>> \/ wal_pc \in {"creating", "truncated"})
          /\ truth' = IF walFile # <<>> \/ wal_pc \in {"creating", "truncated"}
                      THEN truth ELSE <<Header>>
      BY <1>2 DEF ToolCreates, FileAppend
    <3>2. ~(walFile # <<>> \/ wal_pc \in {"creating", "truncated"})
      BY <2>2, <3>1, Zenon
    <3>3. walFile = <<>> /\ truth' = <<Header>>
      BY <3>1, <3>2, Zenon
    <3>6. walFile' = <<Header>>
      BY <3>1, <3>3
    <3>4. LogIsTrue
      BY <2>2, <3>3, BrokenNotEmpty DEF LogIsBroken
    <3>5. LogInv'
      BY <1>1, <2>2, <3>4, ToolKeepsLog DEF LogIsTrue
    <3> QED
      BY <2>0, <3>3, <3>5, <3>6 DEF LogIsTrue, HoldsLog
  <2> QED
    BY <2>1, <2>2
<1>3. CASE ~ToolCreates
  <2>0. ASSUME ToolWalks \/ ToolWalkFails PROVE UNCHANGED <<truth, diskVars>>
    BY <2>0, ToolWalkStep, ToolFailStep DEF ToolWalks, ToolWalkFails, ToolWalksOn
  <2>1. UNCHANGED truth
    BY <1>3, <2>0
    DEF ToolStep, Tool, ToolGoesOn, ToolFails, ToolFindsNone, ToolFindsEmpty, ToolOpens,
        ToolLosesHeader, ToolSyncs, ToolStats, ToolMisreads, ToolExits, ToolStarts,
        ToolStartFails, ToolCreateFails
  <2>2. FileSync \/ UNCHANGED diskVars
    BY <1>3, <2>0
    DEF ToolStep, Tool, ToolGoesOn, ToolFails, ToolFindsNone, ToolFindsEmpty, ToolOpens,
        ToolLosesHeader, ToolSyncs, ToolStats, ToolMisreads, ToolExits, ToolStarts,
        ToolStartFails, ToolCreateFails
  <2>3. walFile' = walFile /\ UNCHANGED <<wal_pc, walk, damaged>>
    BY <1>1, <2>2, SameFile DEF ToolOnDisk
  <2>4. ASSUME LogIsTrue, ~clashed' PROVE LogIsTrue'
    <3>1. LogInv'
      BY <1>1, <2>4, ToolKeepsLog DEF LogIsTrue
    <3> QED
      BY <2>1, <2>3, <2>4, <3>1 DEF LogIsTrue
  <2>5. ASSUME LogIsBroken PROVE LogIsBroken'
    BY <2>1, <2>3, <2>5 DEF LogIsBroken
  <2> QED
    BY <2>1, <2>4, <2>5
<1> QED
  BY <1>2, <1>3

(* What the tool sees when it takes the file's size: the truth, perhaps    *)
(* with part of an entry behind it, or a broken file.                      *)
LEMMA SeesTruth ==
    ASSUME WALTypeOK, truth \in Seq(Cell), LogIsTrue \/ LogIsBroken, walFile # <<>>, ToolStats
    PROVE  /\ seen' \in Seq(Cell) /\ seen' # <<>> /\ promised' = truth
           /\ (truth # <<>> /\ HoldsLog(seen', truth)) \/ Broken(seen')
<1>0. walFile \in Seq(Cell) /\ promised' = truth
  BY DEF WALTypeOK, ToolStats
<1>1. CASE LogIsBroken
  <2>1. CASE seen' = walFile
    BY <1>0, <1>1, <2>1 DEF LogIsBroken
  <2>2. CASE seen' = Append(walFile, Part)
    BY <1>0, <1>1, <2>2, BrokenGrows, CellFacts, AppendProperties DEF LogIsBroken
  <2> QED
    BY <2>1, <2>2 DEF ToolStats
<1>2. CASE LogIsTrue
  <2>1. truth # <<>> /\ HoldsLog(walFile, truth)
    BY <1>2 DEF LogIsTrue, HoldsLog
  <2>2. CASE seen' = walFile
    BY <1>0, <2>1, <2>2
  <2>3. CASE wal_pc = "ready" /\ seen' = Append(walFile, Part)
    <3>1. WholeLog(walFile)
      BY <1>2, <2>3 DEF LogIsTrue, LogInv, AtHead
    <3>2. walFile = truth
      BY <1>0, <2>1, <3>1, HoldsWhole DEF WholeLog
    <3>3. HoldsLog(Append(truth, Part), truth)
      BY <2>1, <3>1, <3>2 DEF HoldsLog
    <3>4. Append(truth, Part) \in Seq(Cell) /\ Append(truth, Part) # <<>>
      BY CellFacts, AppendProperties
    <3> QED
      BY <1>0, <2>1, <2>3, <3>2, <3>3, <3>4
  <2> QED
    BY <2>2, <2>3 DEF ToolStats
<1> QED
  BY <1>1, <1>2

(* What the walk accepts is the whole truth as of that moment. *)
LEMMA WalkAcceptsTruth ==
    ASSUME ToolTypeOK, promised \in Seq(Cell), Verified(seen, tool_walk),
           (promised # <<>> /\ HoldsLog(seen, promised)) \/ Broken(seen),
           ToolWalks
    PROVE  /\ seen' = seen /\ promised' = promised
           /\ tool_pc' = "walking" => Verified(seen, tool_walk')
           /\ tool_pc' \in {"walking", "open"}
           /\ tool_pc' = "walking" => verdict' = "none"
           /\ tool_pc' = "open" => verdict' # "none"
           /\ verdict' \in {"Ok", "TruncatedTail"} => SubSeq(seen, 1, accepted') = promised
<1>0. /\ seen' = seen /\ promised' = promised /\ accepted' = tool_walk.pos - 1
      /\ tool_pc = "walking" /\ verdict = "none"
      /\ ToolOnEntry \/ ToolOnEnd \/ ToolOnTorn \/ ToolOnDefect
  BY ToolWalkStep DEF ToolWalks, ToolWalksOn, ToolTypeOK
<1>1. /\ seen \in Seq(Cell) /\ tool_walk \in WalkLocals /\ Len(seen) \in Nat
      /\ tool_walk.pos \in 2..(Len(seen) + 1)
  BY LenProperties DEF ToolTypeOK, Verified
<1>2. CASE ToolOnEntry
  <2>1. /\ tool_walk.pos \in 2..Len(seen) /\ GoodEntry(seen, tool_walk.pos)
        /\ tool_walk' = Advance(seen, tool_walk) /\ UNCHANGED <<tool_pc, verdict>>
    BY <1>2, AcceptsGood DEF ToolOnEntry
  <2>2. tool_walk.pos <= Len(seen)
    BY <1>1, <2>1
  <2>3. Verified(seen, tool_walk')
    BY <1>1, <2>1, <2>2, AdvanceVerified
  <2> QED
    BY <1>0, <2>1, <2>3
<1>3. CASE ToolOnEnd
  <2>1. tool_walk.pos = Len(seen) + 1 /\ verdict' = "Ok" /\ tool_pc' = "open"
    BY <1>1, <1>3 DEF ToolOnEnd, ToolDone
  <2>2. HoldsLog(seen, promised)
    BY <1>1, <2>1, BrokenWalk
  <2>3. \A i \in 2..Len(seen) : GoodEntry(seen, i)
    BY <1>1, <2>1 DEF Verified
  <2>4. seen = promised
    BY <1>1, <2>2, <2>3, HoldsWhole
  <2>5. SubSeq(seen, 1, Len(seen)) = seen
    <3>1. /\ SubSeq(seen, 1, Len(seen)) \in Seq(Cell)
          /\ Len(SubSeq(seen, 1, Len(seen))) = Len(seen)
          /\ \A j \in 1..Len(seen) : SubSeq(seen, 1, Len(seen))[j] = seen[j]
      BY <1>1, PrefixFacts
    <3> QED
      BY <1>1, <3>1, SeqEqual
  <2>6. accepted' = Len(seen)
    BY <1>0, <1>1, <2>1
  <2> QED
    BY <1>0, <2>1, <2>4, <2>5, <2>6
<1>4. CASE ToolOnTorn
  <2>1. /\ tool_walk.pos \in 2..Len(seen) /\ seen[tool_walk.pos].kind # "entry"
        /\ verdict' = "TruncatedTail" /\ tool_pc' = "open"
    BY <1>4 DEF ToolOnTorn, ToolDone
  <2>2. HoldsLog(seen, promised)
    BY <1>1, <2>1, BrokenWalk
  <2>3. SubSeq(seen, 1, tool_walk.pos - 1) = promised
    BY <1>1, <2>1, <2>2, HoldsTorn
  <2> QED
    BY <1>0, <2>1, <2>3
<1>5. CASE ToolOnDefect
  BY <1>0, <1>5 DEF ToolOnDefect, ToolDone
<1> QED
  BY <1>0, <1>2, <1>3, <1>4, <1>5

(* The tool notes the truth of its fstat(). *)
LEMMA PromiseTyped ==
    ASSUME truth \in Seq(Cell), promised \in Seq(Cell), ToolStep
    PROVE  promised' \in Seq(Cell)
<1>1. promised' = promised \/ promised' = truth \/ promised' = <<>>
  BY DEF ToolStep, Tool, ToolGoesOn, ToolFails, ToolFindsNone, ToolFindsEmpty, ToolCreates,
         ToolOpens, ToolLosesHeader, ToolSyncs, ToolStats, ToolWalks, ToolMisreads, ToolExits,
         ToolStarts, ToolStartFails, ToolCreateFails, ToolWalkFails, ToolWalksOn
<1> QED
  BY <1>1, EmptySeq

(* The tool's steps keep it in step with the file. *)
LEMMA InStepTool ==
    ASSUME WALTypeOK, ToolTypeOK, truth \in Seq(Cell),
           LogIsTrue \/ LogIsBroken, promised \in Seq(Cell), ToolInStep, ToolStep
    PROVE  ToolInStep'
<1>0. walFile # <<>> => walFile' # <<>>
  BY ToolGrowsFile
<1>1. CASE ToolFindsNone
  <2>1. tool_pc' = "open" /\ verdict' = "NoFile" /\ promised' = promised
    BY <1>1 DEF ToolFindsNone, ToolStarts
  <2> QED
    BY <2>1 DEF ToolInStep
<1>2. CASE ToolCreates
  <2>1. /\ tool_pc' = "opening" /\ UNCHANGED <<verdict, rotated, ioError, promised, seen, accepted>>
        /\ walFile' = Append(walFile, Header)
    BY <1>2 DEF ToolCreates, FileAppend
  <2>2. walFile' # <<>>
    BY <2>1, CellFacts, AppendProperties DEF WALTypeOK
  <2> QED
    BY <2>1, <2>2 DEF ToolInStep
<1>3. CASE ToolOpens
  <2>1. tool_pc' = "open" /\ verdict' = "none" /\ walFile # <<>> /\ promised' = promised
    BY <1>3 DEF ToolOpens, ToolStarts
  <2> QED
    BY <1>0, <2>1 DEF ToolInStep
<1>4. CASE ToolLosesHeader
  BY <1>4 DEF ToolLosesHeader, ToolInStep
<1>10. CASE ToolFindsEmpty
  <2>1. tool_pc' = "creating" /\ verdict' = "none" /\ promised' = promised
    BY <1>10 DEF ToolFindsEmpty, ToolStarts
  <2> QED
    BY <2>1 DEF ToolInStep
<1>11. CASE ToolStartFails \/ ToolCreateFails
  <2>1. tool_pc' = "open" /\ verdict' = "BadHeader" /\ ioError' = TRUE /\ promised' = promised
    BY <1>11 DEF ToolStartFails, ToolCreateFails, ToolStarts
  <2> QED
    BY <2>1 DEF ToolInStep
<1>12. CASE ToolWalkFails
  <2>1. tool_pc' = "open" /\ verdict' # "none" /\ ioError' = TRUE /\ promised' = promised
    BY <1>12, ToolFailStep DEF ToolDone
  <2> QED
    BY <2>1 DEF ToolInStep
<1>5. CASE ToolSyncs
  <2>1. /\ tool_pc = "opening" /\ tool_pc' = "open"
        /\ UNCHANGED <<verdict, rotated, ioError, promised, seen, accepted>>
    BY <1>5 DEF ToolSyncs
  <2> QED
    BY <1>0, <2>1 DEF ToolInStep
<1>6. CASE ToolStats
  <2>1. /\ tool_pc = "open" /\ verdict = "none" /\ promised' = truth
        /\ tool_pc' = "walking" /\ tool_walk' = Verify /\ UNCHANGED <<verdict, rotated>>
    BY <1>6 DEF ToolStats
  <2>2. ASSUME ~rotated
        PROVE  /\ Verified(seen', tool_walk')
               /\ (promised' # <<>> /\ HoldsLog(seen', promised')) \/ Broken(seen')
    <3>1. walFile # <<>>
      BY <2>1, <2>2 DEF ToolInStep
    <3>2. /\ seen' \in Seq(Cell) /\ seen' # <<>> /\ promised' = truth
          /\ (truth # <<>> /\ HoldsLog(seen', truth)) \/ Broken(seen')
      BY <1>6, <3>1, SeesTruth
    <3>3. Verified(seen', tool_walk')
      BY <2>1, <3>2, VerifyFields, StartVerified
    <3> QED
      BY <3>2, <3>3
  <2> QED
    BY <2>1, <2>2 DEF ToolInStep
<1>7. CASE ToolWalks
  <2>1. rotated' = rotated /\ tool_pc = "walking" /\ promised' = promised
    BY <1>7, ToolWalkStep DEF ToolWalks, ToolWalksOn
  <2>2. CASE rotated
    BY <2>1, <2>2 DEF ToolInStep
  <2>3. CASE ~rotated
    <3>1. /\ Verified(seen, tool_walk)
          /\ (promised # <<>> /\ HoldsLog(seen, promised)) \/ Broken(seen)
      BY <2>1, <2>3 DEF ToolInStep
    <3>2. /\ seen' = seen /\ promised' = promised
          /\ tool_pc' = "walking" => Verified(seen, tool_walk')
          /\ tool_pc' \in {"walking", "open"}
          /\ tool_pc' = "walking" => verdict' = "none"
          /\ tool_pc' = "open" => verdict' # "none"
          /\ verdict' \in {"Ok", "TruncatedTail"} => SubSeq(seen, 1, accepted') = promised
      BY <1>7, <3>1, WalkAcceptsTruth
    <3> QED
      BY <3>1, <3>2 DEF ToolInStep
  <2> QED
    BY <2>2, <2>3
<1>8. CASE ToolMisreads
  <2>1. lost /\ rotated' = rotated /\ promised' = promised
    BY <1>8 DEF ToolMisreads
  <2>2. rotated'
    BY <2>1 DEF ToolTypeOK
  <2> QED
    BY <2>1, <2>2 DEF ToolInStep
<1>9. CASE ToolExits
  BY <1>9, EmptySeq DEF ToolExits, ToolInStep
<1> QED
  BY <1>1, <1>2, <1>3, <1>4, <1>5, <1>6, <1>7, <1>8, <1>9, <1>10, <1>11, <1>12
  DEF ToolStep, Tool, ToolGoesOn, ToolFails

(* So does the engine. *)
LEMMA InStepEngine ==
    ASSUME ToolTypeOK, ToolInStep, EngineStep
    PROVE  ToolInStep'
<1>1. /\ UNCHANGED <<tool_pc, tool_walk, verdict, seen, accepted, ioError, promised>>
      /\ rotated => rotated'
      /\ walFile # <<>> /\ tool_pc # "closed" /\ ~rotated' => walFile' # <<>>
  BY ToolUnderEngine
<1> QED
  BY <1>1 DEF ToolInStep

(* Damage turns a true log into a broken file. *)
LEMMA StrikeStep ==
    ASSUME TruthInv, DamageShows, NEW i \in 2..Len(walFile), NEW kind \in Damages,
           Strikes(i, kind)
    PROVE  TruthInv'
<1>0. /\ ~damaged /\ damaged' = TRUE /\ ~clashed /\ tool_pc = "closed"
      /\ wal_pc \in {"closed", "open", "ready"}
      /\ walFile[i].kind = "entry"
      /\ kind \notin {"content", "hash", "oversize"}
           => i < Len(walFile) /\ walFile[i + 1].kind = "entry"
      /\ walFile' = Damage(walFile, i, kind) /\ walFloor' = Len(walFile')
      /\ UNCHANGED <<walOld, wal_pc, m_epoch, m_seq, m_headHash, m_pendingWrites, walk, status>>
      /\ UNCHANGED <<toolVars, clashed, truth, promised>>
  BY DEF Strikes, handleVars
<1>1. /\ WALTypeOK /\ ToolTypeOK /\ ToolInStep /\ truth \in Seq(Cell) /\ promised \in Seq(Cell)
      /\ LogIsTrue
  BY <1>0 DEF TruthInv, LogIsBroken
<1>2. walFile \in Seq(Cell) /\ GoodLog(walFile)
  BY <1>1 DEF WALTypeOK, LogIsTrue, LogInv
<1>3. walFile' \in Seq(Cell) /\ walFile'[1] = Header /\ Broken(walFile')
  BY <1>0, <1>2, DamageBreaks
<1>4. WALTypeOK'
  <2>1. DiskTypeOK'
    BY <1>0, <1>1, <1>3, LenProperties DEF DiskTypeOK, WALTypeOK
  <2>2. HandleTypeOK'
    BY <1>0, <1>1, TypeParts DEF HandleTypeOK
  <2> QED
    BY <2>1, <2>2, TypeParts
<1>5. LogIsBroken'
  BY <1>0, <1>3 DEF LogIsBroken
<1>6. ToolTypeOK' /\ ToolInStep'
  BY <1>0, <1>1 DEF toolVars, ToolTypeOK, ToolInStep
<1> QED
  BY <1>0, <1>1, <1>4, <1>5, <1>6 DEF TruthInv

(* Every step keeps the invariant. *)
LEMMA TruthStep ==
    ASSUME ChainSafe, "power" \notin Failures, DamageShows,
           TruthInv, [AuditNext]_auditVars
    PROVE  TruthInv'
<1>0. /\ WALTypeOK /\ ToolTypeOK /\ truth \in Seq(Cell) /\ promised \in Seq(Cell)
      /\ ~clashed => (LogIsTrue \/ LogIsBroken) /\ ToolInStep
      /\ damaged \in BOOLEAN /\ walFile \in Seq(Cell)
      /\ clashed => clashed'
  BY OnceAndForAll DEF TruthInv, WALTypeOK
<1>1. CASE EngineStep
  <2>1. WALTypeOK'
    BY <1>0, <1>1, TypeStep DEF EngineStep
  <2>2. truth' \in Seq(Cell)
    BY <1>0, <1>1, TruthFollows
  <2>3. ToolTypeOK' /\ UNCHANGED <<promised, damaged>>
    BY <1>0, <1>1, ToolUnderEngine
  <2>4. ASSUME ~clashed' PROVE (LogIsTrue' \/ LogIsBroken') /\ ToolInStep'
    BY <1>0, <1>1, <2>4, TrueStep, BrokenStep, InStepEngine
  <2> QED
    BY <1>0, <2>1, <2>2, <2>3, <2>4 DEF TruthInv
<1>2. CASE ToolStep
  <2>1. ToolOnDisk
    BY <1>0, <1>2, ToolTouches
  <2>2. WALTypeOK' /\ damaged' = damaged
    BY <1>0, <2>1, ToolKeepsTypes DEF ToolOnDisk
  <2>3. truth' \in Seq(Cell) /\ promised' \in Seq(Cell)
    BY <1>0, <1>2, ToolKeepsTruth, PromiseTyped
  <2>4. ToolTypeOK'
    BY <1>0, <1>2, ToolTypeStep
  <2>5. ASSUME ~clashed' PROVE (LogIsTrue' \/ LogIsBroken') /\ ToolInStep'
    BY <1>0, <1>2, <2>5, ToolKeepsTruth, InStepTool
  <2> QED
    BY <1>0, <2>2, <2>3, <2>4, <2>5 DEF TruthInv
<1>3. CASE \E i \in 2..Len(walFile), kind \in Damages : Strikes(i, kind)
  BY <1>3, StrikeStep
<1>4. CASE UNCHANGED auditVars
  <2>1. UNCHANGED walVars /\ UNCHANGED <<toolVars, clashed, truth, promised, damaged>>
    BY <1>4 DEF auditVars
  <2>2. WALTypeOK'
    BY <1>0, <2>1, TypeStep
  <2>3. UNCHANGED <<walFile, walOld, wal_pc, m_seq, m_headHash, walk>>
    BY <2>1 DEF walVars, diskVars, handleVars
  <2>4. LogIsTrue => LogIsTrue'
    BY <2>1, <2>3 DEF LogIsTrue, LogInv, AtHead, WalkVerified
  <2>5. LogIsBroken => LogIsBroken'
    BY <2>1, <2>3 DEF LogIsBroken
  <2>6. ToolTypeOK' /\ (ToolInStep => ToolInStep')
    BY <1>0, <2>1, <2>3 DEF toolVars, ToolTypeOK, ToolInStep
  <2> QED
    BY <1>0, <2>1, <2>2, <2>4, <2>5, <2>6 DEF TruthInv
<1> QED
  BY <1>1, <1>2, <1>3, <1>4 DEF AuditNext, ToolStep

(* The invariant holds in the beginning. *)
LEMMA TruthInit == AuditInit => TruthInv
<1> SUFFICES ASSUME AuditInit PROVE TruthInv
  OBVIOUS
<1>1. WALTypeOK /\ LogInv
  BY InitType, ChainInit DEF AuditInit
<1>2. NoWalk \in WalkLocals /\ NoWalk.pos >= 2 /\ NoWalk.truncate = FALSE
  BY NoWalkType DEF NoWalk
<1>3. ToolTypeOK
  BY <1>2, EmptySeq DEF AuditInit, ToolTypeOK
<1>4. ToolInStep
  BY DEF AuditInit, ToolInStep
<1>5. LogIsTrue
  BY <1>1 DEF AuditInit, WALInit, LogIsTrue, HoldsLog
<1> QED
  BY <1>1, <1>3, <1>4, <1>5, EmptySeq DEF AuditInit, TruthInv

(* Until a clash the file holds the truth or is broken, for every log,     *)
(* every place of the damage and every interleaving of engine and tool.    *)
THEOREM TruthInvariant ==
    ASSUME ChainSafe, "power" \notin Failures, DamageShows
    PROVE  AuditSpec => []TruthInv
<1>1. TruthInv /\ [AuditNext]_auditVars => TruthInv'
  BY TruthStep
<1> QED
  BY TruthInit, <1>1, PTL DEF AuditSpec

(* Exit code 0 of the verifier means that it accepted every entry that the *)
(* engine had written when it looked, unchanged and in its place, if none  *)
(* of its system calls failed.                                             *)
THEOREM ExitZero ==
    ASSUME ChainSafe, "power" \notin Failures, DamageShows
    PROVE  AuditSpec => []ExitZeroMeansComplete
<1>1. TruthInv => ExitZeroMeansComplete
  BY DEF TruthInv, ToolInStep, ExitZeroMeansComplete, ToolRan, exitCode
<1> QED
  BY <1>1, TruthInvariant, PTL

(* When recover() accepts a log, the log holds what the engine wrote. *)
LEMMA RecoverStep ==
    ASSUME ChainSafe, "power" \notin Failures, DamageShows,
           TruthInv, [AuditNext]_auditVars,
           ~clashed, wal_pc = "walking", walk.truncate, status' \in {"Ok", "TruncatedTail"},
           wal_pc' = "ready"
    PROVE  walFile' = truth
<1>0. WALTypeOK /\ ToolTypeOK /\ truth \in Seq(Cell) /\ walFile \in Seq(Cell)
      /\ Len(walFile) \in Nat /\ (LogIsTrue \/ LogIsBroken)
  BY LenProperties DEF TruthInv, WALTypeOK
<1>1. WALNext
  <2>1. ~ToolStep
    BY <1>0, ToolTouches DEF ToolOnDisk
  <2>2. ~\E i \in 2..Len(walFile), kind \in Damages : Strikes(i, kind)
    BY DEF Strikes
  <2>3. ~UNCHANGED auditVars
    BY DEF auditVars, walVars
  <2> QED
    BY <2>1, <2>2, <2>3 DEF AuditNext, EngineStep, ToolStep
<1>2. WalkEnd \/ WalkTorn
  <2>1. ~WALOpen
    BY DEF WALOpen, OpenEmpty, OpenCreate, OpenCreateFails, OpenSync, OpenSyncFails, OpenExisting,
           OpenRefused
  <2>2. ~WALRotate /\ ~ClientReset
    BY DEF WALRotate, ResetTruncate, ResetHeader, ResetReturn, ResetFails,
           ClientReset, ResetSync
  <2>3. ~ClientRecover /\ ~verify /\ ~ClientSetEpoch /\ ~AppendReturn /\ ~AppendSyncFails
    BY DEF ClientRecover, verify, WalkStart, ClientSetEpoch, AppendReturn, AppendSyncFails
  <2>4. ~ClientAppend
    BY DEF ClientAppend, AppendWrite, AppendWriteFails, AppendKilled
  <2>5. ~Close /\ ~Kill /\ ~\E survivor \in Survivors : PowerLoss(survivor)
    BY DEF Close, Kill, PowerLoss
  <2>6. ~WalkEntry
    BY DEF WalkEntry
  <2>7. ~WalkRefused
    BY DEF WalkRefused
  <2> QED
    BY <1>1, <2>1, <2>2, <2>3, <2>4, <2>5, <2>6, <2>7, WalkNeverFails DEF WALNext, WALWalk
<1>3. LogIsTrue
  BY <1>0, <1>2, BrokenNeverAccepted DEF WalkEnd, WalkTorn
<1>4. LogInv /\ HoldsLog(walFile, truth)
  BY <1>3 DEF LogIsTrue
<1>5. CASE WalkEnd
  <2>1. walFile' = walFile /\ WalkAtEnd /\ WalkVerified
    BY <1>4, <1>5 DEF WalkEnd, diskVars, LogInv
  <2>2. walk.pos = Len(walFile) + 1
    BY <1>0, <2>1 DEF WalkAtEnd, WalkVerified
  <2>3. \A i \in 2..Len(walFile) : GoodEntry(walFile, i)
    BY <1>0, <2>1, <2>2 DEF WalkVerified
  <2> QED
    BY <1>0, <1>4, <2>1, <2>3, HoldsWhole
<1>6. CASE WalkTorn
  <2>1. /\ walk.pos \in 2..Len(walFile) /\ walFile[walk.pos] = Part
    BY <1>0, <1>4, <1>6, WalkCell DEF WalkTorn
  <2>2. walFile' = VerifiedPrefix
    BY <1>6, SafeFailures DEF WalkTorn, ReturnTorn, FileTruncateTo
  <2>3. VerifiedPrefix = SubSeq(walFile, 1, walk.pos - 1)
    BY <1>0, <1>4, <2>1, CutIsWhole
  <2>4. walFile[walk.pos].kind # "entry"
    BY <2>1, CellFacts
  <2> QED
    BY <1>0, <1>4, <2>1, <2>2, <2>3, <2>4, HoldsTorn
<1> QED
  BY <1>2, <1>5, <1>6

(* A tampered journal is refused, not silently loaded: whatever entry was  *)
(* damaged, recover() accepts only a log that holds exactly what the       *)
(* engine wrote.                                                           *)
THEOREM TamperedIsRefused ==
    ASSUME ChainSafe, "power" \notin Failures, DamageShows
    PROVE  AuditSpec => RecoverLoadsTruth
<1>1. TruthInv /\ [AuditNext]_auditVars
        => [~clashed /\ wal_pc = "walking" /\ walk.truncate /\ status' \in {"Ok", "TruncatedTail"}
              /\ wal_pc' = "ready" => walFile' = truth]_auditVars
  BY RecoverStep
<1> QED
  BY <1>1, TruthInvariant, PTL DEF AuditSpec, RecoverLoadsTruth
=============================================================================
