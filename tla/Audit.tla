------------------------------- MODULE Audit -------------------------------
(***************************************************************************)
(* litespeed-verify (tools/verify.cpp): a second process with a WAL object *)
(* of its own on the file that an engine is writing, while the storage     *)
(* under both may damage entries, as tools/demo.cpp does to one.           *)
(*                                                                         *)
(* The tool's walk is that of module WAL over what it saw of the file when *)
(* walkChain() took its size: bytes appended later are beyond that size,   *)
(* and an entry half written then stays one that does not fit.             *)
(***************************************************************************)
EXTENDS WAL

CONSTANTS
    Damages,            \* the damage that the storage may do, once
    ToolFailures        \* the tool's own system calls that may fail

DamageKinds ==
    {"content", "hash", "rewritten", "oversize", "dropped", "swapped", "length"}

ASSUME AuditAssumption ==
    /\ Damages \subseteq DamageKinds
    /\ ToolFailures \subseteq {"open header", "open fsync", "fstat", "read"}

VARIABLES
    tool_pc,        \* where the tool's WAL object is: see wal_pc
    tool_walk,      \* the locals of its walkChain()
    verdict,        \* what it found
    seen,           \* the file as of its fstat() in walkChain()
    accepted,       \* the cells of seen that it accepted
    rotated,        \* the engine emptied the file since the tool's start
    lost,           \* and since that fstat()
    ioError,        \* a system call of the tool failed
    clashed,        \* history variable: the tool put its header into a log of the engine's
    truth,          \* history variable: the file without damage and torn bytes
    promised,       \* history variable: truth as of that fstat()
    damaged         \* the storage has done its damage

toolVars == <<tool_pc, tool_walk, verdict, seen, accepted, rotated, lost, ioError>>
auditVars == <<walVars, toolVars, clashed, truth, promised, damaged>>

ToolWal == INSTANCE WAL WITH
             Failures <- ToolFailures,
             walFile <- seen, walFloor <- Len(seen), walOld <- {}, wal_pc <- tool_pc,
             m_epoch <- 0, m_seq <- 0, m_headHash <- ZeroHash, m_pendingWrites <- 0,
             walk <- tool_walk, status <- verdict

AuditInit ==
    /\ WALInit
    /\ tool_pc = "closed" /\ tool_walk = NoWalk /\ verdict = "none"
    /\ seen = <<>> /\ accepted = 0 /\ rotated = FALSE /\ lost = FALSE /\ ioError = FALSE
    /\ clashed = FALSE /\ truth = <<>> /\ promised = <<>> /\ damaged = FALSE

-----------------------------------------------------------------------------
(* The engine's process, with what its step means for the others. *)
EngineStep ==
    LET emptied == walFile # <<>> /\ walFile' = <<>>
        added == Len(walFile') > Len(walFile) /\ walFile'[Len(walFile')] # Part
    IN  /\ WALNext
        /\ rotated' = (rotated \/ (emptied /\ tool_pc # "closed"))
        /\ lost' = (lost \/ (emptied /\ tool_pc = "walking"))
        /\ truth' = IF emptied THEN <<>>
                    ELSE IF added THEN Append(truth, walFile'[Len(walFile')])
                    ELSE truth
        /\ UNCHANGED <<tool_pc, tool_walk, verdict, seen, accepted, ioError, clashed, promised, damaged>>

-----------------------------------------------------------------------------
(* The tool's main(): exists(), the constructor, verify(), and the exit.   *)

engineVars == <<wal_pc, handleVars, walk, status, damaged>>

ToolStarts(pc, v) ==
    /\ tool_pc = "closed"
    /\ tool_pc' = pc /\ verdict' = v
    /\ UNCHANGED <<diskVars, engineVars, tool_walk, seen, accepted, rotated, lost,
                   clashed, truth, promised>>

(* "no such file": an engine has not made one yet. *)
ToolFindsNone ==
    /\ walFile = <<>> /\ wal_pc = "closed"
    /\ ToolStarts("open", "NoFile")
    /\ UNCHANGED ioError

(* fstat() finds an empty file: one whose creator was killed before it     *)
(* wrote the header, one that an engine is creating now, or one in the     *)
(* middle of a rotation.                                                   *)
ToolFindsEmpty ==
    /\ walFile = <<>>
    /\ ToolStarts("creating", "none")
    /\ UNCHANGED ioError

ToolOpens ==
    /\ walFile # <<>> /\ validateHeader
    /\ ToolStarts("open", "none")
    /\ UNCHANGED ioError

(* The constructor's fstat(), or its read() of the header, fails. *)
ToolStartFails ==
    /\ "fstat" \in ToolFailures \/ ("read" \in ToolFailures /\ walFile # <<>>)
    /\ ToolStarts("open", "BadHeader")
    /\ ioError' = TRUE

(* writeHeader(), at the end of the file as it is by now: in a log that    *)
(* has a header, or whose engine is about to write one, it is one too many. *)
ToolCreates ==
    LET clash == walFile # <<>> \/ wal_pc \in {"creating", "truncated"} IN
    /\ tool_pc = "creating"
    /\ FileAppend(Header)
    /\ tool_pc' = "opening"
    /\ clashed' = (clashed \/ clash)
    /\ truth' = IF clash THEN truth ELSE <<Header>>
    /\ UNCHANGED <<engineVars, tool_walk, verdict, seen, accepted, rotated, lost, ioError, promised>>

ToolSyncs ==
    /\ tool_pc = "opening"
    /\ FileSync
    /\ tool_pc' = "open"
    /\ UNCHANGED <<engineVars, tool_walk, verdict, seen, accepted, rotated, lost, ioError,
                   clashed, truth, promised>>

(* The write() or the fsync() of writeHeader() fails, the first without a  *)
(* byte written.                                                           *)
ToolCreateFails ==
    /\ \/ tool_pc = "creating" /\ "open header" \in ToolFailures
       \/ tool_pc = "opening" /\ "open fsync" \in ToolFailures
    /\ tool_pc' = "open" /\ verdict' = "BadHeader" /\ ioError' = TRUE
    /\ UNCHANGED <<diskVars, engineVars, tool_walk, seen, accepted, rotated, lost,
                   clashed, truth, promised>>

(* Emptied between the constructor's fstat() and its read(). *)
ToolLosesHeader ==
    /\ tool_pc = "open" /\ verdict = "none" /\ rotated
    /\ verdict' = "BadHeader"
    /\ UNCHANGED <<diskVars, engineVars, tool_pc, tool_walk, seen, accepted, rotated, lost, ioError,
                   clashed, truth, promised>>

(* verify() up to its loop.  An engine that may append may be half way     *)
(* through it.                                                             *)
Verify_Truncating == [NoWalk EXCEPT !.truncate = TRUE, !.back = "open"]
Verify == [NoWalk EXCEPT !.back = "open"]

ToolStats ==
    /\ tool_pc = "open" /\ verdict = "none"
    /\ tool_pc' = "walking" /\ tool_walk' = Verify
    /\ seen' = walFile \/ (wal_pc = "ready" /\ seen' = Append(walFile, Part))
    /\ promised' = truth
    /\ UNCHANGED <<diskVars, engineVars, verdict, accepted, rotated, lost, ioError, clashed, truth>>

(* The walk; if it cuts what it sees, it cuts the file. *)
ToolWalksOn ==
    /\ ~lost
    /\ accepted' = tool_walk.pos - 1
    /\ IF seen' = seen THEN UNCHANGED diskVars ELSE FileTruncateTo(seen')
    /\ UNCHANGED <<engineVars, rotated, lost, clashed, truth, promised>>

ToolWalks == ToolWal!WALWalk /\ ToolWalksOn /\ UNCHANGED ioError

(* The fstat() of walkChain() fails, which ends it with Ok, or a read(),   *)
(* which counts as the end of the file.                                    *)
ToolWalkFails == ToolWal!WalkFails /\ ToolWalksOn /\ ioError' = TRUE

(* The bytes under the walk are another generation's, or gone. *)
ToolMisreads ==
    /\ lost /\ tool_pc = "walking"
    /\ verdict' \in {"Ok", "TruncatedTail", "Malformed", "Tampered"}
    /\ tool_pc' = "open" /\ tool_walk' = NoWalk
    /\ UNCHANGED <<diskVars, engineVars, seen, accepted, rotated, lost, ioError,
                   clashed, truth, promised>>

(* The tool's exit code, once it has one, and its end. *)
exitCode == IF verdict \in {"Ok", "TruncatedTail"} THEN 0
            ELSE IF verdict = "Tampered" THEN 1 ELSE 2

ToolRan == tool_pc \in {"open", "ready"} /\ verdict # "none"

ToolExits ==
    /\ ToolRan
    /\ tool_pc' = "closed" /\ verdict' = "none"
    /\ seen' = <<>> /\ accepted' = 0 /\ rotated' = FALSE /\ lost' = FALSE
    /\ ioError' = FALSE /\ promised' = <<>>
    /\ UNCHANGED <<diskVars, engineVars, tool_walk, clashed, truth>>

-----------------------------------------------------------------------------
(* Damage to entry i of f: other content or another hash in place; an      *)
(* entry with an entry behind it replaced by a well-formed one, dropped,   *)
(* exchanged with the next; a length over the limit, or under it and       *)
(* leading past the end of the file.                                       *)
Changed(cell) == [cell EXCEPT !.body.timestamp = @ + 1]

Damage(f, i, kind) ==
    CASE kind = "content" -> [f EXCEPT ![i] = Changed(f[i])]
      [] kind = "hash" -> [f EXCEPT ![i].hash = ZeroHash]
      [] kind = "rewritten" ->
           [f EXCEPT ![i] = [Changed(f[i]) EXCEPT !.hash = ChainHash(PrevHash(f, i), Changed(f[i]).body)]]
      [] kind = "oversize" ->
           [f EXCEPT ![i].body.key = CHOOSE k \in Keys : KeySize[k] > kMaxFieldSize]
      [] kind = "dropped" -> SubSeq(f, 1, i - 1) \o SubSeq(f, i + 1, Len(f))
      [] kind = "swapped" -> [f EXCEPT ![i] = f[i + 1], ![i + 1] = f[i]]
      [] kind = "length" -> [f EXCEPT ![i] = Part]

Strikes(i, kind) ==
    /\ ~damaged /\ ~clashed /\ tool_pc = "closed" /\ wal_pc \in {"closed", "open", "ready"}
    /\ walFile[i].kind = "entry"
    /\ kind \notin {"content", "hash", "oversize"}
         => i < Len(walFile) /\ walFile[i + 1].kind = "entry"
    /\ walFile' = Damage(walFile, i, kind)
    /\ walFloor' = Len(walFile')
    /\ damaged' = TRUE
    /\ UNCHANGED <<walOld, wal_pc, handleVars, walk, status, toolVars, clashed, truth, promised>>

-----------------------------------------------------------------------------
Tool == ToolFindsNone \/ ToolFindsEmpty \/ ToolOpens \/ ToolLosesHeader
ToolGoesOn == ToolCreates \/ ToolSyncs \/ ToolStats \/ ToolWalks \/ ToolMisreads \/ ToolExits
ToolFails == ToolStartFails \/ ToolCreateFails \/ ToolWalkFails

AuditNext ==
    \/ EngineStep \/ Tool \/ ToolGoesOn \/ ToolFails
    \/ \E i \in 2..Len(walFile), kind \in Damages : Strikes(i, kind)

AuditSpec == AuditInit /\ [][AuditNext]_auditVars /\ WF_auditVars(ToolGoesOn)

-----------------------------------------------------------------------------
(* Properties *)

(* "A read-only tool": an engine beside which it runs finds the log in     *)
(* every state as it left it, and continues its chain - unless the tool    *)
(* started on an empty file that had, or was getting, its header from the  *)
(* engine when the tool wrote one.                                         *)
ToolLeavesChainIntact == ~damaged /\ ~clashed => ChainInv

(* Exit code 1, and 2 for a file that is there, mean damage or a failed    *)
(* system call of the tool's: a file that the engine is appending to never *)
(* causes them, only one that it rotates under the tool, or one with the   *)
(* tool's own header in it.                                                *)
AlarmsAreReal ==
    ToolRan /\ exitCode # 0 => damaged \/ rotated \/ clashed \/ ioError \/ verdict = "NoFile"

(* Exit code 0 means that every entry the engine had written when the tool *)
(* looked is in the file, unchanged and in its place - if every system     *)
(* call of the tool worked, which its exit code does not say.              *)
ExitZeroMeansComplete ==
    ToolRan /\ exitCode = 0 /\ ~rotated /\ ~clashed /\ ~ioError
      => SubSeq(seen, 1, accepted) = promised

(* "A tampered journal is refused, not silently loaded": when recover()    *)
(* accepts a log, the log holds what the engine wrote.                     *)
RecoverLoadsTruth ==
    [][~clashed /\ wal_pc = "walking" /\ walk.truncate /\ status' \in {"Ok", "TruncatedTail"}
         /\ wal_pc' = "ready" => walFile' = truth]_auditVars

(* The inductive invariants behind them.  The cells of f before the one    *)
(* that walk w reads next are verified.                                    *)
Verified(f, w) ==
    /\ w.pos \in 2..(Len(f) + 1)
    /\ \A i \in 2..(w.pos - 1) : GoodEntry(f, i)
    /\ w.expectedSeq = w.pos - 2
    /\ w.prevHash = PrevHash(f, w.pos)

(* f is log t, or t with a torn entry behind it. *)
HoldsLog(f, t) ==
    /\ t # <<>> => WholeLog(t)
    /\ f = t \/ (t # <<>> /\ f = Append(t, Part))

(* Complete entries lead to one that the chain does not fit. *)
Broken(f) ==
    \E j \in 2..Len(f) : (\A i \in 2..j : f[i].kind = "entry") /\ ~GoodEntry(f, j)

(* The locals of the tool's WAL object have their types; it never cuts the *)
(* file.                                                                   *)
ToolTypeOK ==
    /\ tool_pc \in {"closed", "creating", "opening", "open", "walking"}
    /\ tool_walk \in WalkLocals /\ tool_walk.pos >= 2 /\ ~tool_walk.truncate
    /\ tool_pc = "walking" => tool_walk.back = "open" /\ verdict = "none"
    /\ seen \in Seq(Cell) /\ accepted \in Nat
    /\ rotated \in BOOLEAN /\ lost \in BOOLEAN /\ (lost => rotated)
    /\ ioError \in BOOLEAN /\ clashed \in BOOLEAN

(* Without damage the file is the engine's own good log, and so is what    *)
(* the tool walks over.                                                    *)
QuietInv ==
    ~damaged /\ ~clashed =>
      /\ WALTypeOK /\ ChainInv /\ ToolTypeOK
      /\ ~rotated =>
           /\ tool_pc \in {"opening", "open"} /\ verdict = "none" => walFile # <<>>
           /\ tool_pc = "walking" => seen # <<>> /\ GoodLog(seen) /\ Verified(seen, tool_walk)
           /\ ~ioError => verdict \in {"none", "NoFile", "Ok", "TruncatedTail"}

(* Until the damage, and again once reset() emptied the file, it holds     *)
(* what the engine wrote; in between it is broken for good, and so is what *)
(* the tool saw of it.                                                     *)
LogIsTrue == LogInv /\ HoldsLog(walFile, truth)

LogIsBroken ==
    /\ damaged /\ walFile[1] = Header /\ Broken(walFile)
    /\ wal_pc \in {"closed", "open", "ready", "appended", "walking", "resetting"}
    /\ wal_pc = "walking" => Verified(walFile, walk) /\ walk.back \in {"open", "ready"}

ToolInStep ==
    ~rotated =>
      /\ tool_pc \in {"opening", "open"} /\ verdict = "none" => walFile # <<>>
      /\ tool_pc = "walking" =>
           /\ Verified(seen, tool_walk)
           /\ (promised # <<>> /\ HoldsLog(seen, promised)) \/ Broken(seen)
      /\ verdict \in {"Ok", "TruncatedTail"} /\ ~ioError => SubSeq(seen, 1, accepted) = promised

TruthInv ==
    /\ WALTypeOK /\ ToolTypeOK /\ truth \in Seq(Cell) /\ promised \in Seq(Cell)
    /\ damaged \in BOOLEAN
    /\ ~clashed => (LogIsTrue \/ LogIsBroken) /\ ToolInStep

(* The tool ends, however the engine appends and rotates meanwhile.        *)
ToolReturns == []<>(tool_pc = "closed")

=============================================================================
