--------------------------- MODULE EngineThreads ---------------------------
(***************************************************************************)
(* The threads of a process that share one StorageEngine, with a log or in *)
(* memory only, and its std::shared_mutex.  A thread may have a TRACE_SCOPE *)
(* of FastTrace.hpp open, whose destructor calls set().                    *)
(*                                                                         *)
(* The files are those of a process that is not killed, so what was        *)
(* written is there, synced or not.  A system call may fail at every place *)
(* where the code has an error path, before or after it has changed a      *)
(* file.  An entry carries its epoch and its seq; a walk that has verified *)
(* the entries before it finds its hash good exactly if the seq is, as WAL *)
(* and its proofs show.  WAL::m_mutex is taken only by the holder of       *)
(* m_mutex and never waited for.                                           *)
(***************************************************************************)
EXTENDS Histories, FiniteSets

CONSTANTS
    Threads,                    \* the threads of the process
    NoThread,                   \* the owner of a free lock
    done, threw, nullopt,       \* answers: see AtomicStore
    Failures,                   \* the system calls that may fail
    MaxCalls                    \* bound: calls of all threads together

(* The error paths: of append(), of save() before and after the rename, of *)
(* reset(), of load() and of walkChain().                                  *)
FailureKinds ==
    {"write", "partial write", "append fsync",
     "save", "dirfsync",
     "ftruncate", "reset header", "reset header fsync",
     "load", "fstat", "read", "recover ftruncate"}

(* A duration is a double; here the sums of getAverage() are exact. *)
ASSUME ThreadsAssumption ==
    /\ NoThread \notin Threads
    /\ threw # done
    /\ Failures \subseteq FailureKinds
    /\ MaxCalls \in Nat
    /\ Durations \subseteq Int

VARIABLES
    m_wal,          \* the engine has a log
    m_data,         \* StorageEngine::m_data
    log,            \* the log: its entries, and what interrupted writes left
    header,         \* its first 16 bytes: a header, fewer bytes, or others
    snap,           \* the snapshot; with epoch -1 there is none
    m_epoch, m_seq, \* WAL::m_epoch and WAL::m_seq
    m_snapshotEpoch,            \* StorageEngine::m_snapshotEpoch, -1 for nullopt
    clock,          \* the system clock
    owner,          \* the thread that holds m_mutex exclusively
    sharers,        \* the threads that hold it shared
    pc, call, local, result,    \* of each thread
    scope,          \* of each thread: its TRACE_SCOPE, if it has one
    before,         \* history variable: m_data when the owner got the lock
    suspect,        \* history variable: a call failed with the files or the map half done
    blind,          \* history variable: a load() has failed on a snapshot that is there
    calls,          \* calls made
    alive           \* std::terminate() has not been called

files == <<log, header, snap>>
members == <<m_epoch, m_seq, m_snapshotEpoch>>
failures == <<suspect, blind>>
persistent == <<files, members, failures>>
lock == <<owner, sharers>>
threadVars == <<pc, call, local, result>>
steady == <<m_wal, call, scope, calls, alive>>      \* what no step inside a call changes
vars == <<m_wal, m_data, persistent, clock, lock, threadVars, scope, before, calls, alive>>

SizesFit(c) == KeySize[c.key] <= kMaxFieldSize /\ ValueSize[c.value] <= kMaxValueSize
Readers == {"get", "getAverage", "count", "historyCount"}

(* A thread's locals: the loop variables of getAverage() and recover(), and *)
(* the time that set() and remove() read.                                  *)
NoLocals == [i |-> 0, sum |-> 0, now |-> 0]

(* What an interrupted write leaves. *)
Torn == [type |-> "torn"]

(* An engine just constructed: empty, or over a snapshot with a record. *)
OldContents ==
    {[NoData EXCEPT ![key] = <<[value |-> value, duration |-> duration, timestamp |-> 0]>>] :
       key \in {k \in Keys : KeySize[k] <= kMaxFieldSize},
       value \in {v \in Values : ValueSize[v] <= kMaxValueSize}, duration \in Durations}

(* The specification of every answer; the instants are those at which the  *)
(* lock is released.                                                       *)
Phase == [t \in Threads |-> IF pc[t] \in {"idle", "done"} THEN pc[t] ELSE "pending"]
Atomic == INSTANCE AtomicStore WITH
            InitialContents <- {NoData} \cup OldContents, Stamps <- 1..MaxCalls,
            phase <- Phase,
            data <- IF owner = NoThread THEN m_data ELSE before

Init ==
    /\ m_wal \in BOOLEAN
    /\ snap \in [epoch : {-1}, state : {NoData}]
                 \cup [epoch : {0}, state : IF m_wal THEN OldContents ELSE {}]
    /\ m_data = Capped(snap.state) /\ before = NoData
    /\ log = <<>> /\ header = "whole"
    /\ m_epoch = snap.epoch + 1 /\ m_seq = 0 /\ m_snapshotEpoch = snap.epoch
    /\ suspect = FALSE /\ blind = FALSE
    /\ clock = 0
    /\ owner = NoThread /\ sharers = {}
    /\ pc = [t \in Threads |-> "idle"]
    /\ call = [t \in Threads |-> Atomic!NoCall]
    /\ local = [t \in Threads |-> NoLocals]
    /\ result = [t \in Threads |-> done]
    /\ scope = [t \in Threads |-> "none"] /\ calls = 0 /\ alive = TRUE

-----------------------------------------------------------------------------
(* The steps of a thread between its calls. *)

At(t, place) == alive /\ pc[t] = place
Goto(t, place) == pc' = [pc EXCEPT ![t] = place]

(* A call; recover() only on an engine that has a log to recover from. *)
Begin(t, c) ==
    /\ At(t, "idle") /\ calls < MaxCalls
    /\ Goto(t, IF c.name = "set" THEN "check" ELSE "lock")
    /\ call' = [call EXCEPT ![t] = c]
    /\ calls' = calls + 1
    /\ UNCHANGED <<m_wal, m_data, persistent, clock, lock, local, result, before, alive>>

Call(t, c) ==
    /\ c.name = "recover" => m_wal
    /\ Begin(t, c)
    /\ UNCHANGED scope

(* TRACE_SCOPE: a Timer is constructed, and its destructor calls set() when *)
(* the scope ends.  The text of the elapsed time is short; the name may be *)
(* too long.                                                               *)
EnterScope(t) ==
    /\ At(t, "idle") /\ scope[t] = "none" /\ calls < MaxCalls
    /\ scope' = [scope EXCEPT ![t] = "open"]
    /\ UNCHANGED <<m_wal, m_data, persistent, clock, lock, threadVars, before, calls, alive>>

LeaveScope(t, c) ==
    /\ scope[t] = "open"
    /\ c.name = "set" /\ ValueSize[c.value] <= kMaxValueSize
    /\ Begin(t, c)
    /\ scope' = [scope EXCEPT ![t] = "closing"]

(* The call is over: its locals go, and the lock with them. *)
Finish(t, answer) ==
    /\ Goto(t, "done")
    /\ result' = [result EXCEPT ![t] = answer]
    /\ local' = [local EXCEPT ![t] = NoLocals]
    /\ UNCHANGED steady

Unlock(t) ==
    /\ owner' = IF owner = t THEN NoThread ELSE owner
    /\ sharers' = sharers \ {t}
    /\ before' = IF owner = t THEN NoData ELSE before

Return(t) ==
    /\ At(t, "done")
    /\ ~(scope[t] = "closing" /\ result[t] = threw)
    /\ Goto(t, "idle")
    /\ call' = [call EXCEPT ![t] = Atomic!NoCall]
    /\ result' = [result EXCEPT ![t] = done]
    /\ scope' = [scope EXCEPT ![t] = IF @ = "closing" THEN "none" ELSE @]
    /\ UNCHANGED <<m_wal, m_data, persistent, clock, lock, local, before, calls, alive>>

(* An exception leaves ~Timer(), which is noexcept: std::terminate(). *)
Terminate(t) ==
    /\ At(t, "done")
    /\ scope[t] = "closing" /\ result[t] = threw
    /\ alive' = FALSE
    /\ UNCHANGED <<m_wal, m_data, persistent, clock, lock, threadVars, scope, before, calls>>

-----------------------------------------------------------------------------
(* m_mutex.  set() checks the sizes before it asks for the lock.           *)

CheckSizes(t) ==
    /\ At(t, "check")
    /\ IF SizesFit(call[t])
       THEN Goto(t, "lock") /\ UNCHANGED <<steady, local, result>>
       ELSE Finish(t, threw)
    /\ UNCHANGED <<m_data, persistent, clock, lock, before>>

LockUnique_NoWait(t) ==
    /\ At(t, "lock") /\ call[t].name \notin Readers
    /\ sharers = {}
    /\ owner' = t /\ before' = m_data
    /\ Goto(t, call[t].name)
    /\ UNCHANGED <<steady, m_data, persistent, clock, sharers, local, result>>

LockUnique(t) ==
    /\ At(t, "lock") /\ call[t].name \notin Readers
    /\ owner = NoThread /\ sharers = {}
    /\ owner' = t /\ before' = m_data
    /\ Goto(t, call[t].name)
    /\ UNCHANGED <<steady, m_data, persistent, clock, sharers, local, result>>

LockShared_NoWait(t) ==
    /\ At(t, "lock") /\ call[t].name \in Readers
    /\ sharers' = sharers \cup {t}
    /\ Goto(t, call[t].name)
    /\ UNCHANGED <<steady, m_data, persistent, clock, owner, local, result, before>>

LockShared(t) ==
    /\ At(t, "lock") /\ call[t].name \in Readers
    /\ owner = NoThread
    /\ sharers' = sharers \cup {t}
    /\ Goto(t, call[t].name)
    /\ UNCHANGED <<steady, m_data, persistent, clock, owner, local, result, before>>

-----------------------------------------------------------------------------
(* The readers.  getAverage() adds one record's duration after another.    *)

Read(t) ==
    LET c == call[t] IN
    /\ \/ At(t, "get") /\ Finish(t, Atomic!get(m_data, c.key))
       \/ At(t, "historyCount") /\ Finish(t, Atomic!historyCount(m_data, c.key))
       \/ At(t, "count") /\ Finish(t, Atomic!count(m_data))
    /\ Unlock(t)
    /\ UNCHANGED <<m_data, persistent, clock>>

AddDuration(t) ==
    LET history == m_data[call[t].key]
        i == local[t].i + 1
    IN  /\ At(t, "getAverage") /\ i <= Len(history)
        /\ local' = [local EXCEPT ![t] = [i |-> i, sum |-> @.sum + history[i].duration,
                                          now |-> @.now]]
        /\ UNCHANGED <<steady, m_data, persistent, clock, lock, pc, result, before>>

Divide(t) ==
    LET n == Len(m_data[call[t].key]) IN
    /\ At(t, "getAverage") /\ local[t].i >= n
    /\ Finish(t, IF n = 0 THEN nullopt ELSE <<local[t].sum, n>>)
    /\ Unlock(t)
    /\ UNCHANGED <<m_data, persistent, clock>>

-----------------------------------------------------------------------------
(* The writers, under the exclusive lock.  Stay leaves lock and answer alone. *)

Stay == UNCHANGED <<steady, lock, result, before>>

(* set() always reads the clock, remove() only for the log. *)
ReadClock(t) ==
    /\ At(t, "set") \/ (At(t, "remove") /\ m_wal)
    /\ clock' = clock + 1
    /\ local' = [local EXCEPT ![t].now = clock + 1]
    /\ Goto(t, IF m_wal THEN "append" ELSE "evict")
    /\ Stay /\ UNCHANGED <<m_data, persistent>>

(* append() checks the key's size, which remove() does not. *)
KeyFits(t) == KeySize[call[t].key] <= kMaxFieldSize

NewEntry(t) ==
    LET c == call[t]
    IN  [epoch |-> m_epoch, seq |-> m_seq,
         type |-> IF c.name = "set" THEN "PUT" ELSE "DELETE", key |-> c.key,
         blob |-> IF c.name = "set" THEN serialize(c.duration, c.value) ELSE EmptyBlob,
         timestamp |-> local[t].now]

AppendEntry(t) ==
    /\ At(t, "append") /\ KeyFits(t)
    /\ log' = Append(log, NewEntry(t)) /\ m_seq' = m_seq + 1
    /\ Goto(t, IF call[t].name = "set" THEN "evict" ELSE "erase")
    /\ Stay /\ UNCHANGED <<m_data, header, snap, m_epoch, m_snapshotEpoch, failures, clock, local>>

(* append() throws, and the lock is released on the way out. *)
AppendThrows_LockKept(t) ==
    /\ At(t, "append")
    /\ Finish(t, threw)
    /\ UNCHANGED <<m_data, lock, before, clock>>

AppendThrows(t) ==
    /\ At(t, "append")
    /\ Finish(t, threw)
    /\ Unlock(t)
    /\ UNCHANGED <<m_data, clock>>

(* For the length of the key. *)
AppendRefuses(t) ==
    /\ At(t, "append") /\ ~KeyFits(t)
    /\ AppendThrows(t)
    /\ UNCHANGED persistent

(* Because write() has failed, before any byte or in the middle, or        *)
(* because fsync() has, with the entry in the log and m_seq advanced.      *)
AppendFails(t) ==
    /\ At(t, "append") /\ KeyFits(t)
    /\ AppendThrows(t)
    /\ \/ "write" \in Failures /\ UNCHANGED persistent
       \/ /\ "partial write" \in Failures
          /\ log' = Append(log, Torn) /\ suspect' = TRUE
          /\ UNCHANGED <<header, snap, members, blind>>
       \/ /\ "append fsync" \in Failures
          /\ log' = Append(log, NewEntry(t)) /\ m_seq' = m_seq + 1 /\ suspect' = TRUE
          /\ UNCHANGED <<header, snap, m_epoch, m_snapshotEpoch, blind>>

(* The two halves of appendCapped(). *)
Evict(t) ==
    /\ At(t, "evict")
    /\ m_data' = evict(m_data, call[t].key)
    /\ Goto(t, "emplace")
    /\ Stay /\ UNCHANGED <<persistent, clock, local>>

Emplace(t) ==
    LET c == call[t]
        record == [value |-> c.value, duration |-> c.duration, timestamp |-> local[t].now]
    IN  /\ At(t, "emplace")
        /\ m_data' = [m_data EXCEPT ![c.key] = Append(@, record)]
        /\ Finish(t, done)
        /\ Unlock(t)
        /\ UNCHANGED <<persistent, clock>>

Erase(t) ==
    LET key == call[t].key IN
    /\ At(t, "erase") \/ (At(t, "remove") /\ ~m_wal)
    /\ m_data' = erase(m_data, key)
    /\ Finish(t, m_data[key] # <<>>)
    /\ Unlock(t)
    /\ UNCHANGED <<persistent, clock>>

(* snapshot(): the image is saved and raises the epoch of the log, so that *)
(* its entries are behind the fence, then the log is emptied.              *)
Image == [epoch |-> m_epoch, state |-> m_data]

Save_NotFenced(t) ==
    /\ At(t, "snapshot") /\ m_wal
    /\ snap' = [Image EXCEPT !.epoch = m_epoch - 1]
    /\ Goto(t, "rotate")
    /\ Stay /\ UNCHANGED <<m_data, log, header, members, failures, clock, local>>

Save(t) ==
    /\ At(t, "snapshot") /\ m_wal
    /\ snap' = Image /\ m_snapshotEpoch' = m_epoch /\ m_epoch' = m_epoch + 1
    /\ Goto(t, "rotate")
    /\ Stay /\ UNCHANGED <<m_data, log, header, m_seq, failures, clock, local>>

Rotate(t) ==
    /\ At(t, "rotate")
    /\ log' = <<>> /\ header' = "whole" /\ m_seq' = 0 /\ suspect' = FALSE
    /\ Finish(t, done)
    /\ Unlock(t)
    /\ UNCHANGED <<m_data, snap, m_epoch, m_snapshotEpoch, blind, clock>>

SnapshotThrows(t) ==
    /\ At(t, "snapshot") \/ At(t, "rotate")
    /\ Finish(t, threw)
    /\ Unlock(t)
    /\ UNCHANGED <<m_data, clock>>

(* Without a log. *)
SnapshotRefused(t) ==
    /\ At(t, "snapshot") /\ ~m_wal
    /\ SnapshotThrows(t)
    /\ UNCHANGED persistent

(* save() fails: the old snapshot is in place, or the new one already when *)
(* it is the directory's fsync() that failed.                              *)
SaveFails(t) ==
    /\ At(t, "snapshot") /\ m_wal
    /\ SnapshotThrows(t)
    /\ \/ "save" \in Failures /\ UNCHANGED persistent
       \/ /\ "dirfsync" \in Failures
          /\ snap' = Image /\ suspect' = TRUE
          /\ UNCHANGED <<log, header, members, blind>>

(* reset() fails: before the log is cut, with no whole header in it, or at *)
(* the header's fsync().  m_seq is that of the entries that are gone.      *)
RotateFails(t) ==
    /\ At(t, "rotate")
    /\ SnapshotThrows(t)
    /\ \/ "ftruncate" \in Failures /\ UNCHANGED persistent
       \/ /\ \/ "reset header" \in Failures /\ header' = "short"
             \/ "reset header fsync" \in Failures /\ header' = "whole"
          /\ log' = <<>> /\ suspect' = TRUE
          /\ UNCHANGED <<snap, members, blind>>

(* recover(): the map is cleared, loaded and replayed entry by entry. *)
Clear(t) ==
    /\ At(t, "recover")
    /\ m_data' = NoData /\ m_snapshotEpoch' = -1
    /\ Goto(t, "load")
    /\ Stay /\ UNCHANGED <<files, m_epoch, m_seq, failures, clock, local>>

Load(t) ==
    /\ At(t, "load")
    /\ m_data' = Capped(snap.state)
    /\ m_snapshotEpoch' = snap.epoch /\ m_epoch' = snap.epoch + 1
    /\ Goto(t, "replay")
    /\ Stay /\ UNCHANGED <<files, m_seq, failures, clock, local>>

(* A snapshot that cannot be read is taken for none: the map stays empty,  *)
(* and nothing is fenced off.                                              *)
LoadFails(t) ==
    /\ At(t, "load")
    /\ "load" \in Failures /\ snap.epoch # -1
    /\ m_epoch' = 0
    /\ suspect' = TRUE /\ blind' = TRUE
    /\ Goto(t, "replay")
    /\ Stay /\ UNCHANGED <<m_data, files, m_seq, m_snapshotEpoch, clock, local>>

(* What walkChain() may make of the next cell.  Where the file does not    *)
(* begin with 16 bytes in front of the entries it reads in the middle of   *)
(* them.                                                                   *)
Verdicts(i) ==
    IF header = "short" THEN {"torn", "refused"}
    ELSE IF log[i] = Torn THEN {"torn"} \cup (IF i < Len(log) THEN {"refused"} ELSE {})
    ELSE IF log[i].seq = i - 1 THEN {"ok"}
    ELSE {"refused"}

InLoop(t, verdict) ==
    /\ At(t, "replay") /\ local[t].i < Len(log)
    /\ verdict \in Verdicts(local[t].i + 1)

ReplayEntry(t) ==
    LET i == local[t].i + 1 IN
    /\ InLoop(t, "ok")
    /\ m_data' = Visit(m_data, log[i], m_snapshotEpoch)
    /\ local' = [local EXCEPT ![t].i = i]
    /\ Stay /\ UNCHANGED <<persistent, clock, pc>>

(* The walk is over and recover() goes on with the chain that it verified. *)
Adopt(t) ==
    /\ m_seq' = local[t].i
    /\ Finish(t, done)
    /\ Unlock(t)
    /\ UNCHANGED <<m_data, snap, m_epoch, m_snapshotEpoch, blind, clock>>

(* No byte is left to read. *)
AtEnd(t) ==
    \/ local[t].i = Len(log)
    \/ header = "short" /\ \A i \in 1..Len(log) : log[i] = Torn

Recovered(t) ==
    /\ At(t, "replay") /\ AtEnd(t)
    /\ Adopt(t)
    /\ UNCHANGED <<log, header, suspect>>

(* fstat() fails: no entry is read, and the result is that of an empty log. *)
StatFails(t) ==
    /\ At(t, "replay") /\ local[t].i = 0
    /\ "fstat" \in Failures
    /\ Adopt(t)
    /\ suspect' = TRUE
    /\ UNCHANGED <<log, header>>

(* A torn entry, or a read() that fails in the middle of the log: the rest *)
(* is cut off, if ftruncate() does not fail.                               *)
CutsTail(t) ==
    /\ Adopt(t)
    /\ suspect' = TRUE
    /\ \/ /\ log' = SubSeq(log, 1, local[t].i)
          /\ header' = IF header = "short" THEN "other" ELSE header
       \/ "recover ftruncate" \in Failures /\ UNCHANGED <<log, header>>

FindsTorn(t) == InLoop(t, "torn") /\ CutsTail(t)
ReadFails(t) ==
    /\ At(t, "replay") /\ local[t].i < Len(log)
    /\ "read" \in Failures
    /\ CutsTail(t)

(* Tampered or Malformed: recover() throws, with the map half filled and   *)
(* the log as it is.                                                       *)
RecoverThrows(t) ==
    /\ InLoop(t, "refused")
    /\ Finish(t, threw)
    /\ Unlock(t)
    /\ UNCHANGED <<m_data, persistent, clock>>

-----------------------------------------------------------------------------
Proceed(t) ==
    \/ Return(t) \/ Terminate(t)
    \/ CheckSizes(t) \/ LockUnique(t) \/ LockShared(t)
    \/ Read(t) \/ AddDuration(t) \/ Divide(t)
    \/ ReadClock(t) \/ AppendEntry(t) \/ AppendRefuses(t)
    \/ Evict(t) \/ Emplace(t) \/ Erase(t)
    \/ Save(t) \/ Rotate(t) \/ SnapshotRefused(t)
    \/ Clear(t) \/ Load(t) \/ ReplayEntry(t)
    \/ Recovered(t) \/ FindsTorn(t) \/ RecoverThrows(t)

SystemCallFails(t) ==
    \/ AppendFails(t) \/ SaveFails(t) \/ RotateFails(t)
    \/ LoadFails(t) \/ StatFails(t) \/ ReadFails(t)

Next ==
    \E t \in Threads :
      \/ Proceed(t)
      \/ SystemCallFails(t)
      \/ EnterScope(t)
      \/ \E c \in Atomic!Calls : Call(t, c) \/ LeaveScope(t, c)

(* Every thread inside a call is scheduled, and gets m_mutex once it is free *)
(* for good: no failure is needed to come back from a call.                *)
Fairness == \A t \in Threads : WF_vars(Proceed(t))

Spec == Init /\ [][Next]_vars /\ Fairness

-----------------------------------------------------------------------------
(* Properties *)

(* Every variable has its type. *)
TypeOK ==
    /\ m_data \in Contents /\ snap.state \in Contents /\ before \in Contents
    /\ header \in {"whole", "short", "other"}
    /\ snap.epoch >= -1 /\ m_snapshotEpoch >= -1 /\ m_epoch \in Nat /\ m_seq \in Nat
    /\ clock \in 0..MaxCalls
    /\ owner \in Threads \cup {NoThread} /\ sharers \subseteq Threads
    /\ \A t \in Threads : call[t] \in Atomic!Calls \cup {Atomic!NoCall}

(* "Thread-safe key-value store": every answer is that of a store whose    *)
(* calls take effect one at a time: a getAverage() sees no half of a set(), *)
(* and nobody sees the map while recover() is filling it.  A call that     *)
(* throws leaves the map, recover() excepted, and recover() rebuilds what  *)
(* was there until a call fails as AtomicStore says.                       *)
Linearizable == Atomic!AtomicSpec

(* What recover() makes of the files, entry by entry. *)
Rebuilt == Replayed(Capped(snap.state), log, snap.epoch)

(* set() and remove() of several threads reach the log in the order in     *)
(* which they reach the map: with nobody inside, the snapshot and the log  *)
(* give the map.  A write() that fails before any byte, a save() that      *)
(* fails before its rename and a reset() that fails before its truncation  *)
(* leave it so; any other failure may not, until a snapshot() returns.     *)
LogGivesMap == m_wal /\ owner = NoThread /\ ~suspect => m_data = Rebuilt[Len(log)]

(* An exception from the ~Timer() of one thread ends the process whatever  *)
(* the others are doing.  With a log a restart then finds the contents     *)
(* from before the call of the thread that is inside, or from after it:    *)
(* between the two halves of a snapshot() too.                             *)
TerminateLosesNothing ==
    ~alive /\ m_wal /\ ~suspect =>
      Rebuilt[Len(log)] \in
        IF owner = NoThread THEN {m_data}
        ELSE {before, Atomic!Effect(call[owner], local[owner].now)}

(* The records of a key are in the order of their timestamps, because the  *)
(* clock is read under the lock, and whatever else fails, unless load()    *)
(* fails on a snapshot that is there: what is saved over it has a lower    *)
(* epoch than the log.  A system clock that is set back is left out.       *)
HistoriesInClockOrder ==
    ~blind => \A key \in Keys : \A i, j \in 1..Len(m_data[key]) :
                i < j => m_data[key][i].timestamp <= m_data[key][j].timestamp

(* Every call comes back, after an exception too, or the process is gone:  *)
(* since the calls are finitely many, that is to say that there is always  *)
(* a later moment at which no thread is inside one.                        *)
CallsComeBack == []<>(~alive \/ \A t \in Threads : pc[t] = "idle")

=============================================================================
