------------------------ MODULE EngineThreads_proofs ------------------------
(***************************************************************************)
(* Proofs about the threads that share an engine, for every set of threads,*)
(* keys and values, every history cap and every number of calls.           *)
(***************************************************************************)
EXTENDS EngineThreads, Histories_proofs, FiniteSetTheorems

-----------------------------------------------------------------------------
(* The inductive invariant, in the parts in which it is proved. *)

(* Where a thread is: inside m_mutex as a writer, or somewhere from where  *)
(* it may still read the clock.                                            *)
Inside == {"set", "remove", "append", "evict", "emplace", "erase", "snapshot", "rotate",
           "recover", "load", "replay"}
Places == {"idle", "done", "check", "lock"} \cup Readers \cup Inside
MayReadClock == {"check", "lock", "set", "remove"}

(* The entries that set() and remove() write. *)
LogBody ==
    [epoch : Nat, seq : Nat, type : {"PUT"}, key : Keys,
     blob : {serialize(d, v) : d \in Durations, v \in Values}, timestamp : Nat]
      \cup [epoch : Nat, seq : Nat, type : {"DELETE"}, key : Keys, blob : {EmptyBlob},
            timestamp : Nat]
Cell == LogBody \cup {Torn}

(* The files and the members that follow them. *)
FilesTyped ==
    /\ log \in Seq(Cell) /\ header \in {"whole", "short", "other"}
    /\ snap \in [epoch : Nat \cup {-1}, state : Contents]
    /\ m_epoch \in Nat /\ m_seq \in Nat /\ m_snapshotEpoch \in Nat \cup {-1}
    /\ suspect \in BOOLEAN /\ blind \in BOOLEAN

Typed ==
    /\ m_wal \in BOOLEAN /\ alive \in BOOLEAN
    /\ m_data \in Contents /\ before \in Contents
    /\ FilesTyped
    /\ clock \in Nat /\ calls \in 0..MaxCalls
    /\ owner \in Threads \cup {NoThread} /\ sharers \subseteq Threads
    /\ pc \in [Threads -> Places]
    /\ call \in [Threads -> Atomic!Calls \cup {Atomic!NoCall}]
    /\ local \in [Threads -> [i : Nat, sum : Int, now : Nat]]
    /\ result = [t \in Threads |-> result[t]]
    /\ scope \in [Threads -> {"none", "open", "closing"}]

(* m_mutex: one writer, or readers, and nobody at a place of theirs without. *)
Locked ==
    /\ owner # NoThread => sharers = {}
    /\ \A t \in Threads : (pc[t] \in Inside <=> owner = t) /\ (pc[t] \in Readers <=> t \in sharers)

(* The call that has brought a thread to its place. *)
CallFits(t) ==
    /\ pc[t] # "idle" => call[t] \in Atomic!Calls /\ calls >= 1
    /\ pc[t] \in {"check", "set", "evict", "emplace"} => call[t].name = "set"
    /\ pc[t] \in {"remove", "erase"} => call[t].name = "remove"
    /\ pc[t] = "append" => m_wal /\ call[t].name \in {"set", "remove"}
    /\ pc[t] \in {"snapshot", "rotate"} => call[t].name = "snapshot"
    /\ pc[t] \in {"recover", "load", "replay"} => m_wal /\ call[t].name = "recover"
    /\ call[t].name = "recover" => m_wal
    /\ pc[t] \in Readers => call[t].name = pc[t]
    /\ pc[t] # "done" => result[t] = done

(* What a thread's locals hold, getAverage()'s excepted. *)
LocalsFit(t) ==
    /\ pc[t] \in {"idle", "done", "check", "lock"} => local[t] = NoLocals
    /\ pc[t] \in {"append", "evict", "emplace"} => local[t].now = clock /\ clock >= 1
    /\ pc[t] \in {"recover", "load"} => local[t].i = 0
    /\ pc[t] = "replay" => local[t].i \in 0..Len(log)

Base ==
    /\ Typed /\ Locked
    /\ \A t \in Threads : CallFits(t) /\ LocalsFit(t)

(* No more readings of the clock than calls. *)
Pending == {t \in Threads : pc[t] \in MayReadClock}
Counted == IsFiniteSet(Pending) /\ clock + Cardinality(Pending) <= calls

(* The order of the timestamps in a log, and behind the snapshot for the   *)
(* entries whose epoch is not fenced off by it.                            *)
LogOrdered(cells, image, epoch, now) ==
    \A i \in 1..Len(cells) : cells[i] # Torn =>
      /\ cells[i].epoch <= epoch /\ cells[i].timestamp <= now
      /\ cells[i].epoch > image.epoch => NotAfter(image.state, cells[i].timestamp)
      /\ \A j \in 1..Len(cells) :
           i < j /\ cells[j] # Torn => cells[i].timestamp <= cells[j].timestamp

(* In the map and in what recover() reads. *)
Ordering ==
    /\ InOrder(m_data) /\ NotAfter(m_data, clock)
    /\ InOrder(snap.state) /\ NotAfter(snap.state, clock)
    /\ m_epoch <= snap.epoch + 1
    /\ LogOrdered(log, snap, m_epoch, clock)
    /\ \A t \in Threads : pc[t] = "replay" =>
         \A i \in (local[t].i + 1)..Len(log) :
           log[i] # Torn /\ log[i].epoch > m_snapshotEpoch => NotAfter(m_data, log[i].timestamp)

Ordered == ~blind => Ordering

(* The record that a set() is about to add. *)
NewRecord(t) == [value |-> call[t].value, duration |-> call[t].duration, timestamp |-> local[t].now]

(* The map and the map when the lock was taken, at each place of the       *)
(* writer, whatever has failed.                                            *)
MapFits(t) ==
    /\ pc[t] \in {"set", "remove", "append", "snapshot", "recover", "evict", "erase", "rotate"}
         => m_data = before
    /\ pc[t] = "emplace" => m_data = evict(before, call[t].key)
    /\ pc[t] = "erase" => m_wal
    /\ pc[t] = "rotate" => m_wal /\ snap.state = m_data /\ m_epoch = snap.epoch + 1

Held ==
    /\ WithinCap(m_data) /\ WithinCap(before)
    /\ \A t \in Threads : MapFits(t)

(* The files of an engine whose calls have not failed half done: the log   *)
(* is one that every walk accepts, ...                                     *)
FilesWhole ==
    /\ header = "whole" /\ m_seq = Len(log) /\ m_epoch = snap.epoch + 1
    /\ \A i \in 1..Len(log) :
         log[i] \in LogBody /\ log[i].seq = i - 1 /\ log[i].epoch <= m_epoch

(* ... and recover() makes of it, at each place of the writer, the map     *)
(* that it found or the map that it leaves.                                *)
FilesFit(t) ==
    /\ pc[t] \in {"set", "remove", "append", "snapshot", "rotate", "recover", "load", "replay"} /\ m_wal
         => Rebuilt[Len(log)] = before
    /\ pc[t] \in {"evict", "emplace"} /\ m_wal
         => Rebuilt[Len(log)] = appendCapped(before, call[t].key, NewRecord(t))
    /\ pc[t] = "erase" => Rebuilt[Len(log)] = erase(before, call[t].key)
    /\ pc[t] = "replay" => m_snapshotEpoch = snap.epoch /\ m_data = Rebuilt[local[t].i]

Whole ==
    /\ FilesWhole
    /\ m_wal /\ owner = NoThread => Rebuilt[Len(log)] = m_data
    /\ \A t \in Threads : FilesFit(t)

InStep == ~suspect => Whole

(* getAverage() has added up the durations of the records it has passed. *)
Averaging ==
    \A t \in Threads : pc[t] = "getAverage" =>
      /\ local[t].i \in 0..Len(m_data[call[t].key])
      /\ local[t].sum = Atomic!Sums(m_data[call[t].key])[local[t].i]

-----------------------------------------------------------------------------
(* Types, the mutex and the calls. *)

(* The arguments of a call. *)
LEMMA CallFacts ==
    /\ Atomic!NoCall.name = "none"
    /\ \A c \in Atomic!Calls :
         /\ c.name \in {"set", "remove", "snapshot", "recover"} \cup Readers
         /\ c.name \in {"set", "remove", "get", "getAverage", "historyCount"} => c.key \in Keys
         /\ c.name = "set" => c.value \in Values /\ c.duration \in Durations
BY DEF Atomic!NoCall, Atomic!Calls, Readers

(* The places of a call do not overlap. *)
LEMMA PlaceFacts ==
    /\ \A p \in Inside : p \notin Readers /\ p \notin {"idle", "done", "check", "lock"}
    /\ \A p \in Readers : p \notin Inside /\ p \notin {"idle", "done", "check", "lock"}
    /\ Inside \subseteq Places /\ Readers \subseteq Places
    /\ {"idle", "done", "check", "lock"} \subseteq Places
BY DEF Inside, Readers, Places

(* The entries of the log can be replayed. *)
LEMMA LogBodyFacts ==
    /\ \A b \in LogBody : /\ Loggable(b) /\ b # Torn /\ b \in Cell
                          /\ b.epoch \in Nat /\ b.seq \in Nat /\ b.timestamp \in Nat
    /\ Torn \in Cell
    /\ \A b \in Cell : b = Torn \/ b \in LogBody
<1>1. \A b \in LogBody : Loggable(b) /\ b.epoch \in Nat /\ b.seq \in Nat /\ b.timestamp \in Nat
  BY DEF LogBody, Loggable
<1>2. \A b \in LogBody : b.type # "torn"
  BY DEF LogBody
<1>3. Torn.type = "torn"
  BY DEF Torn
<1> QED
  BY <1>1, <1>2, <1>3 DEF Cell

(* What stays has its type. *)
LEMMA FilesTypedSame ==
    FilesTyped /\ UNCHANGED persistent => FilesTyped'
BY DEF FilesTyped, persistent, files, members, failures

(* A step changes the variables of one thread only. *)
OnlyAt(t) ==
    /\ pc' = [pc EXCEPT ![t] = pc'[t]]
    /\ call' = [call EXCEPT ![t] = call'[t]]
    /\ local' = [local EXCEPT ![t] = local'[t]]
    /\ result' = [result EXCEPT ![t] = result'[t]]
    /\ scope' = [scope EXCEPT ![t] = scope'[t]]

(* What that says of the functions. *)
LEMMA OnlyAtFacts ==
    ASSUME Typed, NEW t \in Threads, OnlyAt(t),
           pc'[t] \in Places, call'[t] \in Atomic!Calls \cup {Atomic!NoCall},
           local'[t] \in [i : Nat, sum : Int, now : Nat], scope'[t] \in {"none", "open", "closing"}
    PROVE  /\ pc' \in [Threads -> Places]
           /\ call' \in [Threads -> Atomic!Calls \cup {Atomic!NoCall}]
           /\ local' \in [Threads -> [i : Nat, sum : Int, now : Nat]]
           /\ result' = [s \in Threads |-> result'[s]]
           /\ scope' \in [Threads -> {"none", "open", "closing"}]
           /\ \A s \in Threads : s # t =>
                /\ pc'[s] = pc[s] /\ call'[s] = call[s] /\ local'[s] = local[s]
                /\ result'[s] = result[s] /\ scope'[s] = scope[s]
<1>1. pc' \in [Threads -> Places] /\ \A s \in Threads : s # t => pc'[s] = pc[s]
  BY DEF Typed, OnlyAt
<1>2. /\ call' \in [Threads -> Atomic!Calls \cup {Atomic!NoCall}]
      /\ \A s \in Threads : s # t => call'[s] = call[s]
  BY DEF Typed, OnlyAt
<1>3. /\ local' \in [Threads -> [i : Nat, sum : Int, now : Nat]]
      /\ \A s \in Threads : s # t => local'[s] = local[s]
  BY DEF Typed, OnlyAt
<1>4. /\ result' = [s \in Threads |-> result'[s]]
      /\ \A s \in Threads : s # t => result'[s] = result[s]
  BY DEF Typed, OnlyAt
<1>5. /\ scope' \in [Threads -> {"none", "open", "closing"}]
      /\ \A s \in Threads : s # t => scope'[s] = scope[s]
  BY DEF Typed, OnlyAt
<1> QED
  BY <1>1, <1>2, <1>3, <1>4, <1>5

(* A step of the writer that stays inside keeps Base. *)
LEMMA InnerStep ==
    ASSUME Base, NEW t \in Threads, pc[t] \in Inside, pc'[t] \in Inside, OnlyAt(t), Stay,
           local'[t] \in [i : Nat, sum : Int, now : Nat],
           m_data' \in Contents, FilesTyped', clock' \in Nat,
           pc'[t] \in {"set", "evict", "emplace"} => call[t].name = "set",
           pc'[t] \in {"remove", "erase"} => call[t].name = "remove",
           pc'[t] = "append" => m_wal /\ call[t].name \in {"set", "remove"},
           pc'[t] \in {"snapshot", "rotate"} => call[t].name = "snapshot",
           pc'[t] \in {"recover", "load", "replay"} => m_wal /\ call[t].name = "recover",
           pc'[t] \in {"append", "evict", "emplace"} => local'[t].now = clock' /\ clock' >= 1,
           pc'[t] \in {"recover", "load"} => local'[t].i = 0,
           pc'[t] = "replay" => local'[t].i \in 0..Len(log')
    PROVE  Base'
<1>1. owner = t /\ sharers = {} /\ \A s \in Threads : s # t => pc[s] \notin Inside
  BY ThreadsAssumption DEF Base, Typed, Locked
<1>2. UNCHANGED <<m_wal, call, scope, calls, alive, owner, sharers, result, before>>
  BY DEF Stay, steady, lock
<1>3. pc'[t] \in Places /\ call'[t] = call[t] /\ scope'[t] = scope[t]
  BY <1>2, PlaceFacts
<1>4. /\ pc' \in [Threads -> Places]
      /\ local' \in [Threads -> [i : Nat, sum : Int, now : Nat]]
      /\ \A s \in Threads : s # t => pc'[s] = pc[s] /\ local'[s] = local[s]
  BY <1>3, OnlyAtFacts DEF Base, Typed
<1>5. Typed'
  BY <1>2, <1>3, <1>4 DEF Base, Typed
<1>6. Locked'
  BY <1>1, <1>2, <1>4, PlaceFacts DEF Base, Locked
<1>7. CallFits(t)' /\ LocalsFit(t)'
  <2>1. pc[t] \notin {"idle", "done"} /\ pc'[t] \notin {"idle", "done", "check", "lock"} /\ pc'[t] \notin Readers
    BY PlaceFacts
  <2>2. CallFits(t)'
    BY <1>2, <2>1 DEF Base, CallFits
  <2>3. LocalsFit(t)'
    BY <2>1 DEF LocalsFit
  <2> QED
    BY <2>2, <2>3
<1>8. ASSUME NEW s \in Threads, s # t
      PROVE  CallFits(s)' /\ LocalsFit(s)'
  <2>1. pc'[s] = pc[s] /\ local'[s] = local[s] /\ pc[s] \notin Inside
    BY <1>1, <1>4, <1>8
  <2>2. CallFits(s)'
    BY <1>2, <2>1 DEF Base, CallFits
  <2>3. LocalsFit(s)'
    BY <2>1 DEF Base, LocalsFit, Inside
  <2> QED
    BY <2>2, <2>3
<1> QED
  BY <1>5, <1>6, <1>7, <1>8 DEF Base

(* So does the end of a call that held the lock. *)
LEMMA EndOfCall ==
    ASSUME Base, NEW t \in Threads, NEW answer,
           pc[t] \in Inside \cup Readers, Finish(t, answer), Unlock(t), clock' = clock,
           m_data' \in Contents, FilesTyped',
           pc[t] \in Readers => UNCHANGED log
    PROVE  Base'
<1>1. \A s \in Threads : s # t /\ pc[s] \in Inside => pc[t] \in Readers
  BY ThreadsAssumption DEF Base, Typed, Locked
<1>2. UNCHANGED <<m_wal, call, scope, calls, alive>>
  BY DEF Finish, steady
<1>3. /\ pc' \in [Threads -> Places] /\ pc'[t] = "done"
      /\ \A s \in Threads : s # t => pc'[s] = pc[s]
  BY PlaceFacts DEF Base, Typed, Finish, Goto
<1>4. /\ local' \in [Threads -> [i : Nat, sum : Int, now : Nat]]
      /\ local'[t] = NoLocals /\ \A s \in Threads : s # t => local'[s] = local[s]
  BY DEF Base, Typed, Finish, NoLocals
<1>5. /\ result' = [s \in Threads |-> result'[s]]
      /\ result'[t] = answer /\ \A s \in Threads : s # t => result'[s] = result[s]
  BY DEF Base, Typed, Finish
<1>6. /\ owner' \in Threads \cup {NoThread} /\ sharers' \subseteq Threads
      /\ before' \in Contents
  BY NoDataFacts DEF Base, Typed, Unlock
<1>7. Typed'
  BY <1>2, <1>3, <1>4, <1>5, <1>6 DEF Base, Typed
<1>8. Locked'
  <2>1. owner' # t /\ t \notin sharers' /\ \A s \in Threads : s # t =>
          (owner' = s <=> owner = s) /\ (s \in sharers' <=> s \in sharers)
    BY ThreadsAssumption DEF Unlock
  <2>2. owner' # NoThread => sharers' = {}
    BY DEF Base, Locked, Unlock
  <2> QED
    BY <1>3, <2>1, <2>2, PlaceFacts DEF Base, Locked
<1>9. CallFits(t)' /\ LocalsFit(t)'
  <2>1. pc[t] # "idle"
    BY PlaceFacts
  <2>2. CallFits(t)'
    BY <1>2, <1>3, <1>5, <2>1, PlaceFacts DEF Base, CallFits
  <2>3. LocalsFit(t)'
    BY <1>3, <1>4 DEF LocalsFit
  <2> QED
    BY <2>2, <2>3
<1>10. ASSUME NEW s \in Threads, s # t
       PROVE  CallFits(s)' /\ LocalsFit(s)'
  <2>1. pc'[s] = pc[s] /\ local'[s] = local[s] /\ result'[s] = result[s]
    BY <1>3, <1>4, <1>5, <1>10
  <2>2. CallFits(s)'
    BY <1>2, <2>1 DEF Base, CallFits
  <2>3. pc[s] = "replay" => UNCHANGED log
    BY <1>1, <1>10 DEF Inside
  <2>4. LocalsFit(s)'
    BY <2>1, <2>3 DEF Base, LocalsFit
  <2> QED
    BY <2>2, <2>4
<1> QED
  BY <1>7, <1>8, <1>9, <1>10 DEF Base

(* What a constructed engine holds. *)
LEMMA OldContentsFacts ==
    ASSUME NEW data \in {NoData} \cup OldContents
    PROVE  /\ data \in Contents /\ WithinCap(data) /\ InOrder(data) /\ NotAfter(data, 0)
           /\ Capped(data) = data
<1>1. CASE data = NoData
  <2>1. InOrder(data) /\ NotAfter(data, 0)
    BY <1>1 DEF NoData, InOrder, NotAfter
  <2> QED
    BY <1>1, <2>1, NoDataFacts, CappedFacts
<1>2. CASE data \in OldContents
  <2>0. PICK key \in Keys, value \in Values, duration \in Durations :
          data = [NoData EXCEPT ![key] =
                    <<[value |-> value, duration |-> duration, timestamp |-> 0]>>]
    BY <1>2 DEF OldContents
  <2> DEFINE record == [value |-> value, duration |-> duration, timestamp |-> 0]
  <2>1. /\ record \in Record /\ record.timestamp = 0
        /\ data = [NoData EXCEPT ![key] = <<record>>]
    BY <2>0 DEF Record
  <2> HIDE DEF record
  <2>2. data \in Contents
    BY <2>1, NoDataFacts DEF Contents
  <2>3. \A k \in Keys : data[k] = IF k = key THEN <<record>> ELSE <<>>
    BY <2>1 DEF NoData
  <2>4. Len(<<record>>) = 1 /\ <<record>>[1] = record /\ Len(<<>>) = 0
    OBVIOUS
  <2>5. WithinCap(data)
    <3>1. \A k \in Keys : Len(data[k]) \in {0, 1}
      BY <2>3, <2>4
    <3>2. m_maxHistoryPerKey # kUnlimitedHistory => \A n \in {0, 1} : n <= m_maxHistoryPerKey
      BY CapAssumption DEF kUnlimitedHistory
    <3> QED
      BY <3>1, <3>2 DEF WithinCap
  <2>6. InOrder(data) /\ NotAfter(data, 0)
    BY <2>1, <2>3, <2>4 DEF InOrder, NotAfter
  <2> QED
    BY <2>2, <2>5, <2>6, CappedFacts
<1> QED
  BY <1>1, <1>2

(* And its files. *)
LEMMA InitialFiles ==
    ASSUME Init
    PROVE  /\ snap.state \in {NoData} \cup OldContents /\ snap.epoch \in {-1, 0} /\ FilesTyped
           /\ m_wal \in BOOLEAN /\ m_data = Capped(snap.state) /\ log = <<>> /\ clock = 0
           /\ m_epoch = snap.epoch + 1 /\ m_seq = 0 /\ header = "whole" /\ before = NoData
           /\ \A t \in Threads : pc[t] = "idle"
<1>1. /\ m_wal \in BOOLEAN /\ m_data = Capped(snap.state) /\ log = <<>> /\ clock = 0
      /\ m_epoch = snap.epoch + 1 /\ m_seq = 0 /\ m_snapshotEpoch = snap.epoch
      /\ header = "whole" /\ before = NoData /\ suspect = FALSE /\ blind = FALSE
      /\ \A t \in Threads : pc[t] = "idle"
  BY DEF Init
<1>2. \/ snap \in [epoch : {-1}, state : {NoData}]
      \/ snap \in [epoch : {0}, state : OldContents]
  BY DEF Init
<1>3. snap.state \in {NoData} \cup OldContents /\ snap.epoch \in {-1, 0}
  BY <1>2
<1>4. snap.state \in Contents
  BY <1>3, OldContentsFacts
<1>5. snap \in [epoch : Nat \cup {-1}, state : Contents]
  BY <1>2, <1>3, <1>4
<1>6. m_epoch \in Nat /\ m_snapshotEpoch \in Nat \cup {-1} /\ log \in Seq(Cell)
  BY <1>1, <1>3
<1> QED
  BY <1>1, <1>3, <1>5, <1>6 DEF FilesTyped

(* Base holds of a constructed engine. *)
LEMMA BaseInit ==
    Init => Base
<1> SUFFICES ASSUME Init
             PROVE  Base
  OBVIOUS
<1>1. snap.state \in {NoData} \cup OldContents /\ m_wal \in BOOLEAN
  BY InitialFiles
<1>2. m_data \in Contents /\ before \in Contents
  BY <1>1, OldContentsFacts, NoDataFacts DEF Init
<1>3. FilesTyped
  BY InitialFiles
<1>4. Typed
  BY <1>1, <1>2, <1>3, ThreadsAssumption, PlaceFacts DEF Init, Typed, NoLocals
<1>5. Locked
  BY ThreadsAssumption DEF Init, Locked, Inside, Readers
<1>6. \A t \in Threads : CallFits(t) /\ LocalsFit(t)
  BY CallFacts, ThreadsAssumption DEF Init, CallFits, LocalsFit, Readers
<1> QED
  BY <1>4, <1>5, <1>6 DEF Base

(* A thread between calls, at the size check or at the lock changes its    *)
(* place, its call and its scope, and perhaps joins the readers.           *)
LEMMA OuterStep ==
    ASSUME Base, NEW t \in Threads,
           pc[t] \notin Inside \cup Readers, pc'[t] \in Places \ Inside, OnlyAt(t),
           call'[t] \in Atomic!Calls \cup {Atomic!NoCall}, scope'[t] \in {"none", "open", "closing"},
           local'[t] = NoLocals,
           UNCHANGED <<m_wal, m_data, persistent, clock, owner, before, alive>>,
           calls' \in 0..MaxCalls, calls' >= calls,
           sharers' = IF pc'[t] \in Readers THEN sharers \cup {t} ELSE sharers,
           pc'[t] \in Readers => owner = NoThread,
           pc'[t] # "idle" => call'[t] \in Atomic!Calls /\ calls' >= 1,
           pc'[t] = "check" => call'[t].name = "set",
           call'[t].name = "recover" => m_wal,
           pc'[t] \in Readers => call'[t].name = pc'[t],
           pc'[t] # "done" => result'[t] = done
    PROVE  Base'
<1>1. /\ pc' \in [Threads -> Places]
      /\ call' \in [Threads -> Atomic!Calls \cup {Atomic!NoCall}]
      /\ local' \in [Threads -> [i : Nat, sum : Int, now : Nat]]
      /\ result' = [s \in Threads |-> result'[s]]
      /\ scope' \in [Threads -> {"none", "open", "closing"}]
  <2>1. NoLocals \in [i : Nat, sum : Int, now : Nat]
    BY DEF NoLocals
  <2> QED
    BY <2>1, OnlyAtFacts DEF Base
<1>3. \A s \in Threads : s # t =>
        /\ pc'[s] = pc[s] /\ call'[s] = call[s] /\ local'[s] = local[s]
        /\ result'[s] = result[s] /\ scope'[s] = scope[s]
  <2>1. NoLocals \in [i : Nat, sum : Int, now : Nat]
    BY DEF NoLocals
  <2> QED
    BY <2>1, OnlyAtFacts DEF Base
<1>4. Typed'
  BY <1>1, FilesTypedSame DEF Base, Typed
<1>5. Locked'
  <2>1. owner # t /\ t \notin sharers
    BY DEF Base, Locked
  <2> QED
    BY <1>3, <2>1, PlaceFacts DEF Base, Locked
<1>6. CallFits(t)'
  BY PlaceFacts DEF CallFits, Inside
<1>7. LocalsFit(t)'
  BY DEF LocalsFit, Inside
<1>8. ASSUME NEW s \in Threads, s # t
      PROVE  CallFits(s)' /\ LocalsFit(s)'
  <2>1. /\ pc'[s] = pc[s] /\ call'[s] = call[s] /\ scope'[s] = scope[s]
        /\ result'[s] = result[s] /\ local'[s] = local[s]
    BY <1>3, <1>8
  <2>2. calls \in Nat /\ calls' \in Nat
    BY ThreadsAssumption DEF Base, Typed
  <2>3. CallFits(s)'
    BY <2>1, <2>2 DEF Base, CallFits
  <2>4. LocalsFit(s)'
    BY <2>1 DEF Base, LocalsFit, persistent, files
  <2> QED
    BY <2>3, <2>4
<1> QED
  BY <1>4, <1>5, <1>6, <1>7, <1>8 DEF Base

(* Every step of a thread keeps Base: the steps outside the lock. *)
LEMMA BaseOutside ==
    ASSUME Base, NEW t \in Threads,
           \/ Return(t) \/ Terminate(t) \/ CheckSizes(t) \/ LockShared(t) \/ EnterScope(t)
           \/ \E c \in Atomic!Calls : Call(t, c) \/ LeaveScope(t, c)
    PROVE  Base'
<1> USE DEF At
<1>1. /\ t \notin {NoThread} /\ calls \in 0..MaxCalls /\ calls \in Nat /\ MaxCalls \in Nat
      /\ call[t] \in Atomic!Calls \cup {Atomic!NoCall} /\ scope[t] \in {"none", "open", "closing"}
      /\ CallFits(t) /\ LocalsFit(t)
  BY ThreadsAssumption DEF Base, Typed
<1>2. \A f, x : f = [s \in Threads |-> f[s]] =>
        /\ f = [f EXCEPT ![t] = f[t]]
        /\ [f EXCEPT ![t] = x][t] = x
        /\ [f EXCEPT ![t] = x] = [f EXCEPT ![t] = [f EXCEPT ![t] = x][t]]
  OBVIOUS
<1>0. \A f \in {pc, call, local, result, scope} : f = [s \in Threads |-> f[s]]
  BY DEF Base, Typed
<1>3. /\ Atomic!NoCall.name = "none"
      /\ {"idle", "done", "check", "lock"} \cup Readers \subseteq Places \ Inside
      /\ \A p \in {"idle", "done", "check", "lock"} : p \notin Readers /\ p \notin Inside
  BY CallFacts, PlaceFacts
<1>4. CASE Return(t)
  <2>1. /\ OnlyAt(t) /\ pc[t] = "done" /\ pc'[t] = "idle" /\ call'[t] = Atomic!NoCall
        /\ local'[t] = local[t] /\ result'[t] = done
        /\ scope'[t] = IF scope[t] = "closing" THEN "none" ELSE scope[t]
    BY <1>0, <1>2, <1>4 DEF Return, OnlyAt, Goto
  <2>2. UNCHANGED <<m_wal, m_data, persistent, clock, owner, before, alive, calls, sharers>>
    BY <1>4 DEF Return, lock
  <2> QED
    BY <1>1, <1>3, <2>1, <2>2, OuterStep DEF LocalsFit
<1>5. CASE Terminate(t)
  BY <1>5, FilesTypedSame DEF Terminate, Base, Typed, Locked, CallFits, LocalsFit,
                              threadVars, persistent, files, lock
<1>6. CASE CheckSizes(t)
  <2>1. /\ OnlyAt(t) /\ pc[t] = "check" /\ call'[t] = call[t] /\ scope'[t] = scope[t]
        /\ \/ /\ SizesFit(call[t]) /\ pc'[t] = "lock" /\ local'[t] = local[t]
              /\ result'[t] = result[t]
           \/ ~SizesFit(call[t]) /\ pc'[t] = "done" /\ local'[t] = NoLocals
    BY <1>0, <1>2, <1>6 DEF CheckSizes, OnlyAt, Goto, Finish, steady
  <2>2. UNCHANGED <<m_wal, m_data, persistent, clock, owner, before, alive, calls, sharers>>
    BY <1>6 DEF CheckSizes, Finish, steady, lock
  <2> QED
    BY <1>1, <1>3, <2>1, <2>2, OuterStep DEF LocalsFit, CallFits
<1>7. CASE LockShared(t)
  <2>1. /\ OnlyAt(t) /\ pc[t] = "lock" /\ pc'[t] = call[t].name /\ call[t].name \in Readers
        /\ call'[t] = call[t] /\ scope'[t] = scope[t]
        /\ local'[t] = local[t] /\ result'[t] = result[t]
    BY <1>0, <1>2, <1>7 DEF LockShared, OnlyAt, Goto, steady
  <2>2. /\ UNCHANGED <<m_wal, m_data, persistent, clock, owner, before, alive, calls>>
        /\ sharers' = sharers \cup {t} /\ owner = NoThread
    BY <1>7 DEF LockShared, steady
  <2> QED
    BY <1>1, <1>3, <2>1, <2>2, OuterStep DEF LocalsFit, CallFits
<1>8. CASE EnterScope(t)
  <2>1. /\ OnlyAt(t) /\ pc[t] = "idle" /\ pc'[t] = pc[t] /\ call'[t] = call[t]
        /\ scope'[t] = "open" /\ local'[t] = local[t] /\ result'[t] = result[t]
    BY <1>0, <1>2, <1>8 DEF EnterScope, OnlyAt, threadVars
  <2>2. UNCHANGED <<m_wal, m_data, persistent, clock, owner, before, alive, calls, sharers>>
    BY <1>8 DEF EnterScope, lock
  <2> QED
    BY <1>1, <1>3, <2>1, <2>2, OuterStep DEF LocalsFit, CallFits
<1>9. ASSUME NEW c \in Atomic!Calls, Begin(t, c), c.name = "recover" => m_wal,
             \/ UNCHANGED scope
             \/ scope' = [scope EXCEPT ![t] = "closing"]
      PROVE  Base'
  <2>1. /\ OnlyAt(t) /\ pc[t] = "idle" /\ pc'[t] = IF c.name = "set" THEN "check" ELSE "lock"
        /\ call'[t] = c /\ local'[t] = local[t] /\ result'[t] = result[t]
        /\ scope'[t] = scope[t] \/ scope'[t] = "closing"
    BY <1>0, <1>2, <1>9 DEF Begin, OnlyAt, Goto
  <2>2. UNCHANGED <<m_wal, m_data, persistent, clock, owner, before, alive, sharers>>
    BY <1>9 DEF Begin, lock
  <2>3. calls' = calls + 1 /\ calls' \in 0..MaxCalls /\ calls' >= 1
    BY <1>1, <1>9 DEF Begin
  <2>4. result[t] = done
    BY <1>1, <2>1 DEF CallFits
  <2> QED
    BY <1>1, <1>3, <1>9, <2>1, <2>2, <2>3, <2>4, OuterStep DEF LocalsFit, CallFits
<1>10. ASSUME NEW c \in Atomic!Calls, Call(t, c) \/ LeaveScope(t, c)
       PROVE  Base'
  <2>1. c.name = "set" => c.name # "recover"
    OBVIOUS
  <2> QED
    BY <1>9, <1>10, <2>1 DEF Call, LeaveScope
<1> QED
  BY <1>4, <1>5, <1>6, <1>7, <1>8, <1>10

(* Taking the lock. *)
LEMMA BaseLockUnique ==
    ASSUME Base, NEW t \in Threads, LockUnique(t)
    PROVE  Base'
<1>1. /\ pc[t] = "lock" /\ owner = NoThread /\ sharers = {} /\ owner' = t /\ before' = m_data
      /\ call[t].name \notin Readers
      /\ UNCHANGED <<m_wal, call, scope, calls, alive, m_data, persistent, clock, sharers,
                     local, result>>
  BY DEF LockUnique, At, steady
<1>2. call[t] \in Atomic!Calls /\ call[t].name \in {"set", "remove", "snapshot", "recover"}
  BY <1>1, CallFacts DEF Base, CallFits
<1>3. call[t].name \in Inside /\ call[t].name \in Places
  BY <1>2, PlaceFacts DEF Inside
<1>4. /\ pc' \in [Threads -> Places] /\ pc'[t] = call[t].name
      /\ \A s \in Threads : s # t => pc'[s] = pc[s]
  BY <1>3 DEF Base, Typed, LockUnique, Goto
<1>5. Typed'
  BY <1>1, <1>4, FilesTypedSame DEF Base, Typed
<1>6. Locked'
  BY <1>1, <1>3, <1>4, PlaceFacts, ThreadsAssumption DEF Base, Locked
<1>7. CallFits(t)' /\ LocalsFit(t)'
  <2>1. CallFits(t)'
    BY <1>1, <1>2, <1>4 DEF Base, CallFits
  <2>2. local'[t] = NoLocals
    BY <1>1 DEF Base, LocalsFit
  <2>3. LocalsFit(t)'
    BY <1>2, <1>4, <2>2 DEF LocalsFit, NoLocals
  <2> QED
    BY <2>1, <2>3
<1>8. ASSUME NEW s \in Threads, s # t
      PROVE  CallFits(s)' /\ LocalsFit(s)'
  BY <1>1, <1>4, <1>8 DEF Base, CallFits, LocalsFit, persistent, files
<1> QED
  BY <1>1, <1>5, <1>6, <1>7, <1>8 DEF Base

(* A turn of getAverage()'s loop. *)
LEMMA BaseAddDuration ==
    ASSUME Base, NEW t \in Threads, AddDuration(t)
    PROVE  Base'
<1>1. /\ pc[t] = "getAverage" /\ local[t].i + 1 <= Len(m_data[call[t].key])
      /\ UNCHANGED <<m_wal, call, scope, calls, alive, m_data, persistent, clock, owner,
                     sharers, pc, result, before>>
  BY DEF AddDuration, At, steady, lock
<1>2. call[t].key \in Keys /\ local[t] \in [i : Nat, sum : Int, now : Nat]
  <2>1. call[t] \in Atomic!Calls /\ call[t].name = "getAverage"
    BY <1>1 DEF Base, CallFits, Readers
  <2> QED
    BY <2>1, CallFacts DEF Base, Typed
<1>3. local[t].i + 1 \in 1..Len(m_data[call[t].key])
  BY <1>1, <1>2, HistoryFacts DEF Base, Typed
<1>4. m_data[call[t].key][local[t].i + 1].duration \in Int
  BY <1>2, <1>3, HistoryFacts, ThreadsAssumption DEF Base, Typed, Record
<1>5. /\ local' \in [Threads -> [i : Nat, sum : Int, now : Nat]]
      /\ \A s \in Threads : s # t => local'[s] = local[s]
  <2> DEFINE d == m_data[call[t].key][local[t].i + 1].duration
             l == [i |-> local[t].i + 1, sum |-> local[t].sum + d, now |-> local[t].now]
  <2>1. local' = [local EXCEPT ![t] = l]
    BY DEF AddDuration
  <2>2. l \in [i : Nat, sum : Int, now : Nat]
    BY <1>2, <1>4
  <2> HIDE DEF l
  <2> QED
    BY <2>1, <2>2 DEF Base, Typed
<1>6. Typed' /\ Locked'
  BY <1>1, <1>5, FilesTypedSame DEF Base, Typed, Locked
<1>7. ASSUME NEW s \in Threads
      PROVE  CallFits(s)' /\ LocalsFit(s)'
  BY <1>1, <1>5 DEF Base, CallFits, LocalsFit, persistent, files
<1> QED
  BY <1>1, <1>6, <1>7 DEF Base

-----------------------------------------------------------------------------
(* What each step of the writer does, as the proofs below use it. *)

(* The writer is alone inside. *)
LEMMA WriterAlone ==
    ASSUME Base, NEW t \in Threads, pc[t] \in Inside
    PROVE  owner = t /\ \A s \in Threads : s # t => pc[s] \notin Inside \cup Readers
BY ThreadsAssumption DEF Base, Typed, Locked

(* The cells of the log. *)
LEMMA LogCells ==
    ASSUME Base
    PROVE  /\ log \in Seq(Cell) /\ Len(log) \in Nat
           /\ \A i \in 1..Len(log) : log[i] \in Cell
           /\ \A i \in 1..Len(log) : log[i] # Torn => log[i] \in LogBody
<1>1. log \in Seq(Cell)
  BY DEF Base, Typed, FilesTyped
<1>2. Len(log) \in Nat /\ \A i \in 1..Len(log) : log[i] \in Cell
  BY <1>1, LenProperties, ElementOfSeq
<1> QED
  BY <1>1, <1>2, LogBodyFacts

(* A thread's call, place and locals, and the files. *)
LEMMA ThreadFacts ==
    ASSUME Base, NEW t \in Threads
    PROVE  /\ CallFits(t) /\ LocalsFit(t) /\ t # NoThread
           /\ local[t] \in [i : Nat, sum : Int, now : Nat]
           /\ pc[t] # "idle" => call[t] \in Atomic!Calls
           /\ m_data \in Contents /\ before \in Contents /\ clock \in Nat
           /\ DOMAIN pc = Threads /\ DOMAIN local = Threads
           /\ DOMAIN call = Threads /\ DOMAIN result = Threads
BY ThreadsAssumption DEF Base, Typed, CallFits

(* The types of the files. *)
LEMMA FileFacts ==
    ASSUME Base
    PROVE  /\ FilesTyped /\ snap.epoch \in Nat \cup {-1} /\ snap.epoch \in Int /\ snap.state \in Contents
           /\ m_epoch \in Nat /\ m_seq \in Nat /\ m_snapshotEpoch \in Int
           /\ suspect \in BOOLEAN /\ blind \in BOOLEAN
<1>1. FilesTyped
  BY DEF Base, Typed
<1>2. snap \in [epoch : Nat \cup {-1}, state : Contents]
  BY <1>1 DEF FilesTyped
<1>3. snap.epoch \in Nat \cup {-1} /\ snap.state \in Contents
  BY <1>2
<1> QED
  BY <1>1, <1>3 DEF FilesTyped

(* Inside a call only its place and its locals change. *)
LEMMA StayFacts ==
    ASSUME Base, NEW t \in Threads, Stay, pc' = [pc EXCEPT ![t] = pc'[t]],
           local' = [local EXCEPT ![t] = local'[t]]
    PROVE  OnlyAt(t) /\ UNCHANGED <<m_wal, call, scope, calls, alive, owner, sharers, result, before>>
<1>1. UNCHANGED <<m_wal, call, scope, calls, alive, owner, sharers, result, before>>
  BY DEF Stay, steady, lock
<1>2. /\ call = [call EXCEPT ![t] = call[t]] /\ result = [result EXCEPT ![t] = result[t]]
      /\ scope = [scope EXCEPT ![t] = scope[t]]
  BY DEF Base, Typed
<1> QED
  BY <1>1, <1>2 DEF OnlyAt

(* Reading the clock. *)
LEMMA ReadClockFacts ==
    ASSUME Base, NEW t \in Threads, ReadClock(t)
    PROVE  /\ pc[t] \in {"set", "remove"} /\ (pc[t] = "remove" => m_wal)
           /\ pc' = [pc EXCEPT ![t] = pc'[t]]
           /\ pc'[t] = IF m_wal THEN "append" ELSE "evict"
           /\ clock' = clock + 1 /\ local'[t].now = clock'
           /\ local'[t] \in [i : Nat, sum : Int, now : Nat]
           /\ OnlyAt(t) /\ Stay /\ UNCHANGED <<m_data, persistent>>
<1>1. /\ DOMAIN pc = Threads /\ DOMAIN local = Threads /\ local[t] \in [i : Nat, sum : Int, now : Nat]
      /\ clock \in Nat
  BY ThreadFacts
<1>2. clock' = clock + 1 /\ Stay /\ UNCHANGED <<m_data, persistent>>
  BY DEF ReadClock
<1>3. pc[t] \in {"set", "remove"} /\ (pc[t] = "remove" => m_wal)
  BY DEF ReadClock, At
<1>4. pc' = [pc EXCEPT ![t] = pc'[t]] /\ pc'[t] = IF m_wal THEN "append" ELSE "evict"
  BY <1>1 DEF ReadClock, Goto
<1>5. /\ local' = [local EXCEPT ![t] = local'[t]] /\ local'[t] = [local[t] EXCEPT !.now = clock + 1]
  BY <1>1 DEF ReadClock
<1>6. local'[t].now = clock + 1 /\ local'[t] \in [i : Nat, sum : Int, now : Nat]
  BY <1>1, <1>5
<1> QED
  BY <1>2, <1>3, <1>4, <1>5, <1>6, StayFacts

(* The entry that set() and remove() write. *)
LEMMA NewEntryFacts ==
    ASSUME Base, NEW t \in Threads, pc[t] = "append"
    PROVE  /\ m_wal /\ call[t].name \in {"set", "remove"} /\ call[t].key \in Keys
           /\ NewEntry(t) \in LogBody
           /\ NewEntry(t).timestamp = clock /\ NewEntry(t).epoch = m_epoch /\ NewEntry(t).seq = m_seq
<1>1. /\ m_wal /\ call[t].name \in {"set", "remove"} /\ call[t] \in Atomic!Calls
      /\ local[t].now = clock /\ clock \in Nat /\ m_epoch \in Nat /\ m_seq \in Nat
  BY ThreadFacts, FileFacts DEF CallFits, LocalsFit
<1>2. NewEntry(t) \in LogBody
  BY <1>1, CallFacts DEF LogBody, NewEntry
<1>3. NewEntry(t).timestamp = clock /\ NewEntry(t).epoch = m_epoch /\ NewEntry(t).seq = m_seq
  BY <1>1 DEF NewEntry
<1> QED
  BY <1>1, <1>2, <1>3, CallFacts

(* Logging a set() or a remove(). *)
LEMMA AppendEntryFacts ==
    ASSUME Base, NEW t \in Threads, AppendEntry(t)
    PROVE  /\ pc[t] = "append" /\ pc' = [pc EXCEPT ![t] = pc'[t]]
           /\ pc'[t] = IF call[t].name = "set" THEN "evict" ELSE "erase"
           /\ log' = Append(log, NewEntry(t)) /\ m_seq' = m_seq + 1
           /\ UNCHANGED <<m_data, header, snap, m_epoch, m_snapshotEpoch, suspect, blind, clock, local>>
           /\ OnlyAt(t) /\ Stay
<1>1. /\ pc[t] = "append" /\ log' = Append(log, NewEntry(t)) /\ m_seq' = m_seq + 1 /\ Stay
      /\ UNCHANGED <<m_data, header, snap, m_epoch, m_snapshotEpoch, suspect, blind, clock, local>>
  BY DEF AppendEntry, At, failures
<1>2. /\ pc' = [pc EXCEPT ![t] = pc'[t]] /\ pc'[t] = IF call[t].name = "set" THEN "evict" ELSE "erase"
      /\ local = [local EXCEPT ![t] = local[t]]
  BY ThreadFacts DEF AppendEntry, Goto, Base, Typed
<1> QED
  BY <1>1, <1>2, StayFacts

(* The two halves of appendCapped(). *)
LEMMA EvictStepFacts ==
    ASSUME Base, NEW t \in Threads, Evict(t)
    PROVE  /\ pc[t] = "evict" /\ pc' = [pc EXCEPT ![t] = pc'[t]] /\ pc'[t] = "emplace"
           /\ call[t].key \in Keys /\ NewRecord(t) \in Record
           /\ m_data' = evict(m_data, call[t].key)
           /\ OnlyAt(t) /\ Stay /\ UNCHANGED <<persistent, clock, local>>
<1>1. /\ pc[t] = "evict" /\ m_data' = evict(m_data, call[t].key)
      /\ Stay /\ UNCHANGED <<persistent, clock, local>>
  BY DEF Evict, At
<1>2. /\ pc' = [pc EXCEPT ![t] = pc'[t]] /\ pc'[t] = "emplace"
      /\ local = [local EXCEPT ![t] = local[t]]
  BY ThreadFacts DEF Evict, Goto, Base, Typed
<1>3. call[t] \in Atomic!Calls /\ call[t].name = "set" /\ local[t].now \in Nat
  BY <1>1, ThreadFacts DEF CallFits
<1>4. call[t].key \in Keys /\ NewRecord(t) \in Record
  BY <1>3, CallFacts DEF NewRecord, Record
<1> QED
  BY <1>1, <1>2, <1>4, StayFacts

(* The second half. *)
LEMMA EmplaceFacts ==
    ASSUME Base, NEW t \in Threads, Emplace(t)
    PROVE  /\ pc[t] = "emplace" /\ call[t].name = "set" /\ call[t].key \in Keys
           /\ NewRecord(t) \in Record /\ NewRecord(t).timestamp = clock /\ clock >= 1
           /\ m_data' = WithRecord(m_data, call[t].key, NewRecord(t))
           /\ Finish(t, done) /\ Unlock(t) /\ UNCHANGED <<persistent, clock>>
<1>1. /\ pc[t] = "emplace" /\ m_data' = WithRecord(m_data, call[t].key, NewRecord(t))
      /\ Finish(t, done) /\ Unlock(t) /\ UNCHANGED <<persistent, clock>>
  BY DEF Emplace, At, WithRecord, NewRecord
<1>2. /\ call[t] \in Atomic!Calls /\ call[t].name = "set"
      /\ local[t].now = clock /\ clock \in Nat /\ clock >= 1
  BY <1>1, ThreadFacts DEF CallFits, LocalsFit
<1> QED
  BY <1>1, <1>2, CallFacts DEF NewRecord, Record

(* m_data.erase() *)
LEMMA EraseStepFacts ==
    ASSUME Base, NEW t \in Threads, Erase(t)
    PROVE  /\ pc[t] \in {"erase", "remove"} /\ (pc[t] = "remove" => ~m_wal)
           /\ call[t].name = "remove" /\ call[t].key \in Keys
           /\ m_data' = erase(m_data, call[t].key)
           /\ Finish(t, m_data[call[t].key] # <<>>)
           /\ Unlock(t) /\ UNCHANGED <<persistent, clock>>
<1>1. pc[t] \in {"erase", "remove"} /\ (pc[t] = "remove" => ~m_wal)
  BY DEF Erase, At
<1>2. /\ m_data' = erase(m_data, call[t].key) /\ Finish(t, m_data[call[t].key] # <<>>)
      /\ Unlock(t) /\ UNCHANGED <<persistent, clock>>
  BY DEF Erase
<1>3. call[t] \in Atomic!Calls /\ call[t].name = "remove"
  BY <1>1, ThreadFacts DEF CallFits
<1> QED
  BY <1>1, <1>2, <1>3, CallFacts

(* The two halves of snapshot(). *)
LEMMA SaveFacts ==
    ASSUME Base, NEW t \in Threads, Save(t)
    PROVE  /\ pc[t] = "snapshot" /\ m_wal /\ pc' = [pc EXCEPT ![t] = pc'[t]] /\ pc'[t] = "rotate"
           /\ snap' = Image /\ snap'.epoch = m_epoch /\ snap'.state = m_data
           /\ m_snapshotEpoch' = m_epoch /\ m_epoch' = m_epoch + 1
           /\ UNCHANGED <<m_data, log, header, m_seq, suspect, blind, clock, local>>
           /\ OnlyAt(t) /\ Stay
<1>1. /\ pc' = [pc EXCEPT ![t] = pc'[t]] /\ pc'[t] = "rotate"
      /\ local = [local EXCEPT ![t] = local[t]]
  BY ThreadFacts DEF Save, Goto, Base, Typed
<1>2. /\ pc[t] = "snapshot" /\ m_wal /\ snap' = Image
      /\ m_snapshotEpoch' = m_epoch /\ m_epoch' = m_epoch + 1 /\ Stay
      /\ UNCHANGED <<m_data, log, header, m_seq, suspect, blind, clock, local>>
  BY DEF Save, At, failures
<1> QED
  BY <1>1, <1>2, StayFacts DEF Image

(* The second half. *)
LEMMA RotateFacts ==
    ASSUME Base, NEW t \in Threads, Rotate(t)
    PROVE  /\ pc[t] = "rotate" /\ log' = <<>> /\ header' = "whole" /\ m_seq' = 0 /\ suspect' = FALSE
           /\ Finish(t, done) /\ Unlock(t)
           /\ UNCHANGED <<m_data, snap, m_epoch, m_snapshotEpoch, blind, clock>>
BY DEF Rotate, At

(* The steps of recover(). *)
LEMMA ClearFacts ==
    ASSUME Base, NEW t \in Threads, Clear(t)
    PROVE  /\ pc[t] = "recover" /\ pc' = [pc EXCEPT ![t] = pc'[t]] /\ pc'[t] = "load"
           /\ m_data' = NoData /\ m_snapshotEpoch' = -1
           /\ UNCHANGED <<log, header, snap, m_epoch, m_seq, suspect, blind, clock, local>>
           /\ OnlyAt(t) /\ Stay
<1>1. /\ pc' = [pc EXCEPT ![t] = pc'[t]] /\ pc'[t] = "load"
      /\ local = [local EXCEPT ![t] = local[t]]
  BY ThreadFacts DEF Clear, Goto, Base, Typed
<1>2. /\ pc[t] = "recover" /\ m_data' = NoData /\ m_snapshotEpoch' = -1 /\ Stay
      /\ UNCHANGED <<log, header, snap, m_epoch, m_seq, suspect, blind, clock, local>>
  BY DEF Clear, At, files, failures
<1> QED
  BY <1>1, <1>2, StayFacts

(* The snapshot is loaded. *)
LEMMA LoadFacts ==
    ASSUME Base, NEW t \in Threads, Load(t)
    PROVE  /\ pc[t] = "load" /\ pc' = [pc EXCEPT ![t] = pc'[t]] /\ pc'[t] = "replay"
           /\ m_data' = Capped(snap.state)
           /\ m_snapshotEpoch' = snap.epoch /\ m_epoch' = snap.epoch + 1
           /\ local[t].i \in Nat
           /\ UNCHANGED <<log, header, snap, m_seq, suspect, blind, clock, local>>
           /\ OnlyAt(t) /\ Stay
<1>1. /\ pc' = [pc EXCEPT ![t] = pc'[t]] /\ pc'[t] = "replay"
      /\ local = [local EXCEPT ![t] = local[t]] /\ local[t].i \in Nat
  BY ThreadFacts DEF Load, Goto, Base, Typed
<1>2. /\ pc[t] = "load" /\ m_data' = Capped(snap.state) /\ Stay
      /\ m_snapshotEpoch' = snap.epoch /\ m_epoch' = snap.epoch + 1
      /\ UNCHANGED <<log, header, snap, m_seq, suspect, blind, clock, local>>
  BY DEF Load, At, files, failures
<1> QED
  BY <1>1, <1>2, StayFacts

(* Or it is not. *)
LEMMA LoadFailsFacts ==
    ASSUME Base, NEW t \in Threads, LoadFails(t)
    PROVE  /\ pc[t] = "load" /\ pc' = [pc EXCEPT ![t] = pc'[t]] /\ pc'[t] = "replay"
           /\ m_epoch' = 0 /\ suspect' = TRUE /\ blind' = TRUE
           /\ UNCHANGED <<m_data, log, header, snap, m_seq, m_snapshotEpoch, clock, local>>
           /\ OnlyAt(t) /\ Stay
<1>1. /\ pc' = [pc EXCEPT ![t] = pc'[t]] /\ pc'[t] = "replay"
      /\ local = [local EXCEPT ![t] = local[t]]
  BY ThreadFacts DEF LoadFails, Goto, Base, Typed
<1>2. /\ pc[t] = "load" /\ m_epoch' = 0 /\ suspect' = TRUE /\ blind' = TRUE /\ Stay
      /\ UNCHANGED <<m_data, log, header, snap, m_seq, m_snapshotEpoch, clock, local>>
  BY DEF LoadFails, At, files
<1> QED
  BY <1>1, <1>2, StayFacts

(* What walkChain() finds at a cell. *)
LEMMA WalkFacts ==
    ASSUME Base, NEW t \in Threads, NEW verdict, InLoop(t, verdict)
    PROVE  /\ pc[t] = "replay" /\ local[t].i + 1 \in 1..Len(log) /\ local[t].i \in 0..Len(log)
           /\ verdict = "ok" => log[local[t].i + 1] \in LogBody
           /\ verdict # "ok" /\ header = "whole" /\ log[local[t].i + 1] # Torn
                => log[local[t].i + 1].seq # local[t].i
<1> DEFINE i == local[t].i + 1
<1>1. pc[t] = "replay" /\ local[t].i < Len(log) /\ verdict \in Verdicts(i)
  BY DEF InLoop, At
<1>2. local[t].i \in Nat /\ Len(log) \in Nat
  BY ThreadFacts, LogCells
<1>3. i \in 1..Len(log) /\ local[t].i \in 0..Len(log) /\ i - 1 = local[t].i
  BY <1>1, <1>2
<1> HIDE DEF i
<1>4. verdict = "ok" => log[i] # Torn
  BY <1>1 DEF Verdicts
<1>5. verdict # "ok" /\ header = "whole" /\ log[i] # Torn => log[i].seq # i - 1
  BY <1>1 DEF Verdicts
<1> QED
  BY <1>1, <1>3, <1>4, <1>5, LogCells DEF i

(* A turn of the loop. *)
LEMMA ReplayEntryFacts ==
    ASSUME Base, NEW t \in Threads, ReplayEntry(t)
    PROVE  /\ pc[t] = "replay" /\ local[t].i + 1 \in 1..Len(log) /\ local[t].i \in 0..Len(log)
           /\ log[local[t].i + 1] \in LogBody
           /\ m_data' = Visit(m_data, log[local[t].i + 1], m_snapshotEpoch)
           /\ local'[t].i = local[t].i + 1 /\ local'[t] \in [i : Nat, sum : Int, now : Nat]
           /\ pc' = [pc EXCEPT ![t] = pc'[t]] /\ pc'[t] = "replay"
           /\ OnlyAt(t) /\ Stay /\ UNCHANGED <<persistent, clock, pc>>
<1>1. /\ InLoop(t, "ok") /\ m_data' = Visit(m_data, log[local[t].i + 1], m_snapshotEpoch)
      /\ Stay /\ UNCHANGED <<persistent, clock, pc>>
  BY DEF ReplayEntry
<1>2. /\ pc[t] = "replay" /\ local[t].i + 1 \in 1..Len(log) /\ local[t].i \in 0..Len(log)
      /\ log[local[t].i + 1] \in LogBody
  BY <1>1, WalkFacts
<1>3. /\ local[t] \in [i : Nat, sum : Int, now : Nat] /\ DOMAIN local = Threads
      /\ pc = [pc EXCEPT ![t] = pc[t]]
  BY ThreadFacts DEF Base, Typed
<1>4. /\ local' = [local EXCEPT ![t] = local'[t]]
      /\ local'[t] = [local[t] EXCEPT !.i = local[t].i + 1]
  BY <1>3 DEF ReplayEntry
<1>5. local'[t].i = local[t].i + 1 /\ local'[t] \in [i : Nat, sum : Int, now : Nat]
  BY <1>3, <1>4
<1> QED
  BY <1>1, <1>2, <1>3, <1>4, <1>5, StayFacts

(* The loop has come to the end. *)
LEMMA RecoveredFacts ==
    ASSUME Base, NEW t \in Threads, Recovered(t)
    PROVE  /\ pc[t] = "replay" /\ (header = "whole" => local[t].i = Len(log))
           /\ m_seq' = local[t].i /\ m_seq' \in Nat /\ Finish(t, done) /\ Unlock(t)
           /\ UNCHANGED <<m_data, log, header, snap, m_epoch, m_snapshotEpoch, suspect, blind, clock>>
BY ThreadFacts DEF Recovered, Adopt, AtEnd, At

(* A call that ends without a change of the map and the files. *)
Leaves(t, answer) ==
    /\ pc[t] \in {"append", "snapshot", "rotate", "replay"} \cup Readers
    /\ pc[t] \notin Readers => answer = threw
    /\ pc[t] = "replay" => InLoop(t, "refused")
    /\ Finish(t, answer) /\ Unlock(t)
    /\ UNCHANGED <<m_data, persistent, clock>>

(* A call that ends with the files half done. *)
Breaks(t, answer) ==
    /\ \/ /\ pc[t] = "append" /\ answer = threw /\ snap' = snap
          /\ log' = Append(log, Torn) \/ log' = Append(log, NewEntry(t))
       \/ pc[t] = "snapshot" /\ m_wal /\ answer = threw /\ snap' = Image /\ log' = log
       \/ pc[t] = "rotate" /\ answer = threw /\ snap' = snap /\ log' = <<>>
       \/ /\ pc[t] = "replay" /\ answer = done /\ snap' = snap
          /\ log' = log \/ log' = SubSeq(log, 1, local[t].i)
    /\ header' \in {"whole", "short", "other"} /\ m_seq' \in Nat /\ suspect' = TRUE
    /\ Finish(t, answer) /\ Unlock(t)
    /\ UNCHANGED <<m_data, m_epoch, m_snapshotEpoch, blind, clock>>

(* What Finish says of the functions. *)
LEMMA FinishFacts ==
    ASSUME Base, NEW t \in Threads, NEW answer, Finish(t, answer)
    PROVE  /\ pc' = [pc EXCEPT ![t] = pc'[t]] /\ pc'[t] = "done"
           /\ result'[t] = answer
           /\ \A s \in Threads : s # t => local'[s] = local[s] /\ result'[s] = result[s] /\ pc'[s] = pc[s]
           /\ UNCHANGED <<m_wal, call, scope, calls, alive>>
BY ThreadFacts DEF Finish, Goto, steady

(* The calls that end in one of the two ways. *)
LEMMA LeavingSteps ==
    ASSUME Base, NEW t \in Threads,
           Read(t) \/ Divide(t) \/ AppendRefuses(t) \/ SnapshotRefused(t) \/ RecoverThrows(t)
    PROVE  \E answer : Leaves(t, answer)
<1> USE DEF At
<1>1. CASE Read(t) \/ Divide(t)
  <2>1. /\ \E answer : Finish(t, answer)
        /\ Unlock(t) /\ UNCHANGED <<m_data, persistent, clock>>
    BY <1>1 DEF Read, Divide
  <2>2. pc[t] \in {"get", "historyCount", "count", "getAverage"}
    BY <1>1 DEF Read, Divide
  <2> QED
    BY <2>1, <2>2 DEF Leaves, Readers
<1>2. CASE AppendRefuses(t)
  BY <1>2 DEF AppendRefuses, AppendThrows, Leaves
<1>3. CASE SnapshotRefused(t)
  BY <1>3 DEF SnapshotRefused, SnapshotThrows, Leaves
<1>4. CASE RecoverThrows(t)
  BY <1>4, WalkFacts DEF RecoverThrows, Leaves
<1> QED
  BY <1>1, <1>2, <1>3, <1>4

(* And those in which a system call fails. *)
LEMMA FailingSteps ==
    ASSUME Base, NEW t \in Threads,
           \/ AppendFails(t) \/ SaveFails(t) \/ RotateFails(t)
           \/ StatFails(t) \/ ReadFails(t) \/ FindsTorn(t)
    PROVE  \E answer : Leaves(t, answer) \/ Breaks(t, answer)
<1> USE DEF At
<1>1. m_seq \in Nat /\ header \in {"whole", "short", "other"} /\ local[t].i \in Nat
  BY FileFacts, ThreadFacts DEF FilesTyped
<1>2. CASE AppendFails(t)
  <2>1. /\ pc[t] = "append" /\ Finish(t, threw) /\ Unlock(t) /\ UNCHANGED <<m_data, clock>>
    BY <1>2 DEF AppendFails, AppendThrows
  <2>2. CASE UNCHANGED persistent
    BY <2>1, <2>2 DEF Leaves
  <2>3. CASE log' = Append(log, Torn) /\ suspect' = TRUE /\ UNCHANGED <<header, snap, members, blind>>
    BY <1>1, <2>1, <2>3 DEF Breaks, members
  <2>4. CASE /\ log' = Append(log, NewEntry(t)) /\ m_seq' = m_seq + 1 /\ suspect' = TRUE
             /\ UNCHANGED <<header, snap, m_epoch, m_snapshotEpoch, blind>>
    <3>1. m_seq' \in Nat
      BY <1>1, <2>4
    <3> QED
      BY <1>1, <2>1, <2>4, <3>1 DEF Breaks
  <2> QED
    BY <1>2, <2>2, <2>3, <2>4 DEF AppendFails
<1>3. CASE SaveFails(t)
  <2>1. /\ pc[t] = "snapshot" /\ m_wal /\ Finish(t, threw) /\ Unlock(t) /\ UNCHANGED <<m_data, clock>>
    BY <1>3 DEF SaveFails, SnapshotThrows
  <2>2. CASE UNCHANGED persistent
    BY <2>1, <2>2 DEF Leaves
  <2>3. CASE snap' = Image /\ suspect' = TRUE /\ UNCHANGED <<log, header, members, blind>>
    BY <1>1, <2>1, <2>3 DEF Breaks, members
  <2> QED
    BY <1>3, <2>2, <2>3 DEF SaveFails
<1>4. CASE RotateFails(t)
  <2>1. pc[t] = "rotate" /\ Finish(t, threw) /\ Unlock(t) /\ UNCHANGED <<m_data, clock>>
    BY <1>4 DEF RotateFails, SnapshotThrows
  <2>2. CASE UNCHANGED persistent
    BY <2>1, <2>2 DEF Leaves
  <2>3. CASE /\ header' = "short" \/ header' = "whole"
             /\ log' = <<>> /\ suspect' = TRUE /\ UNCHANGED <<snap, members, blind>>
    BY <1>1, <2>1, <2>3 DEF Breaks, members
  <2> QED
    BY <1>4, <2>2, <2>3 DEF RotateFails
<1>5. CASE StatFails(t) \/ ReadFails(t) \/ FindsTorn(t)
  <2>1. /\ pc[t] = "replay" /\ Adopt(t) /\ suspect' = TRUE
    BY <1>5, WalkFacts DEF StatFails, ReadFails, FindsTorn, CutsTail
  <2>2. /\ log' = log \/ log' = SubSeq(log, 1, local[t].i)
        /\ header' \in {"whole", "short", "other"}
    BY <1>1, <1>5 DEF StatFails, ReadFails, FindsTorn, CutsTail
  <2> QED
    BY <1>1, <2>1, <2>2 DEF Adopt, Breaks
<1> QED
  BY <1>2, <1>3, <1>4, <1>5

(* The steps of a writer that stays inside keep Base. *)
LEMMA BaseInside ==
    ASSUME Base, NEW t \in Threads,
           \/ ReadClock(t) \/ AppendEntry(t) \/ Evict(t) \/ Save(t)
           \/ Clear(t) \/ Load(t) \/ LoadFails(t) \/ ReplayEntry(t)
    PROVE  Base'
<1>1. /\ m_data \in Contents /\ Len(log) \in Nat /\ log \in Seq(Cell) /\ clock \in Nat
      /\ local[t] \in [i : Nat, sum : Int, now : Nat] /\ CallFits(t) /\ LocalsFit(t)
      /\ pc[t] # "idle" => call[t] \in Atomic!Calls
  BY ThreadFacts, LogCells
<1>2. /\ FilesTyped /\ snap.epoch \in Nat \cup {-1} /\ snap.state \in Contents
      /\ m_epoch \in Nat /\ m_seq \in Nat /\ snap.epoch + 1 \in Nat
  BY FileFacts
<1>3. CASE ReadClock(t)
  <2>1. FilesTyped' /\ clock' \in Nat /\ clock' >= 1
    BY <1>1, <1>2, <1>3, ReadClockFacts, FilesTypedSame
  <2> QED
    BY <1>1, <1>3, <2>1, ReadClockFacts, InnerStep DEF CallFits, Inside
<1>4. CASE AppendEntry(t)
  <2>1. log' \in Seq(Cell)
    BY <1>1, <1>4, AppendEntryFacts, NewEntryFacts, AppendProperties, LogBodyFacts
  <2>2. FilesTyped'
    BY <1>2, <1>4, <2>1, AppendEntryFacts DEF FilesTyped
  <2> QED
    BY <1>1, <1>4, <2>2, AppendEntryFacts, NewEntryFacts, InnerStep DEF LocalsFit, Inside
<1>5. CASE Evict(t)
  <2>1. m_data' \in Contents /\ FilesTyped'
    BY <1>1, <1>2, <1>5, EvictStepFacts, EvictFacts, FilesTypedSame
  <2> QED
    BY <1>1, <1>5, <2>1, EvictStepFacts, InnerStep DEF CallFits, LocalsFit, Inside
<1>6. CASE Save(t)
  <2>1. snap' \in [epoch : Nat \cup {-1}, state : Contents]
    BY <1>1, <1>2, <1>6, SaveFacts DEF Image
  <2>2. FilesTyped'
    BY <1>2, <1>6, <2>1, SaveFacts DEF FilesTyped
  <2> QED
    BY <1>1, <1>6, <2>2, SaveFacts, InnerStep DEF CallFits, Inside
<1>7. CASE Clear(t)
  <2>1. FilesTyped'
    BY <1>2, <1>7, ClearFacts DEF FilesTyped
  <2> QED
    BY <1>1, <1>7, <2>1, ClearFacts, NoDataFacts, InnerStep DEF CallFits, LocalsFit, Inside
<1>8. ASSUME pc[t] = "load", pc'[t] = "replay", OnlyAt(t), Stay,
             FilesTyped', m_data' \in Contents, UNCHANGED <<log, clock, local>>
      PROVE  Base'
  <2>1. local[t].i \in 0..Len(log)
    BY <1>1, <1>8 DEF LocalsFit
  <2> QED
    BY <1>1, <1>8, <2>1, InnerStep DEF CallFits, Inside
<1>10. CASE Load(t)
  <2>1. /\ m_epoch' \in Nat /\ m_snapshotEpoch' \in Nat \cup {-1}
        /\ UNCHANGED <<log, header, snap, m_seq, suspect, blind>>
    BY <1>2, <1>10, LoadFacts
  <2>2. FilesTyped'
    BY <1>2, <2>1 DEF FilesTyped
  <2>3. m_data' \in Contents
    BY <1>2, <1>10, LoadFacts, CappedFacts
  <2> QED
    BY <1>8, <1>10, <2>2, <2>3, LoadFacts
<1>11. CASE LoadFails(t)
  <2>1. m_epoch' = 0 /\ UNCHANGED <<log, header, snap, m_seq, m_snapshotEpoch>>
    BY <1>11, LoadFailsFacts, Zenon
  <2>2. suspect' \in BOOLEAN /\ blind' \in BOOLEAN
    BY <1>11, LoadFailsFacts, Zenon
  <2>3. FilesTyped'
    BY <1>2, <2>1, <2>2 DEF FilesTyped
  <2> QED
    BY <1>1, <1>8, <1>11, <2>3, LoadFailsFacts
<1>9. CASE ReplayEntry(t)
  <2>1. m_data' \in Contents
    BY <1>1, <1>9, ReplayEntryFacts, LogBodyFacts, VisitFacts
  <2>2. FilesTyped'
    BY <1>2, <1>9, ReplayEntryFacts, FilesTypedSame
  <2>3. local'[t].i \in 0..Len(log') /\ clock' = clock
    <3>1. log' = log /\ local'[t].i = local[t].i + 1 /\ local[t].i + 1 \in 1..Len(log) /\ clock' = clock
      BY <1>9, ReplayEntryFacts DEF persistent, files
    <3> QED
      BY <1>1, <3>1
  <2> QED
    BY <1>1, <1>9, <2>1, <2>2, <2>3, ReplayEntryFacts, InnerStep DEF CallFits, Inside
<1> QED
  BY <1>3, <1>4, <1>5, <1>6, <1>7, <1>9, <1>10, <1>11

(* The steps that end a call keep Base. *)
LEMMA BaseEnd ==
    ASSUME Base, NEW t \in Threads,
           \/ \E answer : Leaves(t, answer) \/ Breaks(t, answer)
           \/ Emplace(t) \/ Erase(t) \/ Rotate(t) \/ Recovered(t)
    PROVE  Base'
<1>1. /\ m_data \in Contents /\ log \in Seq(Cell) /\ FilesTyped /\ m_epoch \in Nat
      /\ local[t].i \in Nat /\ LocalsFit(t) /\ Len(log) \in Nat
  BY ThreadFacts, FileFacts, LogCells
<1>2. ASSUME NEW answer, Leaves(t, answer)
      PROVE  Base'
  <2>1. FilesTyped'
    BY <1>1, <1>2, FilesTypedSame DEF Leaves
  <2>2. pc[t] \in Inside \cup Readers /\ log' = log
    BY <1>2 DEF Leaves, Inside, persistent, files
  <2> QED
    BY <1>1, <1>2, <2>1, <2>2, EndOfCall DEF Leaves
<1>3. ASSUME NEW answer, Breaks(t, answer)
      PROVE  Base'
  <2>1. pc[t] \in Inside /\ pc[t] \notin Readers
    BY <1>3, PlaceFacts DEF Breaks, Inside
  <2>2. snap' \in [epoch : Nat \cup {-1}, state : Contents]
    BY <1>1, <1>3 DEF Breaks, FilesTyped, Image
  <2>3. log' \in Seq(Cell)
    <3>1. CASE log' = Append(log, Torn)
      BY <1>1, <3>1, AppendProperties, LogBodyFacts
    <3>2. CASE pc[t] = "append" /\ log' = Append(log, NewEntry(t))
      BY <1>1, <3>2, NewEntryFacts, AppendProperties, LogBodyFacts
    <3>3. CASE pc[t] = "replay" /\ log' = SubSeq(log, 1, local[t].i)
      <4>1. \A i \in 1..local[t].i : log[i] \in Cell
        BY <1>1, <3>3, LogCells DEF LocalsFit
      <4> QED
        BY <1>1, <3>3, <4>1, SubSeqProperties
    <3>4. <<>> \in Seq(Cell)
      OBVIOUS
    <3> QED
      BY <1>1, <1>3, <3>1, <3>2, <3>3, <3>4 DEF Breaks
  <2>4. FilesTyped'
    BY <1>1, <1>3, <2>2, <2>3 DEF Breaks, FilesTyped
  <2> QED
    BY <1>1, <1>3, <2>1, <2>4, EndOfCall DEF Breaks
<1>4. CASE Emplace(t)
  <2>1. m_data' \in Contents /\ FilesTyped'
    BY <1>1, <1>4, EmplaceFacts, WithRecordFacts, FilesTypedSame
  <2>2. pc[t] \in Inside /\ pc[t] \notin Readers
    BY <1>4, EmplaceFacts, PlaceFacts DEF Inside
  <2> QED
    BY <1>4, <2>1, <2>2, EmplaceFacts, EndOfCall
<1>5. CASE Erase(t)
  <2> DEFINE answer == m_data[call[t].key] # <<>>
  <2>1. /\ pc[t] \in {"erase", "remove"} /\ m_data' = erase(m_data, call[t].key) /\ call[t].key \in Keys
        /\ Finish(t, answer) /\ Unlock(t) /\ UNCHANGED <<persistent, clock>>
    BY <1>5, EraseStepFacts
  <2>2. m_data' \in Contents /\ FilesTyped'
    BY <1>1, <2>1, EraseFacts, FilesTypedSame
  <2>3. pc[t] \in Inside /\ pc[t] \notin Readers
    BY <2>1, PlaceFacts DEF Inside
  <2> HIDE DEF answer
  <2> QED
    BY <2>1, <2>2, <2>3, EndOfCall
<1>6. CASE Rotate(t)
  <2>0. <<>> \in Seq(Cell)
    OBVIOUS
  <2>1. log' = <<>> /\ header' = "whole" /\ m_seq' = 0 /\ UNCHANGED <<snap, m_epoch, m_snapshotEpoch, blind>>
    BY <1>6, RotateFacts
  <2>2. suspect' \in BOOLEAN
    BY <1>6, RotateFacts, Zenon
  <2>3. FilesTyped'
    BY <1>1, <2>0, <2>1, <2>2 DEF FilesTyped
  <2>4. pc[t] \in Inside /\ pc[t] \notin Readers
    BY <1>6, RotateFacts, PlaceFacts DEF Inside
  <2> QED
    BY <1>1, <1>6, <2>3, <2>4, RotateFacts, EndOfCall
<1>7. CASE Recovered(t)
  <2>1. FilesTyped'
    BY <1>1, <1>7, RecoveredFacts DEF FilesTyped
  <2>2. pc[t] \in Inside /\ pc[t] \notin Readers
    BY <1>7, RecoveredFacts, PlaceFacts DEF Inside
  <2> QED
    BY <1>1, <1>7, <2>1, <2>2, RecoveredFacts, EndOfCall
<1> QED
  BY <1>2, <1>3, <1>4, <1>5, <1>6, <1>7

(* Every step keeps Base. *)
LEMMA BaseStep ==
    Base /\ [Next]_vars => Base'
<1> SUFFICES ASSUME Base, [Next]_vars
             PROVE  Base'
  OBVIOUS
<1>1. CASE UNCHANGED vars
  <2>1. UNCHANGED persistent /\ log' = log
    BY <1>1 DEF vars, persistent, files
  <2>2. FilesTyped'
    BY <2>1, FileFacts, FilesTypedSame
  <2> QED
    BY <1>1, <2>1, <2>2 DEF vars, lock, threadVars, Base, Typed, Locked, CallFits, LocalsFit
<1>2. ASSUME NEW t \in Threads, Proceed(t)
      PROVE  Base'
  BY <1>2, BaseOutside, BaseLockUnique, BaseAddDuration, BaseInside, BaseEnd, LeavingSteps,
     FailingSteps DEF Proceed
<1>3. ASSUME NEW t \in Threads, SystemCallFails(t)
      PROVE  Base'
  BY <1>3, BaseInside, BaseEnd, FailingSteps DEF SystemCallFails
<1>4. ASSUME NEW t \in Threads,
             EnterScope(t) \/ \E c \in Atomic!Calls : Call(t, c) \/ LeaveScope(t, c)
      PROVE  Base'
  BY <1>4, BaseOutside
<1> QED
  BY <1>1, <1>2, <1>3, <1>4 DEF Next

-----------------------------------------------------------------------------
(* The bound of the clock. *)

(* What a step of thread t does to the readings of the clock that are still *)
(* to come: a call announces one at most, and a reading uses one up.       *)
LEMMA PendingStep ==
    ASSUME Base, Counted, NEW t \in Threads, pc' = [pc EXCEPT ![t] = pc'[t]],
           \/ clock' = clock /\ calls' = calls + 1
           \/ clock' = clock /\ calls' = calls /\ (pc'[t] \in MayReadClock => pc[t] \in MayReadClock)
           \/ /\ clock' = clock + 1 /\ calls' = calls
              /\ pc[t] \in MayReadClock /\ pc'[t] \notin MayReadClock
    PROVE  Counted'
<1>1. \A s \in Threads : s # t => pc'[s] = pc[s]
  BY DEF Base, Typed
<1>2. IsFiniteSet(Pending) /\ clock + Cardinality(Pending) <= calls
  BY DEF Counted
<1>3. clock \in Nat /\ calls \in Nat /\ Cardinality(Pending) \in Nat
  BY <1>2, ThreadsAssumption, FS_CardinalityType DEF Base, Typed
<1>4. t \in Pending <=> pc[t] \in MayReadClock
  BY DEF Pending
<1>5. pc'[t] \in MayReadClock => Pending' = Pending \cup {t}
  BY <1>1 DEF Pending
<1>6. pc'[t] \notin MayReadClock => Pending' = Pending \ {t}
  BY <1>1 DEF Pending
<1>7. /\ IsFiniteSet(Pending \cup {t})
      /\ Cardinality(Pending \cup {t})
           = IF t \in Pending THEN Cardinality(Pending) ELSE Cardinality(Pending) + 1
  BY <1>2, FS_AddElement
<1>8. /\ IsFiniteSet(Pending \ {t})
      /\ Cardinality(Pending \ {t})
           = IF t \in Pending THEN Cardinality(Pending) - 1 ELSE Cardinality(Pending)
  BY <1>2, FS_RemoveElement
<1>9. IsFiniteSet(Pending')
  BY <1>5, <1>6, <1>7, <1>8
<1>10. clock' + Cardinality(Pending') <= calls'
  <2>1. CASE pc'[t] \in MayReadClock
    <3>1. Cardinality(Pending') = IF t \in Pending THEN Cardinality(Pending) ELSE Cardinality(Pending) + 1
      BY <1>5, <1>7, <2>1
    <3> QED
      BY <1>2, <1>3, <1>4, <2>1, <3>1
  <2>2. CASE pc'[t] \notin MayReadClock
    <3>1. Cardinality(Pending') = IF t \in Pending THEN Cardinality(Pending) - 1 ELSE Cardinality(Pending)
      BY <1>6, <1>8, <2>2
    <3> QED
      BY <1>2, <1>3, <1>4, <2>2, <3>1
  <2> QED
    BY <2>1, <2>2
<1> QED
  BY <1>9, <1>10 DEF Counted

(* At first there are none. *)
LEMMA CountedInit ==
    Init => Counted
<1> SUFFICES ASSUME Init
             PROVE  Counted
  OBVIOUS
<1>1. Pending = {}
  BY DEF Init, Pending, MayReadClock
<1>2. IsFiniteSet(Pending) /\ Cardinality(Pending) = 0
  BY <1>1, FS_EmptySet
<1> QED
  BY <1>2 DEF Init, Counted

(* Every step keeps the count. *)
LEMMA CountedStep ==
    Base /\ Counted /\ [Next]_vars => Counted'
<1> SUFFICES ASSUME Base, Counted, [Next]_vars
             PROVE  Counted'
  OBVIOUS
<1>1. CASE UNCHANGED vars
  BY <1>1 DEF vars, threadVars, Counted, Pending
<1>2. ASSUME NEW t \in Threads,
             \/ Proceed(t) \/ SystemCallFails(t) \/ EnterScope(t)
             \/ \E c \in Atomic!Calls : Call(t, c) \/ LeaveScope(t, c)
      PROVE  Counted'
  <2> USE DEF At, Goto
  <2>0. DOMAIN pc = Threads /\ pc = [pc EXCEPT ![t] = pc[t]]
    BY DEF Base, Typed
  <2>1. ASSUME NEW place, pc' = [pc EXCEPT ![t] = place]
        PROVE  pc' = [pc EXCEPT ![t] = pc'[t]] /\ pc'[t] = place
    BY <2>0, <2>1
  <2>2. ASSUME NEW c, Begin(t, c)
        PROVE  Counted'
    <3>1. clock' = clock /\ calls' = calls + 1 /\ pc' = [pc EXCEPT ![t] = pc'[t]]
      BY <2>1, <2>2 DEF Begin
    <3> QED
      BY <3>1, PendingStep
  <2>3. CASE ReadClock(t)
    <3>1. pc' = [pc EXCEPT ![t] = pc'[t]] /\ pc'[t] = IF m_wal THEN "append" ELSE "evict"
      BY <2>1, <2>3 DEF ReadClock
    <3>2. clock' = clock + 1 /\ calls' = calls /\ pc[t] \in {"set", "remove"}
      BY <2>3 DEF ReadClock, Stay, steady
    <3> QED
      BY <3>1, <3>2, PendingStep DEF MayReadClock
  <2>4. ASSUME pc' = [pc EXCEPT ![t] = pc'[t]], UNCHANGED <<clock, calls>>,
               pc'[t] \in MayReadClock => pc[t] \in MayReadClock
        PROVE  Counted'
    BY <2>4, PendingStep
  <2>5. ASSUME NEW answer, Finish(t, answer), UNCHANGED clock
        PROVE  Counted'
    <3>1. pc' = [pc EXCEPT ![t] = pc'[t]] /\ pc'[t] = "done" /\ UNCHANGED calls
      BY <2>1, <2>5 DEF Finish, steady
    <3> QED
      BY <2>4, <2>5, <3>1 DEF MayReadClock
  <2>6. ASSUME NEW place, Goto(t, place), UNCHANGED <<clock, calls>>,
               place \in MayReadClock => pc[t] \in MayReadClock
        PROVE  Counted'
    BY <2>1, <2>4, <2>6
  <2>7. CASE (\E answer : Leaves(t, answer) \/ Breaks(t, answer))
             \/ Emplace(t) \/ Erase(t) \/ Rotate(t) \/ Recovered(t)
    <3>1. \E answer : Finish(t, answer)
      BY <2>7 DEF Leaves, Breaks, Emplace, Erase, Rotate, Recovered, Adopt
    <3>2. UNCHANGED clock
      BY <2>7 DEF Leaves, Breaks, Emplace, Erase, Rotate, Recovered, Adopt
    <3> QED
      BY <2>5, <3>1, <3>2
  <2>8. CASE Return(t)
    BY <2>6, <2>8 DEF Return, MayReadClock
  <2>9. CASE Terminate(t) \/ EnterScope(t) \/ AddDuration(t) \/ ReplayEntry(t)
    BY <2>0, <2>4, <2>9 DEF Terminate, EnterScope, AddDuration, ReplayEntry, threadVars, Stay, steady
  <2>10. CASE CheckSizes(t)
    <3>1. CASE Goto(t, "lock") /\ UNCHANGED steady
      BY <2>6, <2>10, <3>1 DEF CheckSizes, steady, MayReadClock
    <3> QED
      BY <2>5, <2>10, <3>1 DEF CheckSizes
  <2>11. CASE LockUnique(t) \/ LockShared(t)
    BY <2>6, <2>11 DEF LockUnique, LockShared, steady, MayReadClock
  <2>12. CASE AppendEntry(t) \/ Evict(t) \/ Save(t) \/ Clear(t) \/ Load(t) \/ LoadFails(t)
    BY <2>6, <2>12 DEF AppendEntry, Evict, Save, Clear, Load, LoadFails, Stay, steady, MayReadClock
  <2>13. CASE Proceed(t)
    BY <2>3, <2>7, <2>8, <2>9, <2>10, <2>11, <2>12, <2>13, LeavingSteps, FailingSteps DEF Proceed
  <2>14. CASE SystemCallFails(t)
    BY <2>7, <2>12, <2>14, FailingSteps DEF SystemCallFails
  <2> QED
    BY <1>2, <2>2, <2>9, <2>13, <2>14 DEF Call, LeaveScope
<1> QED
  BY <1>1, <1>2 DEF Next

(* With it the clock stays within the bound. *)
THEOREM ThreadsTyped ==
    Spec => []TypeOK
<1>1. Spec => [](Base /\ Counted)
  <2>1. Init => Base /\ Counted
    BY BaseInit, CountedInit
  <2>2. Base /\ Counted /\ [Next]_vars => (Base /\ Counted)'
    BY BaseStep, CountedStep
  <2> QED
    BY <2>1, <2>2, PTL DEF Spec
<1>2. Base /\ Counted => TypeOK
  <2> SUFFICES ASSUME Base, Counted
               PROVE  TypeOK
    OBVIOUS
  <2>1. Cardinality(Pending) \in Nat
    BY FS_CardinalityType DEF Counted
  <2>2. clock \in 0..MaxCalls
    BY <2>1, ThreadsAssumption DEF Base, Typed, Counted
  <2>3. snap.epoch >= -1 /\ m_snapshotEpoch >= -1 /\ snap.state \in Contents
    BY FileFacts DEF FilesTyped
  <2> QED
    BY <2>2, <2>3 DEF Base, Typed, FilesTyped, TypeOK
<1> QED
  BY <1>1, <1>2, PTL

-----------------------------------------------------------------------------
(* The order of the timestamps. *)

(* A later time is no problem. *)
LEMMA NotAfterLater ==
    ASSUME NEW data \in Contents, NEW a \in Nat, NEW b \in Nat, a <= b, NotAfter(data, a)
    PROVE  NotAfter(data, b)
<1> SUFFICES ASSUME NEW key \in Keys, NEW i \in 1..Len(data[key])
             PROVE  data[key][i].timestamp <= b
  BY DEF NotAfter
<1>1. data[key][i].timestamp \in Nat /\ data[key][i].timestamp <= a
  BY HistoryFacts DEF NotAfter
<1> QED
  BY <1>1

(* A cell behind the others: what an interrupted write has left, or an     *)
(* entry of the present epoch and time.                                    *)
LEMMA LogOrderedAppend ==
    ASSUME NEW cells \in Seq(Cell), NEW image, NEW epoch \in Nat, NEW now \in Nat, NEW cell \in Cell,
           LogOrdered(cells, image, epoch, now), NotAfter(image.state, now),
           cell # Torn => cell.epoch = epoch /\ cell.timestamp = now
    PROVE  LogOrdered(Append(cells, cell), image, epoch, now)
<1> DEFINE n == Len(cells)
           longer == Append(cells, cell)
<1>1. /\ n \in Nat /\ Len(longer) = n + 1 /\ longer[n + 1] = cell
      /\ \A i \in 1..n : longer[i] = cells[i]
  BY LenProperties, AppendProperties
<1> HIDE DEF longer
<1>2. \A i \in 1..Len(longer) : i \in 1..n \/ i = n + 1
  BY <1>1
<1>3. ASSUME NEW i \in 1..Len(longer), longer[i] # Torn
      PROVE  /\ longer[i].epoch <= epoch /\ longer[i].timestamp <= now
             /\ longer[i].epoch > image.epoch => NotAfter(image.state, longer[i].timestamp)
  <2>1. CASE i \in 1..n
    BY <1>1, <1>3, <2>1 DEF LogOrdered
  <2>2. CASE i = n + 1
    <3>1. longer[i].epoch = epoch /\ longer[i].timestamp = now
      BY <1>1, <1>3, <2>2
    <3> QED
      BY <3>1
  <2> QED
    BY <1>2, <2>1, <2>2
<1>4. ASSUME NEW i \in 1..Len(longer), NEW j \in 1..Len(longer), i < j,
             longer[i] # Torn, longer[j] # Torn
      PROVE  longer[i].timestamp <= longer[j].timestamp
  <2>1. i \in 1..n /\ longer[i] = cells[i]
    BY <1>1, <1>4
  <2>2. CASE j \in 1..n
    BY <1>1, <1>4, <2>1, <2>2 DEF LogOrdered
  <2>3. CASE j = n + 1
    <3>1. longer[j].timestamp = now
      BY <1>1, <1>4, <2>3
    <3> QED
      BY <1>3, <1>4, <3>1
  <2> QED
    BY <1>2, <2>2, <2>3
<1> QED
  BY <1>3, <1>4 DEF LogOrdered, longer

(* A log that is cut off. *)
LEMMA LogOrderedPrefix ==
    ASSUME NEW cells \in Seq(Cell), NEW image, NEW epoch, NEW now, NEW n \in 0..Len(cells),
           LogOrdered(cells, image, epoch, now)
    PROVE  LogOrdered(SubSeq(cells, 1, n), image, epoch, now)
<1> DEFINE part == SubSeq(cells, 1, n)
<1>1. Len(cells) \in Nat /\ n \in Nat /\ \A i \in 1..n : cells[i] \in Cell
  BY LenProperties, ElementOfSeq
<1>2. /\ Len(part) = IF 1 <= n THEN n - 1 + 1 ELSE 0
      /\ \A i \in 1..(n - 1 + 1) : part[i] = cells[1 + i - 1]
  BY <1>1, SubSeqProperties
<1>3. Len(part) = n /\ \A i \in 1..n : part[i] = cells[i] /\ i \in 1..Len(cells)
  BY <1>1, <1>2
<1> HIDE DEF part
<1> QED
  BY <1>3 DEF LogOrdered, part

(* A later time and a later epoch are no problem. *)
LEMMA LogOrderedLater ==
    ASSUME NEW cells \in Seq(Cell), NEW image, NEW epoch \in Nat, NEW now \in Nat,
           NEW epoch2 \in Nat, NEW now2 \in Nat, epoch <= epoch2, now <= now2,
           LogOrdered(cells, image, epoch, now)
    PROVE  LogOrdered(cells, image, epoch2, now2)
<1>1. \A i \in 1..Len(cells) : cells[i] # Torn => cells[i].epoch \in Nat /\ cells[i].timestamp \in Nat
  BY ElementOfSeq, LogBodyFacts
<1> QED
  BY <1>1 DEF LogOrdered

(* Nor is an image that fences off every entry. *)
LEMMA LogOrderedFenced ==
    ASSUME NEW cells \in Seq(Cell), NEW image, NEW image2, NEW epoch \in Nat, NEW now,
           image2.epoch = epoch, LogOrdered(cells, image, epoch, now)
    PROVE  LogOrdered(cells, image2, epoch, now)
<1>1. \A i \in 1..Len(cells) : cells[i] # Torn => cells[i].epoch \in Nat
  BY ElementOfSeq, LogBodyFacts
<1>2. \A i \in 1..Len(cells) : cells[i] # Torn => ~(cells[i].epoch > image2.epoch)
  BY <1>1 DEF LogOrdered
<1> QED
  BY <1>2 DEF LogOrdered

(* A step of thread t outside, between two places or into m_mutex, that    *)
(* leaves the map and the files alone.                                     *)
Outer(t) ==
    /\ pc[t] \notin Inside /\ pc' = [pc EXCEPT ![t] = pc'[t]]
    /\ UNCHANGED <<m_wal, m_data, persistent, clock>>
    /\ \A s \in Threads : s # t => local'[s] = local[s] /\ call'[s] = call[s]
    /\ \/ pc'[t] \notin Inside /\ UNCHANGED <<owner, before>>
       \/ /\ pc'[t] \in {"set", "remove", "snapshot", "recover"}
          /\ owner = NoThread /\ owner' = t /\ before' = m_data

(* Every step that is none of the writer's is one of these. *)
LEMMA OuterSteps ==
    ASSUME Base, NEW t \in Threads,
           \/ Return(t) \/ Terminate(t) \/ CheckSizes(t) \/ LockUnique(t) \/ LockShared(t)
           \/ AddDuration(t) \/ EnterScope(t)
           \/ \E c \in Atomic!Calls : Call(t, c) \/ LeaveScope(t, c)
    PROVE  Outer(t)
<1> USE DEF At, Goto
<1>1. /\ DOMAIN pc = Threads /\ DOMAIN local = Threads /\ DOMAIN call = Threads
      /\ pc = [pc EXCEPT ![t] = pc[t]]
  BY DEF Base, Typed
<1>2. /\ \A p \in {"idle", "done", "check", "lock"} \cup Readers : p \notin Inside
      /\ "getAverage" \in Readers
  BY PlaceFacts DEF Readers
<1>3. CASE Return(t)
  BY <1>1, <1>2, <1>3 DEF Return, Outer, lock
<1>4. CASE Terminate(t) \/ EnterScope(t)
  BY <1>1, <1>2, <1>4 DEF Terminate, EnterScope, Outer, lock, threadVars
<1>5. CASE CheckSizes(t)
  BY <1>1, <1>2, <1>5 DEF CheckSizes, Finish, Outer, lock, steady
<1>6. CASE LockShared(t)
  BY <1>1, <1>2, <1>6 DEF LockShared, Outer, steady
<1>7. CASE AddDuration(t)
  <2>1. /\ pc[t] = "getAverage" /\ pc' = pc /\ \A s \in Threads : s # t => local'[s] = local[s]
    BY <1>1, <1>7 DEF AddDuration
  <2> QED
    BY <1>1, <1>2, <1>7, <2>1 DEF AddDuration, Outer, lock, steady
<1>8. CASE LockUnique(t)
  <2>1. /\ pc[t] = "lock" /\ pc' = [pc EXCEPT ![t] = pc'[t]] /\ pc'[t] = call[t].name
        /\ call[t].name \notin Readers /\ owner = NoThread /\ owner' = t /\ before' = m_data
    BY <1>1, <1>8 DEF LockUnique
  <2>2. call[t] \in Atomic!Calls
    BY <2>1, ThreadFacts
  <2>3. pc'[t] \in {"set", "remove", "snapshot", "recover"}
    BY <2>1, <2>2, CallFacts
  <2> QED
    BY <1>2, <1>8, <2>1, <2>3 DEF LockUnique, Outer, steady
<1>9. ASSUME NEW c \in Atomic!Calls, Call(t, c) \/ LeaveScope(t, c)
      PROVE  Outer(t)
  <2>1. Begin(t, c)
    BY <1>9 DEF Call, LeaveScope
  <2> QED
    BY <1>1, <1>2, <2>1 DEF Begin, Outer, lock
<1> QED
  BY <1>3, <1>4, <1>5, <1>6, <1>7, <1>8, <1>9

(* The steps, by what they do to the map, the files and the clock. *)
LEMMA StepKinds ==
    ASSUME Base, [Next]_vars
    PROVE  \/ UNCHANGED vars
           \/ \E t \in Threads :
                \/ Outer(t) \/ \E answer : Leaves(t, answer) \/ Breaks(t, answer)
                \/ ReadClock(t) \/ AppendEntry(t) \/ Evict(t) \/ Emplace(t) \/ Erase(t)
                \/ Save(t) \/ Rotate(t) \/ Clear(t) \/ Load(t) \/ LoadFails(t) \/ ReplayEntry(t)
                \/ Recovered(t)
<1> DEFINE Kinds(t) ==
             \/ Outer(t) \/ \E answer : Leaves(t, answer) \/ Breaks(t, answer)
             \/ ReadClock(t) \/ AppendEntry(t) \/ Evict(t) \/ Emplace(t) \/ Erase(t)
             \/ Save(t) \/ Rotate(t) \/ Clear(t) \/ Load(t) \/ LoadFails(t) \/ ReplayEntry(t)
             \/ Recovered(t)
<1>1. ASSUME NEW t \in Threads, Proceed(t)
      PROVE  Kinds(t)
  BY <1>1, OuterSteps, LeavingSteps, FailingSteps DEF Proceed
<1>2. ASSUME NEW t \in Threads, SystemCallFails(t)
      PROVE  Kinds(t)
  BY <1>2, FailingSteps DEF SystemCallFails
<1>3. ASSUME NEW t \in Threads,
             EnterScope(t) \/ \E c \in Atomic!Calls : Call(t, c) \/ LeaveScope(t, c)
      PROVE  Kinds(t)
  BY <1>3, OuterSteps
<1> QED
  BY <1>1, <1>2, <1>3 DEF Next

-----------------------------------------------------------------------------
(* The timestamps are in order. *)

(* They are in a constructed engine. *)
LEMMA OrderedInit ==
    Init => Ordered
<1> SUFFICES ASSUME Init
             PROVE  Ordering
  BY DEF Ordered
<1>1. /\ snap.state \in {NoData} \cup OldContents /\ m_data = Capped(snap.state) /\ log = <<>>
      /\ clock = 0 /\ m_epoch = snap.epoch + 1 /\ snap.epoch \in {-1, 0}
      /\ \A t \in Threads : pc[t] = "idle"
  BY InitialFiles
<1>2. /\ InOrder(snap.state) /\ NotAfter(snap.state, 0) /\ InOrder(m_data) /\ NotAfter(m_data, 0)
  BY <1>1, OldContentsFacts
<1>3. LogOrdered(log, snap, m_epoch, clock)
  BY <1>1 DEF LogOrdered
<1> QED
  BY <1>1, <1>2, <1>3 DEF Ordering

(* Steps after which nobody is in recover()'s loop. *)
LEMMA OrderedFiles ==
    ASSUME \A s \in Threads : pc'[s] # "replay",
           InOrder(m_data'), NotAfter(m_data', clock'),
           InOrder(snap'.state), NotAfter(snap'.state, clock'),
           m_epoch' <= snap'.epoch + 1, LogOrdered(log', snap', m_epoch', clock')
    PROVE  Ordering'
<1>1. InOrder(m_data)' /\ InOrder(snap.state)'
  BY DEF InOrder
<1>2. NotAfter(m_data, clock)' /\ NotAfter(snap.state, clock)'
  BY DEF NotAfter
<1>3. LogOrdered(log, snap, m_epoch, clock)'
  BY DEF LogOrdered, NotAfter
<1> QED
  BY <1>1, <1>2, <1>3 DEF Ordering

(* What the order says of the files. *)
LEMMA OrderingFacts ==
    ASSUME Base, Ordering
    PROVE  /\ InOrder(m_data) /\ NotAfter(m_data, clock)
           /\ InOrder(snap.state) /\ NotAfter(snap.state, clock)
           /\ m_epoch <= snap.epoch + 1 /\ LogOrdered(log, snap, m_epoch, clock)
           /\ m_data \in Contents /\ snap.state \in Contents /\ clock \in Nat
           /\ log \in Seq(Cell) /\ m_epoch \in Nat /\ snap.epoch \in Int
BY FileFacts, LogCells DEF Ordering, Base, Typed

(* The writer leaves the loop of recover(), or is not in it. *)
LEMMA NotInLoop ==
    ASSUME Base, NEW t \in Threads, pc[t] \in Inside, pc' = [pc EXCEPT ![t] = pc'[t]], pc'[t] # "replay"
    PROVE  \A s \in Threads : pc'[s] # "replay"
BY WriterAlone DEF Base, Typed, Inside

(* The steps of the writer that change the clock or the files. *)
LEMMA OrderedWriting ==
    ASSUME Base, Ordering, NEW t \in Threads,
           ReadClock(t) \/ AppendEntry(t) \/ Save(t) \/ Rotate(t)
    PROVE  Ordering'
<1>1. /\ InOrder(m_data) /\ NotAfter(m_data, clock)
      /\ InOrder(snap.state) /\ NotAfter(snap.state, clock)
      /\ m_epoch <= snap.epoch + 1 /\ LogOrdered(log, snap, m_epoch, clock)
      /\ m_data \in Contents /\ snap.state \in Contents /\ clock \in Nat
      /\ log \in Seq(Cell) /\ m_epoch \in Nat /\ snap.epoch \in Int
  BY OrderingFacts
<1>2. CASE ReadClock(t)
  <2>1. /\ \A s \in Threads : pc'[s] # "replay"
        /\ clock' = clock + 1 /\ UNCHANGED <<m_data, log, snap, m_epoch>>
    BY <1>2, ReadClockFacts, NotInLoop DEF Inside, persistent, files, members
  <2>2. NotAfter(m_data, clock') /\ NotAfter(snap.state, clock')
    BY <1>1, <2>1, NotAfterLater
  <2>3. LogOrdered(log, snap, m_epoch, clock')
    BY <1>1, <2>1, LogOrderedLater
  <2> QED
    BY <1>1, <2>1, <2>2, <2>3, OrderedFiles
<1>3. CASE AppendEntry(t)
  <2> DEFINE body == NewEntry(t)
  <2>1. /\ pc[t] = "append" /\ pc[t] \in Inside /\ pc' = [pc EXCEPT ![t] = pc'[t]] /\ pc'[t] # "replay"
        /\ log' = Append(log, body) /\ UNCHANGED <<m_data, snap, m_epoch, clock>>
    BY <1>3, AppendEntryFacts DEF Inside
  <2>2. body \in Cell /\ body.epoch = m_epoch /\ body.timestamp = clock
    BY <2>1, NewEntryFacts, LogBodyFacts
  <2> HIDE DEF body
  <2>3. LogOrdered(log', snap, m_epoch, clock)
    BY <1>1, <2>1, <2>2, LogOrderedAppend
  <2> QED
    BY <1>1, <2>1, <2>3, NotInLoop, OrderedFiles
<1>4. CASE Save(t)
  <2>1. /\ pc[t] \in Inside /\ pc' = [pc EXCEPT ![t] = pc'[t]] /\ pc'[t] # "replay"
        /\ snap'.epoch = m_epoch /\ snap'.state = m_data /\ m_epoch' = m_epoch + 1
        /\ UNCHANGED <<m_data, log, clock>>
    BY <1>4, SaveFacts DEF Inside
  <2>2. LogOrdered(log, snap', m_epoch, clock)
    BY <1>1, <2>1, LogOrderedFenced
  <2>3. LogOrdered(log, snap', m_epoch', clock) /\ m_epoch' <= snap'.epoch + 1
    BY <1>1, <2>1, <2>2, LogOrderedLater
  <2> QED
    BY <1>1, <2>1, <2>3, NotInLoop, OrderedFiles
<1>5. CASE Rotate(t)
  <2>1. /\ pc[t] \in Inside /\ log' = <<>> /\ Finish(t, done)
        /\ UNCHANGED <<m_data, snap, m_epoch, clock>>
    BY <1>5, RotateFacts DEF Inside
  <2>2. \A s \in Threads : pc'[s] # "replay"
    BY <2>1, FinishFacts, NotInLoop
  <2>3. LogOrdered(log', snap, m_epoch, clock)
    BY <2>1 DEF LogOrdered
  <2> QED
    BY <1>1, <2>1, <2>2, <2>3, OrderedFiles
<1> QED
  BY <1>2, <1>3, <1>4, <1>5

(* Those that end with the files half done. *)
LEMMA OrderedBreaking ==
    ASSUME Base, Ordering, NEW t \in Threads, NEW answer, Breaks(t, answer)
    PROVE  Ordering'
<1>1. /\ InOrder(m_data) /\ NotAfter(m_data, clock)
      /\ InOrder(snap.state) /\ NotAfter(snap.state, clock)
      /\ m_epoch <= snap.epoch + 1 /\ LogOrdered(log, snap, m_epoch, clock)
      /\ m_data \in Contents /\ snap.state \in Contents /\ clock \in Nat
      /\ log \in Seq(Cell) /\ m_epoch \in Nat /\ snap.epoch \in Int
  BY OrderingFacts
<1>2. /\ pc[t] \in Inside /\ Finish(t, answer) /\ UNCHANGED <<m_data, m_epoch, clock>>
  BY DEF Breaks, Inside
<1>3. \A s \in Threads : pc'[s] # "replay"
  BY <1>2, FinishFacts, NotInLoop
<1>4. CASE /\ pc[t] = "append" /\ snap' = snap
           /\ log' = Append(log, Torn) \/ log' = Append(log, NewEntry(t))
  <2> DEFINE body == NewEntry(t)
  <2>1. /\ body \in Cell /\ body.epoch = m_epoch /\ body.timestamp = clock /\ Torn \in Cell
    BY <1>4, NewEntryFacts, LogBodyFacts
  <2> HIDE DEF body
  <2>2. LogOrdered(Append(log, Torn), snap, m_epoch, clock)
    BY <1>1, <2>1, LogOrderedAppend
  <2>3. LogOrdered(Append(log, body), snap, m_epoch, clock)
    BY <1>1, <2>1, LogOrderedAppend
  <2>4. LogOrdered(log', snap, m_epoch, clock)
    BY <1>4, <2>2, <2>3 DEF body
  <2> QED
    BY <1>1, <1>2, <1>3, <1>4, <2>4, OrderedFiles
<1>5. CASE snap' = Image /\ log' = log
  <2>1. snap'.epoch = m_epoch /\ snap'.state = m_data
    BY <1>5 DEF Image
  <2>2. LogOrdered(log, snap', m_epoch, clock) /\ m_epoch <= snap'.epoch + 1
    BY <1>1, <2>1, LogOrderedFenced
  <2> QED
    BY <1>1, <1>2, <1>3, <1>5, <2>1, <2>2, OrderedFiles
<1>6. CASE snap' = snap /\ log' = <<>>
  <2>1. LogOrdered(log', snap, m_epoch, clock)
    BY <1>6 DEF LogOrdered
  <2> QED
    BY <1>1, <1>2, <1>3, <1>6, <2>1, OrderedFiles
<1>7. CASE /\ pc[t] = "replay" /\ snap' = snap
           /\ log' = log \/ log' = SubSeq(log, 1, local[t].i)
  <2>1. local[t].i \in 0..Len(log)
    BY <1>7, ThreadFacts DEF LocalsFit
  <2>2. LogOrdered(SubSeq(log, 1, local[t].i), snap, m_epoch, clock)
    BY <1>1, <2>1, LogOrderedPrefix
  <2>3. LogOrdered(log', snap, m_epoch, clock)
    BY <1>1, <1>7, <2>2
  <2> QED
    BY <1>1, <1>2, <1>3, <1>7, <2>3, OrderedFiles
<1> QED
  BY <1>4, <1>5, <1>6, <1>7 DEF Breaks

(* Those that change the map, and those that end a call without a change.  *)
LEMMA OrderedMapping ==
    ASSUME Base, Ordering, NEW t \in Threads,
           \/ Evict(t) \/ Emplace(t) \/ Erase(t) \/ Clear(t) \/ Recovered(t)
           \/ pc[t] \in Inside /\ \E answer : Leaves(t, answer)
    PROVE  Ordering'
<1>1. /\ InOrder(m_data) /\ NotAfter(m_data, clock) /\ m_data \in Contents
  BY OrderingFacts
<1>2. ASSUME pc[t] \in Inside, pc' = [pc EXCEPT ![t] = pc'[t]], pc'[t] # "replay",
             UNCHANGED <<log, snap, m_epoch, clock>>, InOrder(m_data'), NotAfter(m_data', clock)
      PROVE  Ordering'
  BY <1>2, OrderingFacts, NotInLoop, OrderedFiles
<1>3. UNCHANGED persistent => UNCHANGED <<log, snap, m_epoch>>
  BY DEF persistent, files, members
<1>4. CASE Evict(t)
  <2>1. /\ pc[t] \in Inside /\ pc' = [pc EXCEPT ![t] = pc'[t]] /\ pc'[t] # "replay"
        /\ call[t].key \in Keys /\ m_data' = evict(m_data, call[t].key)
        /\ UNCHANGED <<log, snap, m_epoch, clock>>
    BY <1>3, <1>4, EvictStepFacts DEF Inside
  <2>2. InOrder(m_data') /\ NotAfter(m_data', clock)
    BY <1>1, <2>1, EvictOrder
  <2> QED
    BY <1>2, <2>1, <2>2
<1>5. CASE Emplace(t)
  <2>1. /\ pc[t] \in Inside /\ call[t].key \in Keys /\ NewRecord(t) \in Record
        /\ NewRecord(t).timestamp = clock
        /\ m_data' = WithRecord(m_data, call[t].key, NewRecord(t))
        /\ Finish(t, done) /\ UNCHANGED <<log, snap, m_epoch, clock>>
    BY <1>3, <1>5, EmplaceFacts DEF Inside
  <2>2. pc' = [pc EXCEPT ![t] = pc'[t]] /\ pc'[t] # "replay"
    BY <2>1, FinishFacts
  <2>3. InOrder(m_data') /\ NotAfter(m_data', clock)
    BY <1>1, <2>1, WithRecordOrder
  <2> QED
    BY <1>2, <2>1, <2>2, <2>3
<1>6. CASE Erase(t)
  <2> DEFINE answer == m_data[call[t].key] # <<>>
  <2>1. /\ pc[t] \in Inside /\ call[t].key \in Keys /\ m_data' = erase(m_data, call[t].key)
        /\ Finish(t, answer) /\ UNCHANGED <<log, snap, m_epoch, clock>>
    BY <1>3, <1>6, EraseStepFacts DEF Inside
  <2> HIDE DEF answer
  <2>2. pc' = [pc EXCEPT ![t] = pc'[t]] /\ pc'[t] # "replay"
    BY <2>1, FinishFacts
  <2>3. InOrder(m_data') /\ NotAfter(m_data', clock)
    BY <1>1, <2>1, EraseOrder
  <2> QED
    BY <1>2, <2>1, <2>2, <2>3
<1>7. CASE Clear(t)
  <2>1. /\ pc[t] \in Inside /\ pc' = [pc EXCEPT ![t] = pc'[t]] /\ pc'[t] # "replay"
        /\ m_data' = NoData /\ UNCHANGED <<log, snap, m_epoch, clock>>
    BY <1>7, ClearFacts DEF Inside
  <2>2. InOrder(m_data') /\ NotAfter(m_data', clock)
    BY <2>1 DEF NoData, InOrder, NotAfter
  <2> QED
    BY <1>2, <2>1, <2>2
<1>8. CASE Recovered(t)
  <2>1. pc[t] \in Inside /\ Finish(t, done) /\ UNCHANGED <<m_data, log, snap, m_epoch, clock>>
    BY <1>8, RecoveredFacts DEF Inside
  <2>2. pc' = [pc EXCEPT ![t] = pc'[t]] /\ pc'[t] # "replay"
    BY <2>1, FinishFacts
  <2> QED
    BY <1>1, <1>2, <2>1, <2>2
<1>9. ASSUME NEW answer, Leaves(t, answer), pc[t] \in Inside
      PROVE  Ordering'
  <2>1. Finish(t, answer) /\ UNCHANGED <<m_data, log, snap, m_epoch, clock>>
    BY <1>3, <1>9 DEF Leaves
  <2>2. pc' = [pc EXCEPT ![t] = pc'[t]] /\ pc'[t] # "replay"
    BY <2>1, FinishFacts
  <2> QED
    BY <1>1, <1>2, <1>9, <2>1, <2>2
<1> QED
  BY <1>4, <1>5, <1>6, <1>7, <1>8, <1>9

(* And the loop of recover(): what it has rebuilt is not after the entries *)
(* that are still to be replayed.                                          *)
LEMMA OrderedRecovering ==
    ASSUME Base, Ordering, NEW t \in Threads, Load(t) \/ ReplayEntry(t)
    PROVE  Ordering'
<1>1. /\ InOrder(m_data) /\ NotAfter(m_data, clock)
      /\ InOrder(snap.state) /\ NotAfter(snap.state, clock)
      /\ m_epoch <= snap.epoch + 1 /\ LogOrdered(log, snap, m_epoch, clock)
      /\ m_data \in Contents /\ snap.state \in Contents /\ clock \in Nat
      /\ log \in Seq(Cell) /\ m_epoch \in Nat /\ snap.epoch \in Int
      /\ snap.epoch + 1 \in Nat /\ Len(log) \in Nat
  BY OrderingFacts, FileFacts, LogCells
<1>2. \A i \in 1..Len(log) : log[i] # Torn =>
        log[i] \in LogBody /\ log[i].timestamp \in Nat /\ log[i].timestamp <= clock
  BY <1>1, LogCells, LogBodyFacts DEF LogOrdered
<1>3. ASSUME pc[t] \in Inside, pc'[t] = "replay",
             \A s \in Threads : s # t => pc'[s] = pc[s],
             UNCHANGED <<log, snap, clock>>, InOrder(m_data'), NotAfter(m_data', clock),
             m_epoch' <= snap.epoch + 1, LogOrdered(log, snap, m_epoch', clock),
             \A i \in (local'[t].i + 1)..Len(log) :
               log[i] # Torn /\ log[i].epoch > m_snapshotEpoch' => NotAfter(m_data', log[i].timestamp)
      PROVE  Ordering'
  <2>1. \A s \in Threads : s # t => pc'[s] # "replay"
    BY <1>3, WriterAlone DEF Inside
  <2>2. InOrder(m_data)' /\ InOrder(snap.state)'
    BY <1>1, <1>3 DEF InOrder
  <2>3. NotAfter(m_data, clock)' /\ NotAfter(snap.state, clock)'
    BY <1>1, <1>3 DEF NotAfter
  <2>4. LogOrdered(log, snap, m_epoch, clock)'
    BY <1>3 DEF LogOrdered, NotAfter
  <2>5. \A s \in Threads : pc'[s] = "replay" =>
          \A i \in (local'[s].i + 1)..Len(log') :
            log'[i] # Torn /\ log'[i].epoch > m_snapshotEpoch' => NotAfter(m_data, log[i].timestamp)'
    BY <1>3, <2>1 DEF NotAfter
  <2> QED
    BY <1>3, <2>2, <2>3, <2>4, <2>5 DEF Ordering
<1>4. CASE Load(t)
  <2>1. /\ pc[t] \in Inside /\ pc' = [pc EXCEPT ![t] = pc'[t]] /\ pc'[t] = "replay"
        /\ m_data' = Capped(snap.state) /\ m_snapshotEpoch' = snap.epoch /\ m_epoch' = snap.epoch + 1
        /\ local'[t].i \in Nat /\ UNCHANGED <<log, snap, clock>>
    BY <1>4, LoadFacts DEF Inside
  <2>2. \A s \in Threads : s # t => pc'[s] = pc[s]
    BY <2>1, ThreadFacts
  <2>3. InOrder(m_data') /\ NotAfter(m_data', clock)
    BY <1>1, <2>1, CappedOrder
  <2>4. LogOrdered(log, snap, m_epoch', clock)
    BY <1>1, <2>1, LogOrderedLater
  <2>5. ASSUME NEW i \in (local'[t].i + 1)..Len(log), log[i] # Torn, log[i].epoch > m_snapshotEpoch'
        PROVE  NotAfter(m_data', log[i].timestamp)
    <3>1. i \in 1..Len(log)
      BY <1>1, <2>1
    <3>2. NotAfter(snap.state, log[i].timestamp) /\ log[i].timestamp \in Nat
      BY <1>1, <1>2, <2>1, <2>5, <3>1 DEF LogOrdered
    <3> QED
      BY <1>1, <2>1, <3>2, CappedOrder
  <2> QED
    BY <1>1, <1>3, <2>1, <2>2, <2>3, <2>4, <2>5
<1>5. CASE ReplayEntry(t)
  <2> DEFINE i == local[t].i + 1
             body == log[i]
  <2>1. /\ pc[t] = "replay" /\ i \in 1..Len(log) /\ body \in LogBody
        /\ m_data' = Visit(m_data, body, m_snapshotEpoch) /\ local'[t].i = i
        /\ pc' = [pc EXCEPT ![t] = pc'[t]] /\ pc'[t] = "replay"
        /\ UNCHANGED <<log, snap, m_epoch, m_snapshotEpoch, clock>>
    BY <1>5, ReplayEntryFacts DEF persistent, files, members
  <2>2. i \in Nat /\ body # Torn /\ Loggable(body) /\ body.timestamp \in Nat /\ body.timestamp <= clock
    BY <1>1, <1>2, <2>1, LogBodyFacts
  <2>3. /\ \A s \in Threads : s # t => pc'[s] = pc[s]
        /\ pc[t] \in Inside
    BY <2>1, ThreadFacts DEF Inside
  <2>4. \A j \in i..Len(log) :
          log[j] # Torn /\ log[j].epoch > m_snapshotEpoch => NotAfter(m_data, log[j].timestamp)
    BY <2>1 DEF Ordering
  <2>5. CASE body.epoch > m_snapshotEpoch
    <3>1. InOrder(m_data) /\ NotAfter(m_data, body.timestamp)
      <4>1. i \in i..Len(log)
        BY <1>1, <2>1, <2>2
      <4> QED
        BY <1>1, <2>2, <2>4, <2>5, <4>1
    <3>2. m_data' = Replay(m_data, body)
      BY <1>1, <2>1, <2>2, <2>5, VisitFacts
    <3>3. m_data' \in Contents /\ InOrder(m_data') /\ NotAfter(m_data', body.timestamp)
      <4> HIDE DEF body
      <4> QED
        BY <1>1, <2>2, <3>1, <3>2, ReplayFacts
    <3>4. NotAfter(m_data', clock)
      BY <1>1, <2>2, <3>3, NotAfterLater
    <3>5. ASSUME NEW j \in (i + 1)..Len(log), log[j] # Torn
          PROVE  NotAfter(m_data', log[j].timestamp)
      <4>1. j \in 1..Len(log) /\ i < j
        BY <1>1, <2>2
      <4>2. body.timestamp <= log[j].timestamp /\ log[j].timestamp \in Nat
        BY <1>1, <1>2, <2>1, <2>2, <3>5, <4>1 DEF LogOrdered
      <4> QED
        BY <2>2, <3>3, <4>2, NotAfterLater
    <3> HIDE DEF i, body
    <3> QED
      BY <1>1, <1>3, <2>1, <2>3, <3>3, <3>4, <3>5
  <2>6. CASE ~(body.epoch > m_snapshotEpoch)
    <3>1. m_data' = m_data
      BY <1>1, <2>1, <2>2, <2>6, VisitFacts
    <3>2. \A j \in (i + 1)..Len(log) : j \in i..Len(log)
      BY <1>1, <2>2
    <3> HIDE DEF i, body
    <3> QED
      BY <1>1, <1>3, <2>1, <2>3, <2>4, <3>1, <3>2
  <2> QED
    BY <2>5, <2>6
<1> QED
  BY <1>4, <1>5

(* Steps that leave the map, the files and the clock alone. *)
LEMMA OrderedSame ==
    ASSUME Ordering, UNCHANGED <<m_data, persistent, clock>>,
           \A s \in Threads : pc'[s] = "replay" => pc[s] = "replay" /\ local'[s] = local[s]
    PROVE  Ordering'
<1>1. UNCHANGED <<log, snap, m_epoch, m_snapshotEpoch>>
  BY DEF persistent, files, members
<1>2. InOrder(m_data)' /\ InOrder(snap.state)'
  BY <1>1 DEF Ordering, InOrder
<1>3. NotAfter(m_data, clock)' /\ NotAfter(snap.state, clock)'
  BY <1>1 DEF Ordering, NotAfter
<1>4. LogOrdered(log, snap, m_epoch, clock)'
  BY <1>1 DEF Ordering, LogOrdered, NotAfter
<1>5. \A s \in Threads : pc'[s] = "replay" =>
        \A i \in (local'[s].i + 1)..Len(log') :
          log'[i] # Torn /\ log'[i].epoch > m_snapshotEpoch' => NotAfter(m_data, log[i].timestamp)'
  BY <1>1 DEF Ordering, NotAfter
<1> QED
  BY <1>1, <1>2, <1>3, <1>4, <1>5 DEF Ordering

(* Every step keeps the order, if load() has not failed. *)
LEMMA OrderedStep ==
    Base /\ Ordered /\ [Next]_vars => Ordered'
<1> SUFFICES ASSUME Base, Ordered, [Next]_vars, ~blind'
             PROVE  Ordering'
  BY DEF Ordered
<1>1. CASE UNCHANGED vars
  <2>1. Ordering /\ UNCHANGED <<m_data, persistent, clock, pc, local>>
    BY <1>1 DEF vars, threadVars, persistent, failures, Ordered
  <2> QED
    BY <2>1, OrderedSame
<1>2. ASSUME NEW t \in Threads, Outer(t)
      PROVE  Ordering'
  <2>1. \A s \in Threads : pc'[s] = "replay" => pc[s] = "replay" /\ local'[s] = local[s]
    BY <1>2, ThreadFacts DEF Outer, Inside
  <2>2. Ordering
    BY <1>2 DEF Outer, persistent, failures, Ordered
  <2> QED
    BY <1>2, <2>1, <2>2, OrderedSame DEF Outer
<1>3. ASSUME NEW t \in Threads, NEW answer, Leaves(t, answer)
      PROVE  Ordering'
  <2>1. Ordering
    BY <1>3 DEF Leaves, persistent, failures, Ordered
  <2>2. CASE pc[t] \in Inside
    BY <1>3, <2>1, <2>2, OrderedMapping
  <2>3. CASE pc[t] \in Readers
    <3>1. \A s \in Threads : pc'[s] = "replay" => pc[s] = "replay" /\ local'[s] = local[s]
      BY <1>3, FinishFacts DEF Leaves
    <3> QED
      BY <1>3, <2>1, <3>1, OrderedSame DEF Leaves
  <2> QED
    BY <1>3, <2>2, <2>3 DEF Leaves, Inside
<1>4. ASSUME NEW t \in Threads, NEW answer, Breaks(t, answer)
      PROVE  Ordering'
  BY <1>4, OrderedBreaking DEF Breaks, Ordered
<1>5. ASSUME NEW t \in Threads, UNCHANGED persistent \/ blind' = blind
      PROVE  Ordering
  BY <1>5 DEF persistent, failures, Ordered
<1>6. ASSUME NEW t \in Threads, ReadClock(t) \/ AppendEntry(t) \/ Save(t) \/ Rotate(t)
      PROVE  Ordering'
  BY <1>5, <1>6, ReadClockFacts, AppendEntryFacts, SaveFacts, RotateFacts, OrderedWriting
<1>7. ASSUME NEW t \in Threads, Evict(t) \/ Emplace(t) \/ Erase(t) \/ Clear(t) \/ Recovered(t)
      PROVE  Ordering'
  BY <1>5, <1>7, EvictStepFacts, EmplaceFacts, EraseStepFacts, ClearFacts, RecoveredFacts, OrderedMapping
<1>8. ASSUME NEW t \in Threads, Load(t) \/ ReplayEntry(t)
      PROVE  Ordering'
  BY <1>5, <1>8, LoadFacts, ReplayEntryFacts, OrderedRecovering
<1>9. ASSUME NEW t \in Threads, LoadFails(t)
      PROVE  FALSE
  BY <1>9 DEF LoadFails
<1> QED
  BY <1>1, <1>2, <1>3, <1>4, <1>6, <1>7, <1>8, <1>9, StepKinds

(* The records of a key are in the order of their timestamps, whatever     *)
(* threads, snapshots and recoveries were involved and whatever has failed *)
(* but a load() of a snapshot that is there.                               *)
THEOREM ClockOrder ==
    Spec => []HistoriesInClockOrder
<1>1. Init => Base /\ Ordered
  BY BaseInit, OrderedInit
<1>2. Base /\ Ordered /\ [Next]_vars => (Base /\ Ordered)'
  BY BaseStep, OrderedStep
<1>3. Ordered => HistoriesInClockOrder
  BY DEF Ordered, Ordering, InOrder, HistoriesInClockOrder
<1> QED
  BY <1>1, <1>2, <1>3, PTL DEF Spec

-----------------------------------------------------------------------------
(* What the writer has found and holds, whatever fails. *)

(* A step of the writer that stays inside. *)
LEMMA HeldInside ==
    ASSUME Base, Held, NEW t \in Threads, pc[t] \in Inside, pc' = [pc EXCEPT ![t] = pc'[t]], Stay,
           WithinCap(m_data'), MapFits(t)'
    PROVE  Held'
<1>1. before' = before /\ \A s \in Threads : s # t => pc'[s] \notin Inside
  BY WriterAlone, ThreadFacts DEF Stay, lock
<1>2. \A s \in Threads : s # t => MapFits(s)'
  BY <1>1 DEF MapFits, Inside
<1>3. WithinCap(m_data)' /\ WithinCap(before)'
  BY <1>1 DEF Held, WithinCap
<1> QED
  BY <1>2, <1>3 DEF Held

(* The end of a writer's call. *)
LEMMA HeldEnd ==
    ASSUME Base, Held, NEW t \in Threads, NEW answer, pc[t] \in Inside, Finish(t, answer), Unlock(t),
           WithinCap(m_data')
    PROVE  Held'
<1>1. /\ before' = NoData /\ pc'[t] = "done"
      /\ \A s \in Threads : s # t => pc'[s] = pc[s] /\ pc[s] \notin Inside
  BY WriterAlone, FinishFacts, ThreadFacts DEF Unlock
<1>2. \A s \in Threads : MapFits(s)'
  BY <1>1 DEF MapFits, Inside
<1>3. WithinCap(m_data)' /\ WithinCap(before)'
  BY <1>1, NoDataFacts DEF WithinCap
<1> QED
  BY <1>2, <1>3 DEF Held

(* A step outside. *)
LEMMA HeldOuter ==
    ASSUME Base, Held, NEW t \in Threads, Outer(t)
    PROVE  Held'
<1>1. /\ pc[t] \notin Inside /\ UNCHANGED <<m_wal, m_data, snap, m_epoch>>
      /\ \A s \in Threads : s # t => call'[s] = call[s] /\ pc'[s] = pc[s]
  BY ThreadFacts DEF Outer, persistent, files, members
<1>2. CASE pc'[t] \notin Inside /\ UNCHANGED <<owner, before>>
  <2>1. MapFits(t)'
    BY <1>2 DEF MapFits, Inside
  <2>2. \A s \in Threads : s # t => MapFits(s)'
    BY <1>1, <1>2 DEF Held, MapFits
  <2>3. WithinCap(m_data)' /\ WithinCap(before)'
    BY <1>1, <1>2 DEF Held, WithinCap
  <2> QED
    BY <2>1, <2>2, <2>3 DEF Held
<1>3. CASE /\ pc'[t] \in {"set", "remove", "snapshot", "recover"}
           /\ owner = NoThread /\ owner' = t /\ before' = m_data
  <2>1. \A s \in Threads : s # t => pc'[s] \notin Inside
    BY <1>1, <1>3, ThreadsAssumption DEF Base, Locked
  <2>2. MapFits(t)'
    BY <1>1, <1>3 DEF MapFits
  <2>3. \A s \in Threads : s # t => MapFits(s)'
    BY <2>1 DEF MapFits, Inside
  <2>4. WithinCap(m_data)' /\ WithinCap(before)'
    BY <1>1, <1>3 DEF Held, WithinCap
  <2> QED
    BY <2>2, <2>3, <2>4 DEF Held
<1> QED
  BY <1>2, <1>3 DEF Outer

(* A call that ends without a change of the map. *)
LEMMA HeldLeaves ==
    ASSUME Base, Held, NEW t \in Threads, NEW answer, Leaves(t, answer) \/ Breaks(t, answer)
    PROVE  Held'
<1>1. /\ Finish(t, answer) /\ Unlock(t) /\ m_data' = m_data
      /\ pc[t] \in {"append", "snapshot", "rotate", "replay"} \cup Readers
  BY DEF Leaves, Breaks
<1>2. WithinCap(m_data')
  BY <1>1 DEF Held
<1>3. CASE pc[t] \in {"append", "snapshot", "rotate", "replay"}
  BY <1>1, <1>2, <1>3, HeldEnd DEF Inside
<1>4. CASE pc[t] \in Readers
  <2>1. /\ owner = NoThread /\ before' = before
        /\ pc'[t] = "done" /\ \A s \in Threads : s # t => pc'[s] = pc[s]
    BY <1>1, <1>4, FinishFacts, ThreadFacts DEF Unlock, Base, Locked
  <2>2. \A s \in Threads : pc'[s] \notin Inside
    BY <2>1, ThreadsAssumption DEF Base, Locked, Inside
  <2>3. \A s \in Threads : MapFits(s)'
    BY <2>2 DEF MapFits, Inside
  <2>4. WithinCap(m_data)' /\ WithinCap(before)'
    BY <1>1, <2>1 DEF Held, WithinCap
  <2> QED
    BY <2>3, <2>4 DEF Held
<1> QED
  BY <1>1, <1>3, <1>4

(* What Held says of the writer. *)
LEMMA HeldFacts ==
    ASSUME Base, Held, NEW t \in Threads
    PROVE  /\ MapFits(t) /\ CallFits(t) /\ WithinCap(m_data) /\ WithinCap(before)
           /\ m_data \in Contents /\ before \in Contents
           /\ Stay => UNCHANGED <<m_wal, call, before>>
BY ThreadFacts DEF Held, Stay, steady

(* The steps of set() and remove(). *)
LEMMA HeldWriting ==
    ASSUME Base, Held, NEW t \in Threads,
           ReadClock(t) \/ AppendEntry(t) \/ Evict(t) \/ Emplace(t) \/ Erase(t)
    PROVE  Held'
<1>1. /\ MapFits(t) /\ CallFits(t) /\ WithinCap(m_data) /\ WithinCap(before)
      /\ m_data \in Contents /\ before \in Contents
  BY HeldFacts
<1>2. Stay => UNCHANGED <<m_wal, call, before>>
  BY DEF Stay, steady
<1>3. CASE ReadClock(t)
  <2>1. /\ pc[t] \in {"set", "remove"} /\ pc[t] \in Inside /\ pc' = [pc EXCEPT ![t] = pc'[t]]
        /\ pc'[t] \in {"append", "evict"} /\ Stay /\ m_data' = m_data
    BY <1>3, ReadClockFacts DEF Inside
  <2>2. MapFits(t)'
    BY <1>1, <1>2, <2>1 DEF MapFits
  <2> QED
    BY <1>1, <2>1, <2>2, HeldInside
<1>4. CASE AppendEntry(t)
  <2>1. /\ pc[t] = "append" /\ m_wal /\ pc[t] \in Inside /\ pc' = [pc EXCEPT ![t] = pc'[t]]
        /\ pc'[t] \in {"evict", "erase"} /\ Stay /\ m_data' = m_data
    BY <1>4, AppendEntryFacts, NewEntryFacts DEF Inside
  <2>2. MapFits(t)'
    BY <1>1, <1>2, <2>1 DEF MapFits
  <2> QED
    BY <1>1, <2>1, <2>2, HeldInside
<1>5. CASE Evict(t)
  <2>1. /\ pc[t] = "evict" /\ pc[t] \in Inside /\ pc' = [pc EXCEPT ![t] = pc'[t]]
        /\ pc'[t] = "emplace" /\ call[t].key \in Keys /\ m_data' = evict(m_data, call[t].key) /\ Stay
    BY <1>5, EvictStepFacts DEF Inside
  <2>2. m_data = before
    BY <1>1, <2>1 DEF MapFits
  <2>3. WithinCap(m_data')
    BY <1>1, <2>1, EvictCap
  <2>4. MapFits(t)'
    BY <1>2, <2>1, <2>2 DEF MapFits
  <2> QED
    BY <2>1, <2>3, <2>4, HeldInside
<1>6. CASE Emplace(t)
  <2> DEFINE record == NewRecord(t)
             key == call[t].key
  <2>1. /\ pc[t] = "emplace" /\ pc[t] \in Inside /\ key \in Keys /\ record \in Record
        /\ m_data' = WithRecord(m_data, key, record) /\ Finish(t, done) /\ Unlock(t)
    BY <1>6, EmplaceFacts DEF Inside
  <2>2. m_data = evict(before, key)
    BY <1>1, <2>1 DEF MapFits
  <2> HIDE DEF record, key
  <2>3. WithinCap(m_data')
    BY <1>1, <2>1, <2>2, AppendCappedFacts
  <2> QED
    BY <2>1, <2>3, HeldEnd
<1>7. CASE Erase(t)
  <2> DEFINE answer == m_data[call[t].key] # <<>>
             key == call[t].key
  <2>1. /\ pc[t] \in Inside /\ key \in Keys /\ m_data' = erase(m_data, key)
        /\ Finish(t, answer) /\ Unlock(t)
    BY <1>7, EraseStepFacts DEF Inside
  <2> HIDE DEF answer, key
  <2>2. WithinCap(m_data')
    BY <1>1, <2>1, EraseFacts
  <2> QED
    BY <2>1, <2>2, HeldEnd
<1> QED
  BY <1>3, <1>4, <1>5, <1>6, <1>7

(* The steps of snapshot() and of recover(). *)
LEMMA HeldSaving ==
    ASSUME Base, Held, NEW t \in Threads,
           \/ Save(t) \/ Rotate(t) \/ Clear(t) \/ Load(t) \/ LoadFails(t)
           \/ ReplayEntry(t) \/ Recovered(t)
    PROVE  Held'
<1>1. /\ MapFits(t) /\ WithinCap(m_data) /\ m_data \in Contents /\ snap.state \in Contents
  BY HeldFacts, FileFacts
<1>2. Stay => UNCHANGED <<m_wal, call, before>>
  BY DEF Stay, steady
<1>3. CASE Save(t)
  <2>1. /\ pc[t] = "snapshot" /\ pc[t] \in Inside /\ m_wal /\ pc' = [pc EXCEPT ![t] = pc'[t]]
        /\ pc'[t] = "rotate" /\ snap'.epoch = m_epoch /\ snap'.state = m_data
        /\ m_epoch' = m_epoch + 1 /\ Stay /\ m_data' = m_data
    BY <1>3, SaveFacts DEF Inside
  <2>2. MapFits(t)'
    BY <1>1, <1>2, <2>1 DEF MapFits
  <2> QED
    BY <1>1, <2>1, <2>2, HeldInside
<1>4. CASE Clear(t)
  <2>1. /\ pc[t] \in Inside /\ pc' = [pc EXCEPT ![t] = pc'[t]] /\ pc'[t] = "load"
        /\ m_data' = NoData /\ Stay
    BY <1>4, ClearFacts DEF Inside
  <2>2. MapFits(t)'
    BY <2>1 DEF MapFits
  <2> QED
    BY <2>1, <2>2, NoDataFacts, HeldInside
<1>5. CASE Load(t) \/ LoadFails(t)
  <2>1. /\ pc[t] \in Inside /\ pc' = [pc EXCEPT ![t] = pc'[t]] /\ pc'[t] = "replay"
        /\ m_data' = Capped(snap.state) \/ m_data' = m_data
        /\ Stay
    BY <1>5, LoadFacts, LoadFailsFacts DEF Inside
  <2>2. MapFits(t)'
    BY <2>1 DEF MapFits
  <2>3. WithinCap(m_data')
    BY <1>1, <2>1, CappedFacts
  <2> QED
    BY <2>1, <2>2, <2>3, HeldInside
<1>6. CASE ReplayEntry(t)
  <2> DEFINE body == log[local[t].i + 1]
  <2>1. /\ pc[t] \in Inside /\ pc' = [pc EXCEPT ![t] = pc'[t]] /\ pc'[t] = "replay"
        /\ body \in LogBody /\ m_data' = Visit(m_data, body, m_snapshotEpoch) /\ Stay
    BY <1>6, ReplayEntryFacts DEF Inside
  <2> HIDE DEF body
  <2>2. MapFits(t)'
    BY <2>1 DEF MapFits
  <2>3. WithinCap(m_data')
    BY <1>1, <2>1, LogBodyFacts, VisitFacts
  <2> QED
    BY <2>1, <2>2, <2>3, HeldInside
<1>7. CASE Rotate(t) \/ Recovered(t)
  <2>1. pc[t] \in Inside /\ m_data' = m_data /\ Finish(t, done) /\ Unlock(t)
    BY <1>7, RotateFacts, RecoveredFacts DEF Inside
  <2> QED
    BY <1>1, <2>1, HeldEnd
<1> QED
  BY <1>3, <1>4, <1>5, <1>6, <1>7

(* A constructed engine, and every step. *)
LEMMA HeldInit ==
    Init => Held
<1> SUFFICES ASSUME Init
             PROVE  Held
  OBVIOUS
<1>1. /\ snap.state \in {NoData} \cup OldContents /\ m_data = Capped(snap.state)
      /\ before = NoData /\ \A t \in Threads : pc[t] = "idle"
  BY InitialFiles DEF Init
<1>2. WithinCap(m_data) /\ WithinCap(before)
  BY <1>1, OldContentsFacts, NoDataFacts
<1>3. \A t \in Threads : MapFits(t)
  BY <1>1 DEF MapFits
<1> QED
  BY <1>2, <1>3 DEF Held

LEMMA HeldStep ==
    Base /\ Held /\ [Next]_vars => Held'
<1> SUFFICES ASSUME Base, Held, [Next]_vars
             PROVE  Held'
  OBVIOUS
<1>1. CASE UNCHANGED vars
  BY <1>1 DEF vars, persistent, files, members, threadVars, Held, MapFits, WithinCap
<1> QED
  BY <1>1, StepKinds, HeldOuter, HeldLeaves, HeldWriting, HeldSaving

-----------------------------------------------------------------------------
(* The files give the map. *)

(* What recover() would rebuild, entry by entry. *)
LEMMA RebuiltFacts ==
    ASSUME Base, FilesWhole
    PROVE  /\ Rebuilt \in [0..Len(log) -> Contents] /\ Rebuilt[0] = Capped(snap.state)
           /\ \A i \in 1..Len(log) : Rebuilt[i] = Visit(Rebuilt[i - 1], log[i], snap.epoch)
<1>1. Capped(snap.state) \in Contents /\ Len(log) \in Nat
  BY CappedFacts, LogCells, FileFacts
<1>2. \A i \in 1..Len(log) : Loggable(log[i])
  BY LogBodyFacts DEF FilesWhole
<1> QED
  BY <1>1, <1>2, ReplayedFacts DEF Rebuilt

(* A step of the writer that stays inside. *)
LEMMA WholeInside ==
    ASSUME Base, NEW t \in Threads, pc[t] \in Inside, pc' = [pc EXCEPT ![t] = pc'[t]], Stay,
           FilesWhole', FilesFit(t)'
    PROVE  Whole'
<1>1. /\ owner' = t /\ t # NoThread
      /\ \A s \in Threads : s # t => pc'[s] \notin Inside
  BY WriterAlone, ThreadFacts DEF Stay, lock
<1>2. \A s \in Threads : s # t => FilesFit(s)'
  BY <1>1 DEF FilesFit, Inside
<1> QED
  BY <1>1, <1>2 DEF Whole

(* The end of a writer's call. *)
LEMMA WholeEnd ==
    ASSUME Base, NEW t \in Threads, NEW answer, pc[t] \in Inside, Finish(t, answer), Unlock(t),
           FilesWhole', m_wal => Rebuilt'[Len(log')] = m_data'
    PROVE  Whole'
<1>1. /\ m_wal' = m_wal /\ pc'[t] = "done"
      /\ \A s \in Threads : s # t => pc'[s] = pc[s] /\ pc[s] \notin Inside
  BY WriterAlone, FinishFacts, ThreadFacts
<1>2. \A s \in Threads : FilesFit(s)'
  BY <1>1 DEF FilesFit, Inside
<1> QED
  BY <1>1, <1>2 DEF Whole

(* The files are as they were. *)
LEMMA SameFiles ==
    ASSUME UNCHANGED persistent
    PROVE  (FilesWhole => FilesWhole') /\ Rebuilt' = Rebuilt
           /\ UNCHANGED <<log, header, snap, m_epoch, m_seq, m_snapshotEpoch, suspect>>
<1>1. UNCHANGED <<log, header, snap, m_epoch, m_seq, m_snapshotEpoch, suspect>>
  BY DEF persistent, files, members, failures
<1> QED
  BY <1>1 DEF FilesWhole, Rebuilt

(* A step outside. *)
LEMMA WholeOuter ==
    ASSUME Base, Whole, NEW t \in Threads, Outer(t)
    PROVE  Whole'
<1>1. /\ pc[t] \notin Inside /\ UNCHANGED <<m_wal, m_data, persistent>>
      /\ \A s \in Threads : s # t => local'[s] = local[s] /\ call'[s] = call[s] /\ pc'[s] = pc[s]
  BY ThreadFacts DEF Outer
<1>2. FilesWhole' /\ Rebuilt' = Rebuilt /\ UNCHANGED <<log, snap, m_snapshotEpoch>>
  BY <1>1, SameFiles DEF Whole
<1>3. CASE pc'[t] \notin Inside /\ UNCHANGED <<owner, before>>
  <2>1. FilesFit(t)'
    BY <1>3 DEF FilesFit, Inside
  <2>2. \A s \in Threads : s # t => FilesFit(s)'
    BY <1>1, <1>2, <1>3 DEF Whole, FilesFit, NewRecord
  <2> QED
    BY <1>1, <1>2, <1>3, <2>1, <2>2 DEF Whole
<1>4. CASE /\ pc'[t] \in {"set", "remove", "snapshot", "recover"}
           /\ owner = NoThread /\ owner' = t /\ before' = m_data
  <2>1. t # NoThread /\ \A s \in Threads : s # t => pc'[s] \notin Inside
    BY <1>1, <1>4, ThreadsAssumption DEF Base, Locked
  <2>2. FilesFit(t)'
    BY <1>1, <1>2, <1>4 DEF Whole, FilesFit
  <2>3. \A s \in Threads : s # t => FilesFit(s)'
    BY <2>1 DEF FilesFit, Inside
  <2> QED
    BY <1>2, <1>4, <2>1, <2>2, <2>3 DEF Whole
<1> QED
  BY <1>3, <1>4 DEF Outer

(* recover() does not refuse such a log. *)
LEMMA WholeAccepted ==
    ASSUME Base, FilesWhole, NEW t \in Threads
    PROVE  ~InLoop(t, "refused")
<1> SUFFICES ASSUME InLoop(t, "refused")
             PROVE  FALSE
  OBVIOUS
<1> DEFINE i == local[t].i + 1
<1>1. i \in 1..Len(log) /\ local[t].i \in Nat
      /\ (header = "whole" /\ log[i] # Torn => log[i].seq # local[t].i)
  BY WalkFacts, ThreadFacts
<1>2. i - 1 = local[t].i
  BY <1>1
<1> HIDE DEF i
<1>3. header = "whole" /\ log[i] \in LogBody /\ log[i].seq = i - 1
  BY <1>1 DEF FilesWhole
<1> QED
  BY <1>1, <1>2, <1>3, LogBodyFacts

(* A call that ends without a change. *)
LEMMA WholeLeaves ==
    ASSUME Base, Held, Whole, NEW t \in Threads, NEW answer, Leaves(t, answer)
    PROVE  Whole'
<1>1. /\ Finish(t, answer) /\ Unlock(t) /\ UNCHANGED <<m_data, persistent>>
  BY DEF Leaves
<1>2. FilesWhole' /\ Rebuilt' = Rebuilt /\ UNCHANGED <<log, snap>>
  BY <1>1, SameFiles DEF Whole
<1>3. CASE pc[t] \in {"append", "snapshot", "rotate"}
  <2>1. m_data = before /\ (m_wal => Rebuilt[Len(log)] = before)
    BY <1>3 DEF Held, MapFits, Whole, FilesFit
  <2> QED
    BY <1>1, <1>2, <1>3, <2>1, WholeEnd DEF Inside
<1>4. CASE pc[t] = "replay"
  BY <1>4, WholeAccepted DEF Leaves, Whole
<1>5. CASE pc[t] \in Readers
  <2>1. /\ owner = NoThread /\ owner' = NoThread /\ m_wal' = m_wal
        /\ pc'[t] = "done" /\ \A s \in Threads : s # t => pc'[s] = pc[s]
    BY <1>1, <1>5, FinishFacts, ThreadFacts DEF Unlock, Base, Locked
  <2>2. \A s \in Threads : pc'[s] \notin Inside
    BY <2>1, ThreadsAssumption DEF Base, Locked, Inside
  <2>3. \A s \in Threads : FilesFit(s)'
    BY <2>2 DEF FilesFit, Inside
  <2> QED
    BY <1>1, <1>2, <2>1, <2>3 DEF Whole
<1> QED
  BY <1>3, <1>4, <1>5 DEF Leaves

(* A step of set() or remove() in the map. *)
LEMMA WholeMapping ==
    ASSUME Base, Held, Whole, NEW t \in Threads, ReadClock(t) \/ Evict(t) \/ Emplace(t) \/ Erase(t)
    PROVE  Whole'
<1>1. /\ MapFits(t) /\ FilesFit(t) /\ m_data \in Contents /\ before \in Contents
      /\ Stay => UNCHANGED <<m_wal, call, before>>
  BY HeldFacts DEF Whole
<1>2. UNCHANGED persistent
  BY ReadClockFacts, EvictStepFacts, EmplaceFacts, EraseStepFacts
<1>3. FilesWhole' /\ Rebuilt' = Rebuilt /\ UNCHANGED <<log, snap>>
  BY <1>2, SameFiles DEF Whole
<1>4. CASE ReadClock(t)
  <2>1. /\ pc[t] \in {"set", "remove"} /\ pc[t] \in Inside /\ pc' = [pc EXCEPT ![t] = pc'[t]]
        /\ pc'[t] = IF m_wal THEN "append" ELSE "evict"
        /\ Stay
    BY <1>4, ReadClockFacts DEF Inside
  <2>2. FilesFit(t)'
    BY <1>1, <1>3, <2>1 DEF FilesFit
  <2> QED
    BY <1>3, <2>1, <2>2, WholeInside
<1>5. CASE Evict(t)
  <2>1. /\ pc[t] = "evict" /\ pc[t] \in Inside /\ pc' = [pc EXCEPT ![t] = pc'[t]]
        /\ pc'[t] = "emplace" /\ Stay /\ UNCHANGED local
    BY <1>5, EvictStepFacts DEF Inside
  <2>2. FilesFit(t)'
    BY <1>1, <1>3, <2>1 DEF FilesFit, NewRecord
  <2> QED
    BY <1>3, <2>1, <2>2, WholeInside
<1>6. CASE Emplace(t)
  <2> DEFINE record == NewRecord(t)
             key == call[t].key
  <2>1. /\ pc[t] = "emplace" /\ pc[t] \in Inside /\ key \in Keys /\ record \in Record
        /\ m_data' = WithRecord(m_data, key, record) /\ Finish(t, done) /\ Unlock(t)
    BY <1>6, EmplaceFacts DEF Inside
  <2>2. m_data = evict(before, key) /\ (m_wal => Rebuilt[Len(log)] = appendCapped(before, key, record))
    BY <1>1, <2>1 DEF MapFits, FilesFit
  <2> HIDE DEF record, key
  <2>3. m_data' = appendCapped(before, key, record)
    BY <1>1, <2>1, <2>2, AppendCappedFacts
  <2> QED
    BY <1>3, <2>1, <2>2, <2>3, WholeEnd
<1>7. CASE Erase(t)
  <2> DEFINE answer == m_data[call[t].key] # <<>>
             key == call[t].key
  <2>1. /\ pc[t] \in {"erase", "remove"} /\ (pc[t] = "remove" => ~m_wal) /\ pc[t] \in Inside
        /\ m_data' = erase(m_data, key) /\ Finish(t, answer) /\ Unlock(t)
    BY <1>7, EraseStepFacts DEF Inside
  <2>2. m_data = before /\ (m_wal => Rebuilt[Len(log)] = erase(before, key))
    BY <1>1, <2>1 DEF MapFits, FilesFit
  <2> HIDE DEF answer, key
  <2> QED
    BY <1>3, <2>1, <2>2, WholeEnd
<1> QED
  BY <1>4, <1>5, <1>6, <1>7

(* A set() or a remove() is logged: its entry is of the log's epoch, which *)
(* the snapshot does not fence off, and carries the next seq.              *)
LEMMA WholeAppending ==
    ASSUME Base, Held, Whole, NEW t \in Threads, AppendEntry(t)
    PROVE  Whole'
<1> DEFINE body == NewEntry(t)
           key == call[t].key
<1>1. /\ pc[t] = "append" /\ m_wal /\ pc[t] \in Inside /\ pc' = [pc EXCEPT ![t] = pc'[t]]
      /\ pc'[t] = IF call[t].name = "set" THEN "evict" ELSE "erase"
      /\ log' = Append(log, body) /\ body \in LogBody /\ m_seq' = m_seq + 1
      /\ body.epoch = m_epoch /\ body.seq = m_seq
      /\ Stay /\ UNCHANGED <<header, snap, m_epoch, local>>
  BY AppendEntryFacts, NewEntryFacts DEF Inside
<1>2. Rebuilt[Len(log)] = before /\ before \in Contents /\ UNCHANGED <<m_wal, call, before>>
  BY <1>1, HeldFacts DEF Whole, FilesFit
<1>3. /\ log \in Seq(Cell) /\ body \in Cell /\ Len(log) \in Nat /\ m_epoch \in Nat
      /\ snap.epoch \in Int /\ Capped(snap.state) \in Contents
  BY <1>1, LogCells, FileFacts, LogBodyFacts, CappedFacts
<1>4. /\ header = "whole" /\ m_seq = Len(log) /\ m_epoch = snap.epoch + 1
      /\ \A i \in 1..Len(log) :
           log[i] \in LogBody /\ log[i].seq = i - 1 /\ log[i].epoch <= m_epoch
  BY DEF Whole, FilesWhole
<1>5. /\ call[t].name = "set" => Replay(before, body) = appendCapped(before, key, NewRecord(t))
      /\ call[t].name # "set" => Replay(before, body) = erase(before, key)
  <2>1. ASSUME call[t].name = "set"
        PROVE  Replay(before, body) = appendCapped(before, key, NewRecord(t))
    <3>1. call[t].duration \in Durations /\ call[t].value \in Values
      BY <1>1, <2>1, ThreadFacts, CallFacts DEF CallFits
    <3>2. /\ body.type = "PUT" /\ body.key = key /\ body.timestamp = local[t].now
          /\ body.blob = serialize(call[t].duration, call[t].value)
      BY <2>1 DEF NewEntry
    <3> HIDE DEF body
    <3> QED
      BY <3>1, <3>2, ReplayPut DEF NewRecord
  <2>2. ASSUME call[t].name # "set"
        PROVE  Replay(before, body) = erase(before, key)
    BY <2>2, ReplayDelete DEF NewEntry
  <2> QED
    BY <2>1, <2>2
<1> HIDE DEF body
<1>6. /\ Len(log') = Len(log) + 1 /\ log'[Len(log) + 1] = body
      /\ \A i \in 1..Len(log) : log'[i] = log[i]
  BY <1>1, <1>3, AppendProperties
<1>7. FilesWhole'
  <2>1. ASSUME NEW i \in 1..Len(log')
        PROVE  log'[i] \in LogBody /\ log'[i].seq = i - 1 /\ log'[i].epoch <= m_epoch
    <3>1. CASE i \in 1..Len(log)
      BY <1>4, <1>6, <3>1
    <3>2. CASE i = Len(log) + 1
      BY <1>1, <1>3, <1>4, <1>6, <3>2
    <3> QED
      BY <1>3, <1>6, <3>1, <3>2
  <2>2. m_seq' = Len(log') /\ header' = "whole" /\ m_epoch' = snap'.epoch + 1
    BY <1>1, <1>4, <1>6
  <2> QED
    BY <1>1, <2>1, <2>2 DEF FilesWhole
<1>8. Rebuilt'[Len(log')] = Replay(before, body)
  <2>1. Loggable(body) /\ \A i \in 1..Len(log) : Loggable(log[i])
    BY <1>1, <1>4, LogBodyFacts
  <2>2. Rebuilt'[Len(log')] = Visit(Rebuilt[Len(log)], body, snap.epoch)
    BY <1>1, <1>3, <1>6, <2>1, ReplayedAppend DEF Rebuilt
  <2>3. body.epoch > snap.epoch
    BY <1>1, <1>3, <1>4
  <2> QED
    BY <1>2, <2>1, <2>2, <2>3, VisitFacts
<1>9. FilesFit(t)'
  BY <1>1, <1>2, <1>5, <1>8 DEF FilesFit, NewRecord
<1> QED
  BY <1>1, <1>7, <1>9, WholeInside

(* The image is saved: all entries are behind its fence. *)
LEMMA WholeSaving ==
    ASSUME Base, Held, Whole, NEW t \in Threads, Save(t)
    PROVE  Whole'
<1>1. /\ pc[t] = "snapshot" /\ pc[t] \in Inside /\ m_wal /\ pc' = [pc EXCEPT ![t] = pc'[t]]
      /\ pc'[t] = "rotate" /\ snap'.epoch = m_epoch /\ snap'.state = m_data
      /\ m_epoch' = m_epoch + 1 /\ Stay /\ UNCHANGED <<log, header, m_seq>>
  BY SaveFacts DEF Inside
<1>2. /\ m_data = before /\ UNCHANGED before /\ m_data \in Contents /\ Capped(m_data) = m_data
  BY <1>1, HeldFacts, CappedFacts DEF MapFits
<1>3. /\ header = "whole" /\ m_seq = Len(log) /\ Len(log) \in Nat /\ m_epoch \in Nat
      /\ \A i \in 1..Len(log) :
           /\ log[i] \in LogBody /\ log[i].seq = i - 1 /\ log[i].epoch <= m_epoch
           /\ log[i].epoch \in Nat /\ Loggable(log[i])
  BY LogCells, FileFacts, LogBodyFacts DEF Whole, FilesWhole
<1>4. FilesWhole'
  <2>1. \A i \in 1..Len(log) : log[i].epoch <= m_epoch + 1
    BY <1>3
  <2> QED
    BY <1>1, <1>3, <2>1 DEF FilesWhole
<1>5. Rebuilt'[Len(log')] = before'
  <2>1. \A i \in 1..Len(log) : Loggable(log[i]) /\ ~(log[i].epoch > m_epoch)
    BY <1>3
  <2>2. Replayed(m_data, log, m_epoch)[Len(log)] = m_data
    BY <1>2, <1>3, <2>1, ReplayedFenced
  <2> QED
    BY <1>1, <1>2, <2>2 DEF Rebuilt
<1>6. FilesFit(t)'
  BY <1>1, <1>5 DEF FilesFit
<1> QED
  BY <1>1, <1>4, <1>6, WholeInside

(* The rotation heals: whatever has failed before, the image is in place   *)
(* and the log is empty.                                                   *)
LEMMA WholeRotating ==
    ASSUME Base, Held, NEW t \in Threads, Rotate(t)
    PROVE  Whole'
<1>1. /\ pc[t] = "rotate" /\ pc[t] \in Inside /\ log' = <<>> /\ header' = "whole" /\ m_seq' = 0
      /\ Finish(t, done) /\ Unlock(t) /\ UNCHANGED <<m_data, snap, m_epoch>>
  BY RotateFacts DEF Inside
<1>2. /\ snap.state = m_data /\ m_epoch = snap.epoch + 1 /\ m_data \in Contents
      /\ Capped(m_data) = m_data
  BY <1>1, HeldFacts, CappedFacts DEF MapFits
<1>3. Len(log') = 0 /\ 1..Len(log') = {}
  BY <1>1
<1>4. FilesWhole'
  BY <1>1, <1>2, <1>3 DEF FilesWhole
<1>5. Replayed(m_data, log', snap.epoch)[0] = m_data
  BY <1>2, <1>3, ReplayedFacts
<1>6. Rebuilt'[Len(log')] = m_data'
  BY <1>1, <1>2, <1>3, <1>5 DEF Rebuilt
<1> QED
  BY <1>1, <1>4, <1>6, WholeEnd

(* The steps of recover(). *)
LEMMA WholeRecovering ==
    ASSUME Base, Held, Whole, NEW t \in Threads,
           Clear(t) \/ Load(t) \/ ReplayEntry(t) \/ Recovered(t)
    PROVE  Whole'
<1>1. /\ FilesFit(t) /\ LocalsFit(t) /\ CallFits(t) /\ FilesWhole /\ Len(log) \in Nat
      /\ Stay => UNCHANGED <<m_wal, before>>
  BY HeldFacts, ThreadFacts, LogCells DEF Whole
<1>2. CASE Clear(t)
  <2>1. /\ pc[t] = "recover" /\ pc[t] \in Inside /\ pc' = [pc EXCEPT ![t] = pc'[t]] /\ pc'[t] = "load"
        /\ Stay /\ UNCHANGED <<log, header, snap, m_epoch, m_seq>>
    BY <1>2, ClearFacts DEF Inside
  <2>2. FilesWhole' /\ Rebuilt' = Rebuilt
    BY <1>1, <2>1 DEF FilesWhole, Rebuilt
  <2>3. FilesFit(t)'
    BY <1>1, <2>1, <2>2 DEF FilesFit
  <2> QED
    BY <2>1, <2>2, <2>3, WholeInside
<1>3. CASE Load(t)
  <2>1. /\ pc[t] = "load" /\ pc[t] \in Inside /\ pc' = [pc EXCEPT ![t] = pc'[t]] /\ pc'[t] = "replay"
        /\ m_data' = Capped(snap.state) /\ m_snapshotEpoch' = snap.epoch /\ m_epoch' = snap.epoch + 1
        /\ Stay /\ UNCHANGED <<log, header, snap, m_seq, local>>
    BY <1>3, LoadFacts DEF Inside
  <2>2. FilesWhole' /\ Rebuilt' = Rebuilt
    BY <1>1, <2>1 DEF FilesWhole, Rebuilt
  <2>3. local'[t].i = 0 /\ m_data' = Rebuilt[0] /\ Rebuilt[Len(log)] = before /\ m_wal
    BY <1>1, <2>1, RebuiltFacts DEF LocalsFit, FilesFit, CallFits
  <2>4. FilesFit(t)'
    BY <1>1, <2>1, <2>2, <2>3 DEF FilesFit
  <2> QED
    BY <2>1, <2>2, <2>4, WholeInside
<1>4. CASE ReplayEntry(t)
  <2> DEFINE i == local[t].i + 1
  <2>1. /\ pc[t] = "replay" /\ pc[t] \in Inside /\ i \in 1..Len(log)
        /\ m_data' = Visit(m_data, log[i], m_snapshotEpoch) /\ local'[t].i = i
        /\ pc' = [pc EXCEPT ![t] = pc'[t]] /\ pc'[t] = "replay"
        /\ Stay /\ UNCHANGED persistent
    BY <1>4, ReplayEntryFacts DEF Inside
  <2>2. m_data = Rebuilt[i - 1] /\ m_snapshotEpoch = snap.epoch /\ m_wal /\ Rebuilt[Len(log)] = before
    <3>1. local[t].i \in Nat
      BY ThreadFacts
    <3>2. i - 1 = local[t].i
      BY <3>1
    <3> QED
      BY <1>1, <2>1, <3>2 DEF FilesFit, CallFits
  <2> HIDE DEF i
  <2>3. m_data' = Rebuilt[i]
    BY <1>1, <2>1, <2>2, RebuiltFacts
  <2>4. FilesWhole' /\ Rebuilt' = Rebuilt /\ UNCHANGED <<log, snap, m_snapshotEpoch>>
    BY <1>1, <2>1, SameFiles
  <2>5. FilesFit(t)'
    BY <1>1, <2>1, <2>2, <2>3, <2>4 DEF FilesFit
  <2> QED
    BY <2>1, <2>4, <2>5, WholeInside
<1>5. CASE Recovered(t)
  <2>1. /\ pc[t] = "replay" /\ pc[t] \in Inside /\ (header = "whole" => local[t].i = Len(log))
        /\ m_seq' = local[t].i /\ Finish(t, done) /\ Unlock(t)
        /\ UNCHANGED <<m_data, log, header, snap, m_epoch>>
    BY <1>5, RecoveredFacts DEF Inside
  <2>2. local[t].i = Len(log)
    BY <1>1, <2>1 DEF FilesWhole
  <2>3. FilesWhole' /\ Rebuilt' = Rebuilt
    BY <1>1, <2>1, <2>2 DEF FilesWhole, Rebuilt
  <2>4. Rebuilt[Len(log)] = m_data
    BY <1>1, <2>1, <2>2 DEF FilesFit
  <2> QED
    BY <2>1, <2>3, <2>4, WholeEnd
<1> QED
  BY <1>2, <1>3, <1>4, <1>5

(* A constructed engine holds what its snapshot gives. *)
LEMMA InStepInit ==
    Init => InStep
<1> SUFFICES ASSUME Init
             PROVE  Whole
  BY DEF InStep
<1>1. /\ snap.state \in {NoData} \cup OldContents /\ m_data = Capped(snap.state) /\ log = <<>>
      /\ header = "whole" /\ m_seq = 0 /\ m_epoch = snap.epoch + 1
      /\ \A t \in Threads : pc[t] = "idle"
  BY InitialFiles DEF Init
<1>2. m_data \in Contents /\ Len(log) = 0 /\ 1..Len(log) = {}
  BY <1>1, OldContentsFacts, CappedFacts
<1>3. Rebuilt[Len(log)] = m_data
  <2>1. Replayed(m_data, log, snap.epoch)[0] = m_data
    BY <1>2, ReplayedFacts
  <2> QED
    BY <1>1, <1>2, <2>1 DEF Rebuilt
<1>4. FilesWhole /\ \A t \in Threads : FilesFit(t)
  BY <1>1, <1>2 DEF FilesWhole, FilesFit
<1> QED
  BY <1>3, <1>4 DEF Whole

(* Every step keeps map and files in step, or makes them suspect. *)
LEMMA InStepStep ==
    Base /\ Held /\ InStep /\ [Next]_vars => InStep'
<1> SUFFICES ASSUME Base, Held, InStep, [Next]_vars, ~suspect'
             PROVE  Whole'
  BY DEF InStep
<1>1. ASSUME suspect' = suspect
      PROVE  Whole
  BY <1>1 DEF InStep
<1>2. ASSUME UNCHANGED persistent
      PROVE  Whole
  BY <1>1, <1>2, SameFiles
<1>3. CASE UNCHANGED vars
  <2>1. Whole /\ UNCHANGED <<m_wal, m_data, persistent, owner, pc, call, local, before>>
    BY <1>2, <1>3 DEF vars, lock, threadVars
  <2>2. FilesWhole' /\ Rebuilt' = Rebuilt /\ UNCHANGED <<log, snap, m_snapshotEpoch>>
    BY <2>1, SameFiles DEF Whole
  <2>3. \A t \in Threads : FilesFit(t)'
    BY <2>1, <2>2 DEF Whole, FilesFit, NewRecord
  <2> QED
    BY <2>1, <2>2, <2>3 DEF Whole
<1>4. ASSUME NEW t \in Threads, Outer(t)
      PROVE  Whole'
  BY <1>2, <1>4, WholeOuter DEF Outer
<1>5. ASSUME NEW t \in Threads, NEW answer, Leaves(t, answer)
      PROVE  Whole'
  BY <1>2, <1>5, WholeLeaves DEF Leaves
<1>6. ASSUME NEW t \in Threads, NEW answer, Breaks(t, answer) \/ LoadFails(t)
      PROVE  FALSE
  BY <1>6 DEF Breaks, LoadFails
<1>7. ASSUME NEW t \in Threads, ReadClock(t) \/ Evict(t) \/ Emplace(t) \/ Erase(t)
      PROVE  Whole'
  BY <1>2, <1>7, ReadClockFacts, EvictStepFacts, EmplaceFacts, EraseStepFacts, WholeMapping
<1>8. ASSUME NEW t \in Threads, AppendEntry(t) \/ Save(t)
      PROVE  Whole'
  BY <1>1, <1>8, AppendEntryFacts, SaveFacts, WholeAppending, WholeSaving
<1>9. ASSUME NEW t \in Threads, Rotate(t)
      PROVE  Whole'
  BY <1>9, WholeRotating
<1>10. ASSUME NEW t \in Threads, Clear(t) \/ Load(t) \/ ReplayEntry(t) \/ Recovered(t)
       PROVE  Whole'
  BY <1>1, <1>2, <1>10, ClearFacts, LoadFacts, ReplayEntryFacts, RecoveredFacts, WholeRecovering
<1> QED
  BY <1>3, <1>4, <1>5, <1>6, <1>7, <1>8, <1>9, <1>10, StepKinds

(* With nobody inside, the snapshot and the log give the map: the threads  *)
(* reach the log in the order in which they reach the map.  Failures that  *)
(* leave the files as they were do not come between, nor does a recover(); *)
(* after the others it is so again when a snapshot() has returned.         *)
THEOREM LogAndMapAgree ==
    Spec => []LogGivesMap
<1>1. Init => Base /\ Held /\ InStep
  BY BaseInit, HeldInit, InStepInit
<1>2. Base /\ Held /\ InStep /\ [Next]_vars => (Base /\ Held /\ InStep)'
  BY BaseStep, HeldStep, InStepStep
<1>3. InStep => LogGivesMap
  BY DEF InStep, Whole, LogGivesMap
<1> QED
  BY <1>1, <1>2, <1>3, PTL DEF Spec

-----------------------------------------------------------------------------
(* getAverage() and the abstract store. *)

(* The contents of the abstract store: what the next thread will find. *)
Shown == IF owner = NoThread THEN m_data ELSE before

(* What a call answers. *)
LEMMA AnswerFacts ==
    ASSUME NEW c
    PROVE  /\ c.name = "remove" => Atomic!Answer(c) = (Shown[c.key] # <<>>)
           /\ c.name = "get" => Atomic!Answer(c) = Atomic!get(Shown, c.key)
           /\ c.name = "getAverage" => Atomic!Answer(c) = Atomic!Average(Shown, c.key)
           /\ c.name = "historyCount" => Atomic!Answer(c) = Atomic!historyCount(Shown, c.key)
           /\ c.name = "count" => Atomic!Answer(c) = Atomic!count(Shown)
           /\ c.name \in {"set", "snapshot", "recover"} => Atomic!Answer(c) = done
<1>1. ASSUME c.name = "remove" PROVE Atomic!Answer(c) = (Shown[c.key] # <<>>)
  BY <1>1, Zenon DEF Atomic!Answer, Shown
<1>2. ASSUME c.name = "get" PROVE Atomic!Answer(c) = Atomic!get(Shown, c.key)
  BY <1>2, Zenon DEF Atomic!Answer, Shown
<1>3. ASSUME c.name = "getAverage" PROVE Atomic!Answer(c) = Atomic!Average(Shown, c.key)
  BY <1>3, Zenon DEF Atomic!Answer, Shown
<1>4. ASSUME c.name = "historyCount" PROVE Atomic!Answer(c) = Atomic!historyCount(Shown, c.key)
  BY <1>4, Zenon DEF Atomic!Answer, Shown
<1>5. ASSUME c.name = "count" PROVE Atomic!Answer(c) = Atomic!count(Shown)
  BY <1>5, Zenon DEF Atomic!Answer, Shown
<1>6. ASSUME c.name \in {"set", "snapshot", "recover"} PROVE Atomic!Answer(c) = done
  <2>1. c.name # "remove" /\ c.name # "get" /\ c.name # "getAverage" /\ c.name # "historyCount" /\ c.name # "count"
    BY <1>6
  <2> QED
    BY <2>1, Zenon DEF Atomic!Answer, Shown
<1> QED
  BY <1>1, <1>2, <1>3, <1>4, <1>5, <1>6

(* And what it makes of the contents. *)
LEMMA EffectFacts ==
    ASSUME NEW c, NEW now
    PROVE  /\ c.name = "set" =>
                Atomic!Effect(c, now)
                  = appendCapped(Shown, c.key, [value |-> c.value, duration |-> c.duration, timestamp |-> now])
           /\ c.name = "remove" => Atomic!Effect(c, now) = erase(Shown, c.key)
           /\ c.name \notin {"set", "remove"} => Atomic!Effect(c, now) = Shown
<1>0. /\ \A d, k, r : Atomic!appendCapped(d, k, r) = appendCapped(d, k, r)
      /\ \A d, k : Atomic!erase(d, k) = erase(d, k)
  BY DEF Atomic!appendCapped, Atomic!evict, Atomic!CapReached, Atomic!kUnlimitedHistory,
         Atomic!erase, appendCapped, evict, CapReached, kUnlimitedHistory, erase
<1>1. ASSUME c.name = "set"
      PROVE  Atomic!Effect(c, now)
               = appendCapped(Shown, c.key, [value |-> c.value, duration |-> c.duration, timestamp |-> now])
  BY <1>0, <1>1, Zenon DEF Atomic!Effect, Shown
<1>2. ASSUME c.name = "remove" PROVE Atomic!Effect(c, now) = erase(Shown, c.key)
  BY <1>0, <1>2, Zenon DEF Atomic!Effect, Shown
<1>3. ASSUME c.name # "set", c.name # "remove" PROVE Atomic!Effect(c, now) = Shown
  BY <1>3, Zenon DEF Atomic!Effect, Shown
<1> QED
  BY <1>1, <1>2, <1>3

(* An exception from a ~Timer() may end the process at any place of the    *)
(* writer: what the files give is what it found, or what its call leaves.  *)
(* Between append() and emplace_back() it is what the call leaves, and     *)
(* between the snapshot's rename and the log's truncation what it found.   *)
THEOREM TerminateSafe ==
    Spec => []TerminateLosesNothing
<1>1. Init => Base /\ Held /\ InStep
  BY BaseInit, HeldInit, InStepInit
<1>2. Base /\ Held /\ InStep /\ [Next]_vars => (Base /\ Held /\ InStep)'
  BY BaseStep, HeldStep, InStepStep
<1>3. Base /\ InStep => TerminateLosesNothing
  <2> SUFFICES ASSUME Base, Whole, m_wal
               PROVE  Rebuilt[Len(log)] \in
                        IF owner = NoThread THEN {m_data}
                        ELSE {before, Atomic!Effect(call[owner], local[owner].now)}
    BY DEF InStep, TerminateLosesNothing
  <2>1. CASE owner = NoThread
    BY <2>1 DEF Whole
  <2>2. CASE owner # NoThread
    <3> DEFINE t == owner
               now == local[t].now
    <3>1. t \in Threads /\ pc[t] \in Inside /\ Shown = before
      BY <2>2 DEF Base, Typed, Locked, Shown
    <3>2. CallFits(t) /\ FilesFit(t)
      BY <3>1, ThreadFacts DEF Whole
    <3>3. CASE pc[t] \in {"evict", "emplace"}
      <4>1. Rebuilt[Len(log)] = appendCapped(before, call[t].key, NewRecord(t)) /\ call[t].name = "set"
        BY <3>2, <3>3 DEF FilesFit, CallFits
      <4>2. Atomic!Effect(call[t], now) = appendCapped(before, call[t].key, NewRecord(t))
        BY <3>1, <4>1, EffectFacts DEF NewRecord
      <4> QED
        BY <2>2, <4>1, <4>2
    <3>4. CASE pc[t] = "erase"
      <4>1. Rebuilt[Len(log)] = erase(before, call[t].key) /\ call[t].name = "remove"
        BY <3>2, <3>4 DEF FilesFit, CallFits
      <4>2. Atomic!Effect(call[t], now) = erase(before, call[t].key)
        BY <3>1, <4>1, EffectFacts
      <4> QED
        BY <2>2, <4>1, <4>2
    <3>5. CASE pc[t] \notin {"evict", "emplace", "erase"}
      <4>1. Rebuilt[Len(log)] = before
        BY <3>1, <3>2, <3>5 DEF FilesFit, Inside
      <4> QED
        BY <2>2, <4>1
    <3> QED
      BY <3>3, <3>4, <3>5
  <2> QED
    BY <2>1, <2>2
<1> QED
  BY <1>1, <1>2, <1>3, PTL DEF Spec

(* The sum that getAverage() has after each turn. *)
LEMMA SumsFacts ==
    ASSUME NEW data \in Contents, NEW key \in Keys
    PROVE  /\ Atomic!Sums(data[key])[0] = 0
           /\ \A i \in 1..Len(data[key]) :
                Atomic!Sums(data[key])[i] = Atomic!Sums(data[key])[i - 1] + data[key][i].duration
<1> DEFINE h == data[key]
           n == Len(h)
           g == [i \in (0 + 1)..n |-> [x \in Int |-> x + h[i].duration]]
<1>1. n \in Nat /\ \A i \in 1..n : h[i].duration \in Int
  BY HistoryFacts, ThreadsAssumption DEF Record
<1>2. g \in Turns(Int, 0, n)
  BY <1>1 DEF Turns
<1> HIDE DEF g, n, h
<1>3. Runs(Int, 0, 0, n, g) # {}
  BY <1>1, <1>2, IterationExists
<1>4. PICK f \in [0..n -> Int] : f[0] = 0 /\ \A i \in (0 + 1)..n : f[i] = g[i][f[i - 1]]
  BY <1>3 DEF Runs
<1>5. ASSUME NEW i \in 1..n
      PROVE  f[i] = f[i - 1] + h[i].duration
  <2>1. i - 1 \in 0..n /\ i \in (0 + 1)..n
    BY <1>1
  <2>2. f[i - 1] \in Int /\ f[i] = g[i][f[i - 1]]
    BY <1>4, <2>1
  <2>3. g[i] = [x \in Int |-> x + h[i].duration]
    BY <2>1 DEF g
  <2> QED
    BY <2>2, <2>3
<1>6. f = [i \in 0..n |-> IF i = 0 THEN 0 ELSE f[i - 1] + h[i].duration]
  BY <1>1, <1>4, <1>5
<1> DEFINE r == Atomic!Sums(h)
<1>7. r = [i \in 0..n |-> IF i = 0 THEN 0 ELSE r[i - 1] + h[i].duration]
  BY <1>6 DEF Atomic!Sums, n
<1> HIDE DEF r
<1>8. r[0] = 0 /\ \A i \in 1..n : r[i] = r[i - 1] + h[i].duration
  BY <1>1, <1>7
<1> QED
  BY <1>8 DEF r, n, h

(* A step that leaves the map alone, or that a writer does. *)
LEMMA AveragingSame ==
    ASSUME Base, Averaging, NEW t \in Threads, pc'[t] # "getAverage",
           \A s \in Threads : s # t => pc'[s] = pc[s] /\ local'[s] = local[s] /\ call'[s] = call[s],
           m_data' = m_data \/ pc[t] \in Inside
    PROVE  Averaging'
<1>1. CASE m_data' = m_data
  BY <1>1 DEF Averaging
<1>2. CASE pc[t] \in Inside
  BY <1>2, WriterAlone DEF Averaging, Readers
<1> QED
  BY <1>1, <1>2

(* Every step keeps the sums. *)
LEMMA AveragingStep ==
    Base /\ Averaging /\ [Next]_vars => Averaging'
<1> SUFFICES ASSUME Base, Averaging, [Next]_vars
             PROVE  Averaging'
  OBVIOUS
<1> USE DEF At, Goto
<1>1. CASE UNCHANGED vars
  BY <1>1 DEF vars, threadVars, Averaging
<1>2. ASSUME NEW t \in Threads,
             \/ Proceed(t) \/ SystemCallFails(t) \/ EnterScope(t)
             \/ \E c \in Atomic!Calls : Call(t, c) \/ LeaveScope(t, c)
      PROVE  Averaging'
  <2>1. /\ DOMAIN pc = Threads /\ DOMAIN local = Threads /\ DOMAIN call = Threads
        /\ m_data \in Contents /\ CallFits(t) /\ LocalsFit(t)
        /\ local[t] \in [i : Nat, sum : Int, now : Nat]
    BY ThreadFacts
  <2>2. CASE LockShared(t)
    <3>1. /\ pc[t] = "lock" /\ call[t].name \in Readers /\ pc' = [pc EXCEPT ![t] = call[t].name]
          /\ UNCHANGED <<call, local, m_data>>
      BY <2>2 DEF LockShared, steady
    <3>2. local[t] = NoLocals /\ call[t] \in Atomic!Calls
      BY <2>1, <3>1 DEF LocalsFit, CallFits
    <3>3. ASSUME pc'[t] = "getAverage"
          PROVE  /\ local'[t].i \in 0..Len(m_data[call[t].key])
                 /\ local'[t].sum = Atomic!Sums(m_data[call[t].key])[local'[t].i]
      <4>1. call[t].name = "getAverage" /\ call[t].key \in Keys
        BY <2>1, <3>1, <3>2, <3>3, CallFacts
      <4>2. Len(m_data[call[t].key]) \in Nat /\ Atomic!Sums(m_data[call[t].key])[0] = 0
        BY <2>1, <4>1, HistoryFacts, SumsFacts
      <4> QED
        BY <3>1, <3>2, <4>2 DEF NoLocals
    <3>4. \A s \in Threads : s # t => pc'[s] = pc[s]
      BY <2>1, <3>1
    <3> QED
      BY <3>1, <3>3, <3>4 DEF Averaging
  <2>3. CASE AddDuration(t)
    <3> DEFINE h == m_data[call[t].key]
               i == local[t].i + 1
    <3>1. /\ pc[t] = "getAverage" /\ i <= Len(h) /\ UNCHANGED <<call, m_data, pc>>
          /\ local' = [local EXCEPT ![t] = [i |-> i, sum |-> local[t].sum + h[i].duration,
                                            now |-> local[t].now]]
      BY <2>3 DEF AddDuration, steady
    <3>2. call[t] \in Atomic!Calls /\ call[t].name = "getAverage" /\ call[t].key \in Keys
      BY <2>1, <3>1, CallFacts DEF CallFits, Readers
    <3>3. i \in 1..Len(h) /\ i \in 0..Len(h) /\ i - 1 = local[t].i
      BY <2>1, <3>1, <3>2, HistoryFacts
    <3>4. Atomic!Sums(h)[i] = local[t].sum + h[i].duration
      BY <2>1, <3>1, <3>2, <3>3, SumsFacts DEF Averaging
    <3> HIDE DEF h, i
    <3>5. local'[t].i = i /\ local'[t].sum = Atomic!Sums(h)[i]
      BY <2>1, <3>1, <3>4
    <3>6. \A s \in Threads : s # t => local'[s] = local[s]
      BY <2>1, <3>1
    <3> QED
      BY <3>1, <3>3, <3>5, <3>6 DEF Averaging, h
  <2>4. CASE CheckSizes(t)
    BY <2>1, <2>4, AveragingSame DEF CheckSizes, Finish, steady
  <2>5. ASSUME NEW c, Begin(t, c)
        PROVE  Averaging'
    BY <2>1, <2>5, AveragingSame DEF Begin
  <2>6. CASE Return(t)
    BY <2>1, <2>6, AveragingSame DEF Return
  <2>7. CASE Terminate(t) \/ EnterScope(t)
    BY <2>1, <2>7 DEF Terminate, EnterScope, threadVars, Averaging
  <2>8. CASE LockUnique(t)
    <3>1. pc'[t] = call[t].name /\ call[t].name \notin Readers /\ UNCHANGED <<call, local, m_data>>
      BY <2>1, <2>8 DEF LockUnique, steady
    <3>2. pc'[t] # "getAverage" /\ \A s \in Threads : s # t => pc'[s] = pc[s]
      BY <2>1, <2>8, <3>1 DEF LockUnique, Readers
    <3> QED
      BY <3>1, <3>2, AveragingSame
  <2>9. ASSUME NEW answer, Leaves(t, answer) \/ Breaks(t, answer)
        PROVE  Averaging'
    <3>1. Finish(t, answer) /\ m_data' = m_data
      BY <2>9 DEF Leaves, Breaks
    <3> QED
      BY <2>1, <3>1, FinishFacts, AveragingSame
  <2>10. CASE Emplace(t) \/ Erase(t) \/ Rotate(t) \/ Recovered(t)
    <3>1. PICK answer : Finish(t, answer)
      BY <2>10, EmplaceFacts, EraseStepFacts, RotateFacts, RecoveredFacts
    <3>2. pc[t] \in Inside
      BY <2>10, EmplaceFacts, EraseStepFacts, RotateFacts, RecoveredFacts DEF Inside
    <3> QED
      BY <2>1, <3>1, <3>2, FinishFacts, AveragingSame
  <2>11. ASSUME pc[t] \in Inside, pc'[t] \in Inside, OnlyAt(t), Stay
         PROVE  Averaging'
    <3>1. pc'[t] # "getAverage" /\ UNCHANGED call
      BY <2>11 DEF Inside, Stay, steady
    <3>2. \A s \in Threads : s # t => pc'[s] = pc[s] /\ local'[s] = local[s]
      BY <2>1, <2>11 DEF OnlyAt
    <3> QED
      BY <2>11, <3>1, <3>2, AveragingSame
  <2>12. CASE ReadClock(t) \/ AppendEntry(t) \/ Evict(t) \/ Save(t)
    BY <2>11, <2>12, ReadClockFacts, AppendEntryFacts, EvictStepFacts, SaveFacts DEF Inside
  <2>13. CASE Clear(t) \/ Load(t) \/ LoadFails(t) \/ ReplayEntry(t)
    BY <2>11, <2>13, ClearFacts, LoadFacts, LoadFailsFacts, ReplayEntryFacts DEF Inside
  <2>14. CASE SystemCallFails(t)
    BY <2>9, <2>13, <2>14, FailingSteps DEF SystemCallFails
  <2>15. CASE Proceed(t)
    BY <2>2, <2>3, <2>4, <2>6, <2>7, <2>8, <2>9, <2>10, <2>12, <2>13, <2>15, LeavingSteps, FailingSteps
       DEF Proceed
  <2> QED
    BY <1>2, <2>5, <2>7, <2>14, <2>15 DEF Call, LeaveScope
<1> QED
  BY <1>1, <1>2 DEF Next

-----------------------------------------------------------------------------
(* The engine implements the abstract store. *)

(* The invariant under which every step is a step of the store. *)
Invariant == Base /\ Counted /\ Held /\ InStep /\ Averaging

(* Every step keeps it. *)
LEMMA InvariantAlways ==
    Spec => []Invariant
<1>1. Init => Averaging
  BY DEF Init, Averaging
<1>2. Init => Invariant
  BY <1>1, BaseInit, CountedInit, HeldInit, InStepInit DEF Invariant
<1>3. Invariant /\ [Next]_vars => Invariant'
  BY BaseStep, CountedStep, HeldStep, InStepStep, AveragingStep DEF Invariant
<1> QED
  BY <1>2, <1>3, PTL DEF Spec

(* A constructed engine is the store at first. *)
LEMMA AtomicInitially ==
    Init => Atomic!AtomicInit
<1> SUFFICES ASSUME Init
             PROVE  Atomic!AtomicInit
  OBVIOUS
<1>0. snap.state \in {NoData} \cup OldContents /\ m_data = Capped(snap.state)
  BY InitialFiles
<1>1. owner = NoThread /\ Shown \in {NoData} \cup OldContents
  BY <1>0, OldContentsFacts DEF Init, Shown
<1>2. Phase = [t \in Threads |-> "idle"]
  BY DEF Init, Phase
<1> QED
  BY <1>1, <1>2 DEF Init, Atomic!AtomicInit, Shown

(* A thread inside a call that stays there is nothing the store sees. *)
LEMMA Invisible ==
    ASSUME Base, NEW t \in Threads, pc' = [pc EXCEPT ![t] = pc'[t]],
           pc[t] \notin {"idle", "done"}, pc'[t] \notin {"idle", "done"},
           UNCHANGED <<call, result, suspect>>, Shown' = Shown
    PROVE  UNCHANGED Atomic!atomicVars
<1>1. Phase' = Phase
  BY ThreadFacts DEF Phase
<1> QED
  BY <1>1 DEF Atomic!atomicVars, Shown

(* A writer that stays inside shows what it found. *)
LEMMA InvisibleInside ==
    ASSUME Base, NEW t \in Threads, pc' = [pc EXCEPT ![t] = pc'[t]],
           pc[t] \in Inside, pc'[t] \notin {"idle", "done"}, Stay, suspect' = suspect
    PROVE  UNCHANGED Atomic!atomicVars
<1>1. Shown' = Shown
  BY WriterAlone, ThreadFacts DEF Shown, Stay, lock
<1>2. UNCHANGED <<call, result>>
  BY DEF Stay, steady
<1>3. pc[t] \notin {"idle", "done"}
  BY PlaceFacts
<1> QED
  BY <1>1, <1>2, <1>3, Invisible

(* The end of a call is the instant at which the store performs it. *)
LEMMA PerformStep ==
    ASSUME Base, NEW t \in Threads, NEW answer, Finish(t, answer), pc[t] \notin {"idle", "done"},
           \/ /\ answer = Atomic!Answer(call[t])
              /\ \E now \in 1..MaxCalls : Shown' = Atomic!Effect(call[t], now)
              /\ suspect' = (suspect /\ call[t].name # "snapshot")
           \/ /\ call[t].name \in {"set", "remove", "snapshot"} /\ answer = threw
              /\ Shown' = Shown /\ suspect' \in {suspect, TRUE}
           \/ /\ call[t].name = "recover" /\ answer \in {done, threw}
              /\ Shown' \in Contents /\ suspect' = TRUE
    PROVE  Atomic!Perform(t)
<1>1. /\ pc' = [pc EXCEPT ![t] = pc'[t]] /\ pc'[t] = "done" /\ UNCHANGED call
      /\ result' = [result EXCEPT ![t] = answer]
  BY FinishFacts DEF Finish
<1>2. Phase[t] = "pending" /\ Phase' = [Phase EXCEPT ![t] = "done"]
  BY <1>1, ThreadFacts DEF Phase
<1>3. Atomic!Contents = Contents
  BY DEF Atomic!Contents, Contents, Atomic!Record, Record
<1>4. CASE /\ answer = Atomic!Answer(call[t])
           /\ \E now \in 1..MaxCalls : Shown' = Atomic!Effect(call[t], now)
           /\ suspect' = (suspect /\ call[t].name # "snapshot")
  BY <1>1, <1>2, <1>4, Zenon DEF Atomic!Perform, Shown
<1>5. CASE /\ call[t].name \in {"set", "remove", "snapshot"} /\ answer = threw
           /\ Shown' = Shown /\ suspect' \in {suspect, TRUE}
  BY <1>1, <1>2, <1>5, Zenon DEF Atomic!Perform, Shown
<1>6. CASE /\ call[t].name = "recover" /\ answer \in {done, threw}
           /\ Shown' \in Contents /\ suspect' = TRUE
  BY <1>1, <1>2, <1>3, <1>6, Zenon DEF Atomic!Perform, Shown
<1> QED
  BY <1>4, <1>5, <1>6

(* Unless it ends a snapshot(), a call that returns has not changed what   *)
(* is known of the files.                                                  *)
LEMMA StillSuspect ==
    ASSUME Base, suspect' = suspect, NEW name, name # "snapshot"
    PROVE  suspect' = (suspect /\ name # "snapshot")
BY FileFacts

(* The clock's bound is no empty set while a call is under way. *)
LEMMA SomeStamp ==
    ASSUME Base, NEW t \in Threads, pc[t] # "idle"
    PROVE  1 \in 1..MaxCalls
<1>1. calls \in 0..MaxCalls /\ calls >= 1 /\ MaxCalls \in Nat
  BY ThreadFacts, ThreadsAssumption DEF Base, Typed, CallFits
<1> QED
  BY <1>1

(* A call that does not change the contents, and answers from them. *)
LEMMA PerformReading ==
    ASSUME Base, NEW t \in Threads, NEW answer, Finish(t, answer), pc[t] \notin {"idle", "done"},
           call[t].name \notin {"set", "remove"}, answer = Atomic!Answer(call[t]), Shown' = Shown,
           suspect' = (suspect /\ call[t].name # "snapshot")
    PROVE  Atomic!Perform(t)
<1>1. 1 \in 1..MaxCalls /\ Atomic!Effect(call[t], 1) = Shown
  BY SomeStamp, EffectFacts
<1>2. \E now \in 1..MaxCalls : Shown' = Atomic!Effect(call[t], now)
  BY <1>1
<1> QED
  BY <1>2, PerformStep

(* The readers. *)
LEMMA RefineReading ==
    ASSUME Invariant, NEW t \in Threads, Read(t) \/ Divide(t)
    PROVE  Atomic!Perform(t)
<1> USE DEF At
<1>1. Base /\ CallFits(t) /\ m_data \in Contents /\ local[t] \in [i : Nat, sum : Int, now : Nat]
  BY ThreadFacts DEF Invariant
<1>2. pc[t] \in {"get", "historyCount", "count", "getAverage"} /\ Unlock(t) /\ m_data' = m_data
  BY DEF Read, Divide
<1>9. suspect' = suspect
  BY SameFiles DEF Read, Divide
<1>3. pc[t] \in Readers /\ pc[t] \notin {"idle", "done"}
  BY <1>2 DEF Readers
<1>4. Shown = m_data /\ Shown' = m_data
  BY <1>1, <1>2, <1>3 DEF Shown, Unlock, Base, Locked
<1>5. call[t].name = pc[t] /\ call[t] \in Atomic!Calls
  BY <1>1, <1>3 DEF CallFits
<1>6. ASSUME NEW answer, Finish(t, answer), answer = Atomic!Answer(call[t])
      PROVE  Atomic!Perform(t)
  <2>1. call[t].name \notin {"set", "remove", "snapshot"}
    BY <1>2, <1>5
  <2>2. suspect' = (suspect /\ call[t].name # "snapshot")
    BY <1>1, <1>9, <2>1, StillSuspect
  <2> QED
    BY <1>1, <1>3, <1>4, <1>6, <2>1, <2>2, PerformReading
<1>7. CASE Read(t)
  <2>1. CASE pc[t] = "get" /\ Finish(t, Atomic!get(m_data, call[t].key))
    BY <1>4, <1>5, <1>6, <2>1, AnswerFacts
  <2>2. CASE pc[t] = "historyCount" /\ Finish(t, Atomic!historyCount(m_data, call[t].key))
    BY <1>4, <1>5, <1>6, <2>2, AnswerFacts
  <2>3. CASE pc[t] = "count" /\ Finish(t, Atomic!count(m_data))
    BY <1>4, <1>5, <1>6, <2>3, AnswerFacts
  <2> QED
    BY <1>7, <2>1, <2>2, <2>3 DEF Read
<1>8. CASE Divide(t)
  <2> DEFINE h == m_data[call[t].key]
             answer == IF Len(h) = 0 THEN nullopt ELSE <<local[t].sum, Len(h)>>
  <2>1. pc[t] = "getAverage" /\ local[t].i >= Len(h) /\ Finish(t, answer)
    BY <1>8 DEF Divide
  <2>2. call[t].key \in Keys
    BY <1>5, <2>1, CallFacts
  <2>3. h \in Seq(Record) /\ Len(h) \in Nat
    BY <1>1, <2>2, HistoryFacts
  <2>4. local[t].i \in 0..Len(h) /\ local[t].sum = Atomic!Sums(h)[local[t].i]
    BY <2>1 DEF Invariant, Averaging
  <2>5. local[t].i = Len(h)
    BY <2>1, <2>3, <2>4
  <2>6. h = <<>> <=> Len(h) = 0
    BY <2>3, EmptySeq
  <2>7. answer = Atomic!Average(m_data, call[t].key)
    BY <2>4, <2>5, <2>6 DEF Atomic!Average
  <2>8. Atomic!Answer(call[t]) = Atomic!Average(m_data, call[t].key)
    BY <1>4, <1>5, <2>1, AnswerFacts
  <2> HIDE DEF answer
  <2> QED
    BY <1>6, <2>1, <2>7, <2>8
<1> QED
  BY <1>7, <1>8

(* The writers: their calls take effect when they release the lock. *)
LEMMA RefineWriting ==
    ASSUME Invariant, NEW t \in Threads, Emplace(t) \/ Erase(t) \/ Rotate(t) \/ Recovered(t)
    PROVE  Atomic!Perform(t)
<1>1. /\ Base /\ InStep /\ MapFits(t) /\ CallFits(t) /\ m_data \in Contents /\ before \in Contents
      /\ suspect \in BOOLEAN
  BY ThreadFacts, FileFacts DEF Invariant, Held
<1>2. pc[t] \in Inside /\ pc[t] \notin {"idle", "done"} /\ Unlock(t)
  BY <1>1, EmplaceFacts, EraseStepFacts, RotateFacts, RecoveredFacts DEF Inside
<1>3. Shown = before /\ Shown' = m_data'
  BY <1>1, <1>2, WriterAlone, ThreadFacts DEF Shown, Unlock
<1>4. CASE Emplace(t)
  <2> DEFINE key == call[t].key
             record == NewRecord(t)
  <2>1. /\ pc[t] = "emplace" /\ call[t].name = "set" /\ key \in Keys /\ record \in Record
        /\ record.timestamp = clock /\ clock >= 1
        /\ m_data' = WithRecord(m_data, key, record) /\ Finish(t, done) /\ UNCHANGED persistent
    BY <1>1, <1>4, EmplaceFacts
  <2>2. m_data = evict(before, key)
    BY <1>1, <2>1 DEF MapFits
  <2>3. m_data' = appendCapped(before, key, record)
    <3> HIDE DEF key, record
    <3> QED
      BY <1>1, <2>1, <2>2, AppendCappedFacts
  <2>4. record = [value |-> call[t].value, duration |-> call[t].duration, timestamp |-> clock]
    BY <2>1 DEF NewRecord
  <2>5. Shown' = Atomic!Effect(call[t], clock)
    BY <1>3, <2>1, <2>3, <2>4, EffectFacts
  <2>6. clock \in 1..MaxCalls
    <3>1. Cardinality(Pending) \in Nat /\ clock \in Nat /\ calls \in 0..MaxCalls
      BY FS_CardinalityType DEF Invariant, Counted, Base, Typed
    <3> QED
      BY <2>1, <3>1, ThreadsAssumption DEF Invariant, Counted
  <2>7. done = Atomic!Answer(call[t])
    BY <2>1, AnswerFacts
  <2>8. suspect' = (suspect /\ call[t].name # "snapshot")
    BY <1>1, <2>1, SameFiles, StillSuspect
  <2> QED
    BY <1>1, <1>2, <2>1, <2>5, <2>6, <2>7, <2>8, PerformStep
<1>5. CASE Erase(t)
  <2> DEFINE answer == m_data[call[t].key] # <<>>
  <2>1. /\ pc[t] \in {"erase", "remove"} /\ call[t].name = "remove"
        /\ m_data' = erase(m_data, call[t].key) /\ Finish(t, answer) /\ UNCHANGED persistent
    BY <1>1, <1>5, EraseStepFacts
  <2>2. m_data = before
    BY <1>1, <2>1 DEF MapFits
  <2>3. 1 \in 1..MaxCalls /\ Shown' = Atomic!Effect(call[t], 1)
    BY <1>1, <1>2, <1>3, <2>1, <2>2, SomeStamp, EffectFacts
  <2>4. answer = Atomic!Answer(call[t])
    <3>1. Atomic!Answer(call[t]) = (Shown[call[t].key] # <<>>)
      BY <2>1, AnswerFacts
    <3> QED
      BY <1>3, <2>2, <3>1
  <2> HIDE DEF answer
  <2>5. \E now \in 1..MaxCalls : Shown' = Atomic!Effect(call[t], now)
    BY <2>3
  <2>6. suspect' = (suspect /\ call[t].name # "snapshot")
    BY <1>1, <2>1, SameFiles, StillSuspect
  <2> QED
    BY <1>1, <1>2, <2>1, <2>4, <2>5, <2>6, PerformStep
<1>6. CASE Rotate(t)
  <2>1. pc[t] = "rotate" /\ m_data' = m_data /\ Finish(t, done) /\ suspect' = FALSE
    BY <1>1, <1>6, RotateFacts
  <2>2. m_data = before /\ call[t].name = "snapshot"
    BY <1>1, <2>1 DEF MapFits, CallFits
  <2>3. done = Atomic!Answer(call[t]) /\ Shown' = Shown
    BY <1>3, <2>1, <2>2, AnswerFacts
  <2>4. suspect' = (suspect /\ call[t].name # "snapshot")
    BY <2>1, <2>2
  <2> QED
    BY <1>1, <1>2, <2>1, <2>2, <2>3, <2>4, PerformReading
<1>7. CASE Recovered(t)
  <2>1. /\ pc[t] = "replay" /\ (header = "whole" => local[t].i = Len(log)) /\ m_data' = m_data
        /\ Finish(t, done) /\ suspect' = suspect
    BY <1>1, <1>7, RecoveredFacts
  <2>2. call[t].name = "recover" /\ m_wal
    BY <1>1, <2>1 DEF CallFits
  <2>3. CASE ~suspect
    <3>1. m_data = before
      BY <1>1, <2>1, <2>2, <2>3 DEF InStep, Whole, FilesWhole, FilesFit
    <3>2. done = Atomic!Answer(call[t]) /\ Shown' = Shown
      BY <1>3, <2>1, <2>2, <3>1, AnswerFacts
    <3>3. suspect' = (suspect /\ call[t].name # "snapshot")
      BY <1>1, <2>1, <2>2, StillSuspect
    <3> QED
      BY <1>1, <1>2, <2>1, <2>2, <3>2, <3>3, PerformReading
  <2>4. CASE suspect
    <3>1. suspect' = TRUE
      BY <1>1, <2>1, <2>4
    <3>2. Shown' \in Contents
      BY <1>1, <1>3, <2>1
    <3> QED
      BY <1>1, <1>2, <2>1, <2>2, <3>1, <3>2, PerformStep
  <2> QED
    BY <2>3, <2>4
<1> QED
  BY <1>4, <1>5, <1>6, <1>7

(* The calls of a writer that throw, and those of recover() whose walk     *)
(* ends early.                                                             *)
LEMMA RefineFailing ==
    ASSUME Invariant, NEW t \in Threads, NEW answer, pc[t] \in Inside,
           Leaves(t, answer) \/ Breaks(t, answer)
    PROVE  Atomic!Perform(t)
<1>1. /\ Base /\ InStep /\ MapFits(t) /\ CallFits(t) /\ m_data \in Contents /\ suspect \in BOOLEAN
  BY ThreadFacts, FileFacts DEF Invariant, Held
<1>2. /\ pc[t] \in {"append", "snapshot", "rotate", "replay"} /\ pc[t] \notin Readers
      /\ pc[t] \notin {"idle", "done"}
      /\ Finish(t, answer) /\ Unlock(t) /\ m_data' = m_data
  BY PlaceFacts DEF Leaves, Breaks
<1>3. Shown = before /\ Shown' = m_data
  BY <1>1, <1>2, WriterAlone, ThreadFacts DEF Shown, Unlock
<1>4. answer \in {done, threw} /\ (pc[t] # "replay" => answer = threw)
  BY <1>2 DEF Leaves, Breaks
<1>5. /\ suspect' \in {suspect, TRUE}
      /\ pc[t] = "replay" => suspect' = TRUE
  <2>1. CASE Leaves(t, answer)
    <3>1. suspect' = suspect
      BY <2>1, SameFiles DEF Leaves
    <3>2. ASSUME pc[t] = "replay"
          PROVE  suspect
      BY <1>1, <2>1, <3>2, WholeAccepted DEF Leaves, InStep, Whole
    <3> QED
      BY <1>1, <3>1, <3>2
  <2>2. CASE Breaks(t, answer)
    BY <2>2 DEF Breaks
  <2> QED
    BY <2>1, <2>2
<1>6. CASE pc[t] = "replay"
  <2>1. call[t].name = "recover"
    BY <1>1, <1>6 DEF CallFits
  <2>2. Shown' \in Contents
    BY <1>1, <1>3
  <2> QED
    BY <1>1, <1>2, <1>4, <1>5, <1>6, <2>1, <2>2, PerformStep
<1>7. CASE pc[t] # "replay"
  <2>1. m_data = before /\ call[t].name \in {"set", "remove", "snapshot"}
    BY <1>1, <1>2, <1>7 DEF MapFits, CallFits
  <2>2. Shown' = Shown
    BY <1>3, <2>1
  <2> QED
    BY <1>1, <1>2, <1>4, <1>5, <1>7, <2>1, <2>2, PerformStep
<1> QED
  BY <1>6, <1>7

(* A load() that fails inside a recover() that goes on. *)
LEMMA RefineLoadFails ==
    ASSUME Base, NEW t \in Threads, LoadFails(t)
    PROVE  Atomic!Fail
<1>1. /\ pc[t] = "load" /\ pc' = [pc EXCEPT ![t] = pc'[t]] /\ pc'[t] = "replay"
      /\ suspect' = TRUE /\ Stay
  BY LoadFailsFacts
<1>2. pc[t] \in Inside
  BY <1>1 DEF Inside
<1>3. Shown' = Shown
  BY <1>1, <1>2, WriterAlone, ThreadFacts DEF Shown, Stay, lock
<1>4. UNCHANGED <<call, result>>
  BY <1>1 DEF Stay, steady
<1>5. Phase' = Phase
  BY <1>1, ThreadFacts DEF Phase
<1> QED
  BY <1>1, <1>3, <1>4, <1>5, Zenon DEF Atomic!Fail, Shown

(* The steps of a thread outside m_mutex and on its way in. *)
LEMMA RefineOutside ==
    ASSUME Invariant, NEW t \in Threads,
           \/ Return(t) \/ Terminate(t) \/ CheckSizes(t) \/ LockUnique(t) \/ LockShared(t)
           \/ AddDuration(t) \/ EnterScope(t)
           \/ \E c \in Atomic!Calls : Call(t, c) \/ LeaveScope(t, c)
    PROVE  Atomic!AtomicNext \/ UNCHANGED Atomic!atomicVars
<1> USE DEF At, Goto
<1>1. /\ Base /\ CallFits(t) /\ t # NoThread
      /\ DOMAIN pc = Threads /\ DOMAIN local = Threads
  BY ThreadFacts DEF Invariant
<1>2. CASE Return(t)
  <2>1. /\ pc[t] = "done" /\ pc' = [pc EXCEPT ![t] = "idle"] /\ UNCHANGED <<m_data, owner, before, suspect>>
        /\ call' = [call EXCEPT ![t] = Atomic!NoCall] /\ result' = [result EXCEPT ![t] = done]
    BY <1>2, SameFiles DEF Return, lock
  <2>2. Phase[t] = "done" /\ Phase' = [Phase EXCEPT ![t] = "idle"]
    BY <1>1, <2>1 DEF Phase
  <2>3. Atomic!Return(t)
    BY <2>1, <2>2 DEF Atomic!Return
  <2> QED
    BY <2>3 DEF Atomic!AtomicNext
<1>3. CASE Terminate(t) \/ EnterScope(t)
  <2>1. UNCHANGED <<m_data, owner, before, pc, call, result, suspect>>
    BY <1>3, SameFiles DEF Terminate, EnterScope, lock, threadVars
  <2> QED
    BY <2>1 DEF Atomic!atomicVars, Phase
<1>4. CASE CheckSizes(t)
  <2>1. /\ pc[t] = "check" /\ UNCHANGED <<m_data, owner, before, suspect>>
    BY <1>4, SameFiles DEF CheckSizes, lock
  <2>2. Shown' = Shown /\ call[t].name = "set"
    BY <1>1, <2>1 DEF Shown, CallFits
  <2>3. CASE SizesFit(call[t])
    <3>1. pc' = [pc EXCEPT ![t] = "lock"] /\ UNCHANGED <<call, result>>
      BY <1>4, <2>3 DEF CheckSizes, steady
    <3>2. pc' = [pc EXCEPT ![t] = pc'[t]] /\ pc'[t] = "lock"
      BY <1>1, <3>1
    <3> QED
      BY <1>1, <2>1, <2>2, <3>1, <3>2, Invisible
  <2>4. CASE ~SizesFit(call[t])
    <3>1. Finish(t, threw)
      BY <1>4, <2>4 DEF CheckSizes
    <3>2. Atomic!Perform(t)
      BY <1>1, <2>1, <2>2, <3>1, PerformStep
    <3> QED
      BY <3>2 DEF Atomic!AtomicNext
  <2> QED
    BY <2>3, <2>4
<1>5. CASE LockUnique(t) \/ LockShared(t)
  <2>1. /\ pc[t] = "lock" /\ pc' = [pc EXCEPT ![t] = call[t].name] /\ UNCHANGED <<m_data, call, result, suspect>>
        /\ owner = NoThread
        /\ (owner' = t /\ before' = m_data) \/ UNCHANGED <<owner, before>>
    BY <1>5, SameFiles DEF LockUnique, LockShared, steady
  <2>2. Shown' = Shown
    BY <1>1, <2>1 DEF Shown
  <2>3. call[t] \in Atomic!Calls
    BY <1>1, <2>1 DEF CallFits
  <2>4. pc' = [pc EXCEPT ![t] = pc'[t]] /\ pc'[t] = call[t].name
    BY <1>1, <2>1
  <2>5. pc'[t] \notin {"idle", "done"}
    BY <2>3, <2>4, CallFacts DEF Readers
  <2> QED
    BY <1>1, <2>1, <2>2, <2>4, <2>5, Invisible
<1>6. CASE AddDuration(t)
  <2>1. UNCHANGED <<m_data, owner, before, pc, call, result, suspect>>
    BY <1>6, SameFiles DEF AddDuration, lock, steady
  <2> QED
    BY <2>1 DEF Atomic!atomicVars, Phase
<1>7. ASSUME NEW c \in Atomic!Calls, Call(t, c) \/ LeaveScope(t, c)
      PROVE  Atomic!AtomicNext
  <2>0. Begin(t, c)
    BY <1>7 DEF Call, LeaveScope
  <2>1. /\ pc[t] = "idle" /\ pc' = [pc EXCEPT ![t] = IF c.name = "set" THEN "check" ELSE "lock"]
        /\ UNCHANGED <<m_data, owner, before, result, suspect>> /\ call' = [call EXCEPT ![t] = c]
    BY <2>0, SameFiles DEF Begin, lock
  <2>2. Phase[t] = "idle" /\ Phase' = [Phase EXCEPT ![t] = "pending"]
    BY <1>1, <2>1 DEF Phase
  <2>3. Atomic!Invoke(t, c)
    BY <2>1, <2>2 DEF Atomic!Invoke
  <2> QED
    BY <2>3 DEF Atomic!AtomicNext
<1> QED
  BY <1>2, <1>3, <1>4, <1>5, <1>6, <1>7

(* Every step is a step of the store, or none that it sees. *)
LEMMA RefineStep ==
    Invariant /\ [Next]_vars => [Atomic!AtomicNext]_(Atomic!atomicVars)
<1> SUFFICES ASSUME Invariant, [Next]_vars
             PROVE  Atomic!AtomicNext \/ UNCHANGED Atomic!atomicVars
  OBVIOUS
<1>1. Base
  BY DEF Invariant
<1>2. CASE UNCHANGED vars
  <2>1. UNCHANGED <<m_data, owner, before, pc, call, result, suspect>>
    BY <1>2, SameFiles DEF vars, lock, threadVars
  <2> QED
    BY <2>1 DEF Atomic!atomicVars, Phase
<1>3. ASSUME NEW t \in Threads,
             \/ Proceed(t) \/ SystemCallFails(t) \/ EnterScope(t)
             \/ \E c \in Atomic!Calls : Call(t, c) \/ LeaveScope(t, c)
      PROVE  Atomic!AtomicNext \/ UNCHANGED Atomic!atomicVars
  <2>1. CASE ReadClock(t)
    BY <1>1, <2>1, ReadClockFacts, SameFiles, InvisibleInside DEF Inside
  <2>2. CASE AppendEntry(t)
    BY <1>1, <2>2, AppendEntryFacts, InvisibleInside DEF Inside
  <2>3. CASE Evict(t)
    BY <1>1, <2>3, EvictStepFacts, SameFiles, InvisibleInside DEF Inside
  <2>4. CASE Save(t)
    BY <1>1, <2>4, SaveFacts, InvisibleInside DEF Inside
  <2>5. CASE Clear(t)
    BY <1>1, <2>5, ClearFacts, InvisibleInside DEF Inside
  <2>6. CASE Load(t)
    BY <1>1, <2>6, LoadFacts, InvisibleInside DEF Inside
  <2>7. CASE ReplayEntry(t)
    <3>1. pc' = [pc EXCEPT ![t] = pc'[t]] /\ pc[t] = "replay" /\ pc'[t] = "replay" /\ Stay
          /\ suspect' = suspect
      BY <1>1, <2>7, ReplayEntryFacts, SameFiles
    <3> QED
      BY <1>1, <3>1, InvisibleInside DEF Inside
  <2>8. CASE Read(t) \/ Divide(t)
    BY <2>8, RefineReading DEF Atomic!AtomicNext
  <2>9. CASE Emplace(t) \/ Erase(t) \/ Rotate(t) \/ Recovered(t)
    BY <2>9, RefineWriting DEF Atomic!AtomicNext
  <2>10. CASE LoadFails(t)
    BY <1>1, <2>10, RefineLoadFails DEF Atomic!AtomicNext
  <2>11. CASE AppendRefuses(t) \/ SnapshotRefused(t) \/ RecoverThrows(t) \/ FindsTorn(t)
              \/ AppendFails(t) \/ SaveFails(t) \/ RotateFails(t) \/ StatFails(t) \/ ReadFails(t)
    <3>1. PICK answer : Leaves(t, answer) \/ Breaks(t, answer)
      BY <1>1, <2>11, LeavingSteps, FailingSteps
    <3>2. pc[t] \in {"append", "snapshot", "rotate", "replay"}
      BY <2>11 DEF AppendRefuses, SnapshotRefused, RecoverThrows, FindsTorn, AppendFails, SaveFails,
                   RotateFails, StatFails, ReadFails, InLoop, At
    <3>3. Atomic!Perform(t)
      BY <3>1, <3>2, RefineFailing DEF Inside
    <3> QED
      BY <3>3 DEF Atomic!AtomicNext
  <2>12. CASE SystemCallFails(t)
    BY <2>10, <2>11, <2>12 DEF SystemCallFails
  <2>13. CASE Proceed(t)
    BY <2>1, <2>2, <2>3, <2>4, <2>5, <2>6, <2>7, <2>8, <2>9, <2>11, <2>13, RefineOutside DEF Proceed
  <2> QED
    BY <1>3, <2>12, <2>13, RefineOutside
<1> QED
  BY <1>2, <1>3 DEF Next

(* The engine is linearizable: for any number of threads and calls, and    *)
(* whatever fails, every answer is that of a store whose calls take effect *)
(* one at a time.  That recover() rebuilds what was there is a part of it  *)
(* as long as no call has failed half done.                                *)
THEOREM EngineIsAtomic ==
    Spec => Linearizable
<1>1. Spec => []Invariant
  BY InvariantAlways
<1>2. Init => Atomic!AtomicInit
  BY AtomicInitially
<1>3. Invariant /\ [Next]_vars => [Atomic!AtomicNext]_(Atomic!atomicVars)
  BY RefineStep
<1> QED
  BY <1>1, <1>2, <1>3, PTL DEF Spec, Linearizable, Atomic!AtomicSpec

=============================================================================
