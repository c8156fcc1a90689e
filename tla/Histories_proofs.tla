-------------------------- MODULE Histories_proofs --------------------------
(***************************************************************************)
(* Facts about the contents of the store and about the loops over a log or *)
(* a history, for every set of keys, values and durations and every cap.   *)
(***************************************************************************)
EXTENDS Histories, Iteration_proofs, SequenceTheorems

-----------------------------------------------------------------------------
(* What the helpers that change the contents preserve. *)

(* The contents that respect the history cap. *)
WithinCap(data) ==
    m_maxHistoryPerKey # kUnlimitedHistory
      => \A key \in Keys : Len(data[key]) <= m_maxHistoryPerKey

(* An entry of a log from which recover() can rebuild a record. *)
Loggable(body) ==
    /\ body.key \in Keys /\ body.timestamp \in Nat
    /\ body.type = "PUT" =>
         \E duration \in Durations, value \in Values : body.blob = serialize(duration, value)

(* What every history of the contents has: its elements are records. *)
LEMMA HistoryFacts ==
    ASSUME NEW data \in Contents, NEW key \in Keys
    PROVE  /\ data[key] \in Seq(Record)
           /\ Len(data[key]) \in Nat
           /\ \A i \in 1..Len(data[key]) : data[key][i] \in Record /\ data[key][i].timestamp \in Nat
<1>1. data[key] \in Seq(Record) /\ Len(data[key]) \in Nat
  BY LenProperties DEF Contents
<1>2. \A i \in 1..Len(data[key]) : data[key][i] \in Record
  BY <1>1, ElementOfSeq
<1> QED
  BY <1>1, <1>2 DEF Record

(* The empty map. *)
LEMMA NoDataFacts ==
    NoData \in Contents /\ WithinCap(NoData)
BY CapAssumption DEF NoData, Contents, WithinCap, kUnlimitedHistory

(* evict() drops at most the oldest record of one key. *)
LEMMA EvictFacts ==
    ASSUME NEW data \in Contents, NEW key \in Keys
    PROVE  /\ evict(data, key) \in Contents
           /\ \A k \in Keys : k # key => evict(data, key)[k] = data[k]
           /\ evict(data, key)[key]
                = IF CapReached(data[key]) THEN Tail(data[key]) ELSE data[key]
<1>1. evict(data, key) = [data EXCEPT ![key] = IF CapReached(data[key]) THEN Tail(data[key])
                                                                        ELSE data[key]]
  BY DEF evict, Contents
<1>2. CapReached(data[key]) => data[key] # <<>>
  BY CapAssumption DEF CapReached, kUnlimitedHistory
<1>3. CapReached(data[key]) => Tail(data[key]) \in Seq(Record)
  BY <1>2, HistoryFacts, HeadTailProperties
<1> QED
  BY <1>1, <1>3 DEF Contents

(* So it keeps the cap. *)
LEMMA EvictCap ==
    ASSUME NEW data \in Contents, NEW key \in Keys, WithinCap(data)
    PROVE  WithinCap(evict(data, key))
<1> SUFFICES ASSUME m_maxHistoryPerKey # kUnlimitedHistory, NEW k \in Keys
             PROVE  Len(evict(data, key)[k]) <= m_maxHistoryPerKey
  BY DEF WithinCap
<1>1. data[k] \in Seq(Record) /\ Len(data[k]) \in Nat /\ Len(data[k]) <= m_maxHistoryPerKey
  BY HistoryFacts DEF WithinCap
<1>2. CapReached(data[k]) => data[k] # <<>>
  BY CapAssumption DEF CapReached, kUnlimitedHistory
<1>3. CapReached(data[k]) => Len(Tail(data[k])) = Len(data[k]) - 1
  BY <1>1, <1>2, HeadTailProperties
<1>4. evict(data, key)[k] = data[k] \/ (CapReached(data[k]) /\ evict(data, key)[k] = Tail(data[k]))
  BY EvictFacts
<1>5. CASE evict(data, key)[k] = data[k]
  BY <1>1, <1>5
<1>6. CASE CapReached(data[k]) /\ evict(data, key)[k] = Tail(data[k])
  BY <1>1, <1>3, <1>6, CapAssumption
<1> QED
  BY <1>4, <1>5, <1>6

(* A record behind the history of one key. *)
WithRecord(data, key, record) == [data EXCEPT ![key] = Append(@, record)]

(* What emplace_back() changes. *)
LEMMA WithRecordFacts ==
    ASSUME NEW data \in Contents, NEW key \in Keys, NEW record \in Record
    PROVE  /\ WithRecord(data, key, record) \in Contents
           /\ \A k \in Keys : k # key => WithRecord(data, key, record)[k] = data[k]
           /\ Len(WithRecord(data, key, record)[key]) = Len(data[key]) + 1
           /\ WithRecord(data, key, record)[key][Len(data[key]) + 1] = record
           /\ \A i \in 1..Len(data[key]) : WithRecord(data, key, record)[key][i] = data[key][i]
<1>1. data[key] \in Seq(Record) /\ key \in DOMAIN data
  BY DEF Contents
<1>2. /\ Append(data[key], record) \in Seq(Record)
      /\ Len(Append(data[key], record)) = Len(data[key]) + 1
      /\ Append(data[key], record)[Len(data[key]) + 1] = record
      /\ \A i \in 1..Len(data[key]) : Append(data[key], record)[i] = data[key][i]
  BY <1>1, AppendProperties
<1> QED
  BY <1>1, <1>2 DEF Contents, WithRecord

(* appendCapped() keeps the types and the cap. *)
LEMMA AppendCappedFacts ==
    ASSUME NEW data \in Contents, NEW key \in Keys, NEW record \in Record
    PROVE  /\ appendCapped(data, key, record) \in Contents
           /\ appendCapped(data, key, record) = WithRecord(evict(data, key), key, record)
           /\ WithinCap(data) => WithinCap(appendCapped(data, key, record))
<1> DEFINE rest == evict(data, key)
           after == appendCapped(data, key, record)
<1>1. /\ rest \in Contents
      /\ \A k \in Keys : k # key => rest[k] = data[k]
      /\ rest[key] = IF CapReached(data[key]) THEN Tail(data[key]) ELSE data[key]
  BY EvictFacts
<1>2. after = WithRecord(rest, key, record)
  BY DEF appendCapped, WithRecord
<1> HIDE DEF rest, after
<1>3. /\ after \in Contents
      /\ \A k \in Keys : k # key => after[k] = rest[k]
      /\ Len(after[key]) = Len(rest[key]) + 1
  BY <1>1, <1>2, WithRecordFacts
<1>4. ASSUME WithinCap(data), m_maxHistoryPerKey # kUnlimitedHistory
      PROVE  Len(rest[key]) + 1 <= m_maxHistoryPerKey
  <2>1. /\ data[key] \in Seq(Record) /\ Len(data[key]) \in Nat
        /\ m_maxHistoryPerKey \in Nat \ {0} /\ Len(data[key]) <= m_maxHistoryPerKey
    BY <1>4, HistoryFacts, CapAssumption DEF WithinCap, kUnlimitedHistory
  <2>2. CASE CapReached(data[key])
    <3>1. Len(data[key]) = m_maxHistoryPerKey /\ data[key] # <<>>
      BY <2>1, <2>2 DEF CapReached
    <3>2. Len(Tail(data[key])) = Len(data[key]) - 1
      BY <2>1, <3>1, HeadTailProperties
    <3> QED
      BY <1>1, <2>1, <2>2, <3>1, <3>2
  <2>3. CASE ~CapReached(data[key])
    BY <1>1, <1>4, <2>1, <2>3 DEF CapReached
  <2> QED
    BY <2>2, <2>3
<1>5. WithinCap(data) => WithinCap(after)
  BY <1>1, <1>3, <1>4 DEF WithinCap
<1> QED
  BY <1>2, <1>3, <1>5 DEF rest, after

(* erase() *)
LEMMA EraseFacts ==
    ASSUME NEW data \in Contents, NEW key \in Keys
    PROVE  /\ erase(data, key) \in Contents
           /\ \A k \in Keys : erase(data, key)[k] = IF k = key THEN <<>> ELSE data[k]
           /\ WithinCap(data) => WithinCap(erase(data, key))
<1>1. /\ erase(data, key) \in Contents
      /\ \A k \in Keys : erase(data, key)[k] = IF k = key THEN <<>> ELSE data[k]
  BY DEF erase, Contents
<1> QED
  BY <1>1, CapAssumption DEF WithinCap, kUnlimitedHistory

(* A history that is the end of another one. *)
NewestOf(some, all) ==
    \E d \in Nat : /\ Len(some) + d = Len(all)
                  /\ \A i \in 1..Len(some) : some[i] = all[i + d]

(* Loading a snapshot keeps the newest records, and all of them when the   *)
(* contents respect the cap already.                                       *)
LEMMA CappedFacts ==
    ASSUME NEW data \in Contents
    PROVE  /\ Capped(data) \in Contents
           /\ WithinCap(Capped(data))
           /\ WithinCap(data) => Capped(data) = data
           /\ \A key \in Keys : NewestOf(Capped(data)[key], data[key])
<1>1. ASSUME NEW key \in Keys
      PROVE  /\ Newest(data[key]) \in Seq(Record)
             /\ m_maxHistoryPerKey # kUnlimitedHistory
                  => Len(Newest(data[key])) <= m_maxHistoryPerKey
             /\ NewestOf(Newest(data[key]), data[key])
  <2> DEFINE h == data[key]
             n == Len(h)
  <2>1. h \in Seq(Record) /\ n \in Nat /\ \A i \in 1..n : h[i] \in Record
    BY HistoryFacts
  <2>2. CASE m_maxHistoryPerKey = kUnlimitedHistory \/ n <= m_maxHistoryPerKey
    <3>1. Newest(h) = h
      BY <2>2 DEF Newest
    <3>2. NewestOf(h, h)
      <4>1. Len(h) + 0 = n /\ \A i \in 1..n : h[i] = h[i + 0]
        BY <2>1
      <4> QED
        BY <4>1 DEF NewestOf
    <3> QED
      BY <2>1, <2>2, <3>1, <3>2
  <2>3. CASE m_maxHistoryPerKey # kUnlimitedHistory /\ n > m_maxHistoryPerKey
    <3> DEFINE d == n - m_maxHistoryPerKey
    <3>1. /\ m_maxHistoryPerKey \in Nat \ {0} /\ d \in Nat /\ d + m_maxHistoryPerKey = n
          /\ ~(n <= m_maxHistoryPerKey) /\ d + 1 \in 1..n
      BY <2>1, <2>3, CapAssumption DEF kUnlimitedHistory
    <3>2. Newest(h) = SubSeq(h, d + 1, n)
      BY <2>1, <2>3, <3>1 DEF Newest
    <3>3. \A i \in (d + 1)..n : h[i] \in Record
      BY <2>1, <3>1
    <3> HIDE DEF d, n, h
    <3>4. /\ SubSeq(h, d + 1, n) \in Seq(Record)
          /\ Len(SubSeq(h, d + 1, n)) = IF d + 1 <= n THEN n - (d + 1) + 1 ELSE 0
          /\ \A i \in 1..(n - (d + 1) + 1) : SubSeq(h, d + 1, n)[i] = h[(d + 1) + i - 1]
      BY <2>1, <3>1, <3>3, SubSeqProperties
    <3>5. n - (d + 1) + 1 = m_maxHistoryPerKey /\ d + 1 <= n
      BY <2>1, <3>1
    <3>6. Len(Newest(h)) = m_maxHistoryPerKey
      BY <3>2, <3>4, <3>5
    <3>7. \A i \in 1..m_maxHistoryPerKey : Newest(h)[i] = h[i + d]
      <4> TAKE i \in 1..m_maxHistoryPerKey
      <4>1. Newest(h)[i] = h[(d + 1) + i - 1]
        BY <3>2, <3>4, <3>5
      <4>2. (d + 1) + i - 1 = i + d
        BY <2>1, <3>1
      <4> QED
        BY <4>1, <4>2
    <3>8. Newest(h) \in Seq(Record) /\ m_maxHistoryPerKey + d = n
      BY <3>1, <3>2, <3>4
    <3>9. NewestOf(Newest(h), h)
      BY <3>1, <3>6, <3>7, <3>8 DEF n, NewestOf
    <3> QED
      BY <3>1, <3>6, <3>8, <3>9 DEF n, h
  <2> QED
    BY <2>1, <2>2, <2>3, CapAssumption
<1>2. Capped(data) \in Contents /\ \A key \in Keys : Capped(data)[key] = Newest(data[key])
  BY <1>1 DEF Capped, Contents
<1>3. WithinCap(data) => Capped(data) = data
  <2>1. WithinCap(data) => \A key \in Keys : Newest(data[key]) = data[key]
    BY DEF WithinCap, Newest
  <2> QED
    BY <1>2, <2>1 DEF Contents
<1>4. WithinCap(Capped(data))
  BY <1>1, <1>2 DEF WithinCap
<1> QED
  BY <1>1, <1>2, <1>3, <1>4

-----------------------------------------------------------------------------
(* The order of the timestamps. *)

(* The histories are in the order of their timestamps, and none of these   *)
(* is after a given time.                                                  *)
InOrder(data) ==
    \A key \in Keys : \A i, j \in 1..Len(data[key]) :
      i < j => data[key][i].timestamp <= data[key][j].timestamp

NotAfter(data, time) ==
    \A key \in Keys : \A i \in 1..Len(data[key]) : data[key][i].timestamp <= time

(* Evicting the oldest record keeps the others in order. *)
LEMMA EvictOrder ==
    ASSUME NEW data \in Contents, NEW key \in Keys, InOrder(data)
    PROVE  /\ InOrder(evict(data, key))
           /\ \A time : NotAfter(data, time) => NotAfter(evict(data, key), time)
<1> DEFINE rest == evict(data, key)
<1>1. /\ \A k \in Keys : k # key => rest[k] = data[k]
      /\ rest[key] = IF CapReached(data[key]) THEN Tail(data[key]) ELSE data[key]
  BY EvictFacts
<1>2. data[key] \in Seq(Record) /\ Len(data[key]) \in Nat
  BY HistoryFacts
<1>3. CapReached(data[key]) => data[key] # <<>>
  BY CapAssumption DEF CapReached, kUnlimitedHistory
<1>4. CapReached(data[key])
        => /\ Len(Tail(data[key])) = Len(data[key]) - 1
           /\ \A i \in 1..Len(Tail(data[key])) : Tail(data[key])[i] = data[key][i + 1]
  BY <1>2, <1>3, HeadTailProperties
<1> HIDE DEF rest
<1>5. \E d \in {0, 1} : /\ Len(rest[key]) = Len(data[key]) - d
                        /\ \A i \in 1..Len(rest[key]) : rest[key][i] = data[key][i + d]
  <2>1. CASE CapReached(data[key])
    BY <1>1, <1>4, <2>1
  <2>2. CASE ~CapReached(data[key])
    <3>1. /\ Len(rest[key]) = Len(data[key]) - 0
          /\ \A i \in 1..Len(rest[key]) : rest[key][i] = data[key][i + 0]
      BY <1>1, <1>2, <2>2
    <3> QED
      BY <3>1
  <2> QED
    BY <2>1, <2>2
<1>6. PICK d \in {0, 1} : /\ Len(rest[key]) = Len(data[key]) - d
                          /\ \A i \in 1..Len(rest[key]) : rest[key][i] = data[key][i + d]
  BY <1>5
<1>7. \A i \in 1..Len(rest[key]) : i + d \in 1..Len(data[key])
  BY <1>2, <1>6
<1>8. ASSUME NEW i \in 1..Len(rest[key]), NEW j \in 1..Len(rest[key]), i < j
      PROVE  rest[key][i].timestamp <= rest[key][j].timestamp
  <2>1. i + d \in 1..Len(data[key]) /\ j + d \in 1..Len(data[key]) /\ i + d < j + d
    BY <1>7, <1>8
  <2>2. data[key][i + d].timestamp <= data[key][j + d].timestamp
    BY <2>1 DEF InOrder
  <2> QED
    BY <1>6, <2>2
<1>9. InOrder(rest)
  BY <1>1, <1>8 DEF InOrder
<1>10. ASSUME NEW time, NotAfter(data, time)
       PROVE  NotAfter(rest, time)
  <2>1. \A i \in 1..Len(rest[key]) : data[key][i + d].timestamp <= time
    BY <1>7, <1>10 DEF NotAfter
  <2> QED
    BY <1>1, <1>6, <1>10, <2>1 DEF NotAfter
<1> QED
  BY <1>9, <1>10 DEF rest

(* Loading a snapshot keeps the order. *)
LEMMA CappedOrder ==
    ASSUME NEW data \in Contents, InOrder(data)
    PROVE  /\ InOrder(Capped(data))
           /\ \A time : NotAfter(data, time) => NotAfter(Capped(data), time)
<1> DEFINE c == Capped(data)
<1>1. ASSUME NEW key \in Keys
      PROVE  /\ \A i, j \in 1..Len(c[key]) : i < j => c[key][i].timestamp <= c[key][j].timestamp
             /\ \A time : NotAfter(data, time)
                  => \A i \in 1..Len(c[key]) : c[key][i].timestamp <= time
  <2>1. Len(data[key]) \in Nat /\ Len(c[key]) \in Nat
    BY CappedFacts, HistoryFacts
  <2>0. NewestOf(c[key], data[key])
    BY CappedFacts
  <2> HIDE DEF c
  <2>2. PICK d \in Nat : /\ Len(c[key]) + d = Len(data[key])
                         /\ \A i \in 1..Len(c[key]) : c[key][i] = data[key][i + d]
    BY <2>0 DEF NewestOf
  <2>3. \A i \in 1..Len(c[key]) : i + d \in 1..Len(data[key])
    BY <2>1, <2>2
  <2>4. ASSUME NEW i \in 1..Len(c[key]), NEW j \in 1..Len(c[key]), i < j
        PROVE  c[key][i].timestamp <= c[key][j].timestamp
    <3>1. i + d \in 1..Len(data[key]) /\ j + d \in 1..Len(data[key]) /\ i + d < j + d
      BY <2>3, <2>4
    <3>2. data[key][i + d].timestamp <= data[key][j + d].timestamp
      BY <3>1 DEF InOrder
    <3> QED
      BY <2>2, <3>2
  <2>5. ASSUME NEW time, NotAfter(data, time), NEW i \in 1..Len(c[key])
        PROVE  c[key][i].timestamp <= time
    BY <2>2, <2>3, <2>5 DEF NotAfter
  <2> QED
    BY <2>4, <2>5
<1> HIDE DEF c
<1>2. InOrder(c) /\ \A time : NotAfter(data, time) => NotAfter(c, time)
  BY <1>1 DEF InOrder, NotAfter
<1> QED
  BY <1>2 DEF c

(* So does a record that is not older than the others. *)
LEMMA WithRecordOrder ==
    ASSUME NEW data \in Contents, NEW key \in Keys, NEW record \in Record,
           InOrder(data), NotAfter(data, record.timestamp)
    PROVE  /\ InOrder(WithRecord(data, key, record))
           /\ NotAfter(WithRecord(data, key, record), record.timestamp)
<1> DEFINE after == WithRecord(data, key, record)
<1>1. /\ \A k \in Keys : k # key => after[k] = data[k]
      /\ Len(after[key]) = Len(data[key]) + 1
      /\ after[key][Len(data[key]) + 1] = record
      /\ \A i \in 1..Len(data[key]) : after[key][i] = data[key][i]
  BY WithRecordFacts
<1>2. Len(data[key]) \in Nat /\ record.timestamp \in Nat
  BY HistoryFacts DEF Record
<1> HIDE DEF after
<1>3. \A i \in 1..Len(after[key]) : i \in 1..Len(data[key]) \/ i = Len(data[key]) + 1
  BY <1>1, <1>2
<1>4. ASSUME NEW i \in 1..Len(after[key])
      PROVE  after[key][i].timestamp <= record.timestamp
  <2>1. CASE i \in 1..Len(data[key])
    BY <1>1, <2>1 DEF NotAfter
  <2>2. CASE i = Len(data[key]) + 1
    BY <1>1, <1>2, <2>2
  <2> QED
    BY <1>3, <2>1, <2>2
<1>5. ASSUME NEW i \in 1..Len(after[key]), NEW j \in 1..Len(after[key]), i < j
      PROVE  after[key][i].timestamp <= after[key][j].timestamp
  <2>1. i \in 1..Len(data[key])
    BY <1>1, <1>2, <1>5
  <2>2. CASE j \in 1..Len(data[key])
    BY <1>1, <1>5, <2>1, <2>2 DEF InOrder
  <2>3. CASE j = Len(data[key]) + 1
    BY <1>1, <1>4, <2>3
  <2> QED
    BY <1>3, <2>2, <2>3
<1>6. InOrder(after) /\ NotAfter(after, record.timestamp)
  BY <1>1, <1>4, <1>5 DEF InOrder, NotAfter
<1> QED
  BY <1>6 DEF after

(* And so does an erasure. *)
LEMMA EraseOrder ==
    ASSUME NEW data \in Contents, NEW key \in Keys, InOrder(data)
    PROVE  /\ InOrder(erase(data, key))
           /\ \A time : NotAfter(data, time) => NotAfter(erase(data, key), time)
<1>1. \A k \in Keys : erase(data, key)[k] = IF k = key THEN <<>> ELSE data[k]
  BY EraseFacts
<1> QED
  BY <1>1 DEF InOrder, NotAfter

-----------------------------------------------------------------------------
(* The replay of a log. *)

(* A PUT entry gives back the record that set() logged. *)
LEMMA ReplayPut ==
    ASSUME NEW data, NEW body, NEW duration \in Durations, NEW value \in Values,
           body.type = "PUT", body.blob = serialize(duration, value)
    PROVE  Replay(data, body)
             = appendCapped(data, body.key,
                            [value |-> value, duration |-> duration, timestamp |-> body.timestamp])
<1>1. /\ body.blob.duration = duration /\ body.blob.value = value
      /\ body.blob.size = DoubleSize + ValueSize[value]
  BY DEF serialize
<1>2. ~(body.blob.size < DoubleSize)
  BY <1>1, SizeAssumption
<1>3. deserialize(body.blob) = [duration |-> duration, value |-> value]
  BY <1>1, <1>2 DEF deserialize
<1> QED
  BY <1>3 DEF Replay

(* A DELETE entry erases the key. *)
LEMMA ReplayDelete ==
    ASSUME NEW data, NEW body, body.type # "PUT"
    PROVE  Replay(data, body) = erase(data, body.key)
BY DEF Replay

(* One turn of the replay keeps the types, the cap and the order. *)
LEMMA ReplayFacts ==
    ASSUME NEW data \in Contents, NEW body, Loggable(body)
    PROVE  /\ Replay(data, body) \in Contents
           /\ WithinCap(data) => WithinCap(Replay(data, body))
           /\ InOrder(data) /\ NotAfter(data, body.timestamp)
                => InOrder(Replay(data, body)) /\ NotAfter(Replay(data, body), body.timestamp)
<1>1. CASE body.type = "PUT"
  <2>1. PICK duration \in Durations, value \in Values : body.blob = serialize(duration, value)
    BY <1>1 DEF Loggable
  <2> DEFINE record == [value |-> value, duration |-> duration, timestamp |-> body.timestamp]
             rest == evict(data, body.key)
  <2>2. record \in Record /\ body.key \in Keys /\ record.timestamp = body.timestamp
    BY DEF Record, Loggable
  <2>3. Replay(data, body) = appendCapped(data, body.key, record)
    BY <1>1, <2>1, ReplayPut
  <2> HIDE DEF record
  <2>4. /\ appendCapped(data, body.key, record) \in Contents
        /\ appendCapped(data, body.key, record) = WithRecord(rest, body.key, record)
        /\ WithinCap(data) => WithinCap(appendCapped(data, body.key, record))
    BY <2>2, AppendCappedFacts
  <2>5. rest \in Contents
    BY <2>2, EvictFacts
  <2>6. ASSUME InOrder(data), NotAfter(data, body.timestamp)
        PROVE  InOrder(rest) /\ NotAfter(rest, record.timestamp)
    BY <2>2, <2>6, EvictOrder
  <2> HIDE DEF rest
  <2>7. ASSUME InOrder(data), NotAfter(data, body.timestamp)
        PROVE  /\ InOrder(WithRecord(rest, body.key, record))
               /\ NotAfter(WithRecord(rest, body.key, record), body.timestamp)
    BY <2>2, <2>5, <2>6, <2>7, WithRecordOrder
  <2> QED
    BY <2>3, <2>4, <2>7
<1>2. CASE body.type # "PUT"
  <2>1. body.key \in Keys /\ Replay(data, body) = erase(data, body.key)
    BY <1>2, ReplayDelete DEF Loggable
  <2> QED
    BY <2>1, EraseFacts, EraseOrder
<1> QED
  BY <1>1, <1>2

(* An entry behind the fence is passed over, any other one replayed. *)
LEMMA VisitFacts ==
    ASSUME NEW data \in Contents, NEW body, NEW fence, Loggable(body)
    PROVE  /\ Visit(data, body, fence) \in Contents
           /\ WithinCap(data) => WithinCap(Visit(data, body, fence))
           /\ body.epoch > fence => Visit(data, body, fence) = Replay(data, body)
           /\ ~(body.epoch > fence) => Visit(data, body, fence) = data
<1>1. /\ Replay(data, body) \in Contents
      /\ WithinCap(data) => WithinCap(Replay(data, body))
  BY ReplayFacts
<1> QED
  BY <1>1 DEF Visit

(* The loop of recover() starts with the loaded contents and visits one    *)
(* entry in each turn.                                                     *)
LEMMA ReplayedFacts ==
    ASSUME NEW data \in Contents, NEW entries, Len(entries) \in Nat, NEW fence,
           \A i \in 1..Len(entries) : Loggable(entries[i])
    PROVE  /\ Replayed(data, entries, fence) \in [0..Len(entries) -> Contents]
           /\ Replayed(data, entries, fence)[0] = data
           /\ \A i \in 1..Len(entries) :
                Replayed(data, entries, fence)[i]
                  = Visit(Replayed(data, entries, fence)[i - 1], entries[i], fence)
<1> DEFINE n == Len(entries)
           g == [i \in (0 + 1)..n |-> [d \in Contents |-> Visit(d, entries[i], fence)]]
<1>1. n \in Nat /\ 0 \in Nat /\ 0 <= n
  OBVIOUS
<1>2. g \in Turns(Contents, 0, n)
  BY VisitFacts DEF Turns
<1> HIDE DEF g, n
<1>3. Runs(Contents, data, 0, n, g) # {}
  BY <1>1, <1>2, IterationExists
<1>4. PICK f \in [0..n -> Contents] :
        f[0] = data /\ \A i \in (0 + 1)..n : f[i] = g[i][f[i - 1]]
  BY <1>3 DEF Runs
<1> USE DEF n
<1>5. ASSUME NEW i \in 1..n
      PROVE  f[i - 1] \in Contents /\ f[i] = Visit(f[i - 1], entries[i], fence)
  <2>1. i - 1 \in 0..n /\ i \in (0 + 1)..n
    BY <1>1
  <2>2. f[i - 1] \in Contents /\ f[i] = g[i][f[i - 1]]
    BY <1>4, <2>1
  <2>3. g[i] = [d \in Contents |-> Visit(d, entries[i], fence)]
    BY <2>1 DEF g
  <2> QED
    BY <2>2, <2>3
<1>6. f = [i \in 0..n |-> IF i = 0 THEN data ELSE Visit(f[i - 1], entries[i], fence)]
  BY <1>1, <1>4, <1>5
<1> DEFINE r == Replayed(data, entries, fence)
<1>7. r = [i \in 0..n |-> IF i = 0 THEN data ELSE Visit(r[i - 1], entries[i], fence)]
  BY <1>6 DEF Replayed
<1> HIDE DEF r
<1>8. \A i \in 0..n : r[i] = IF i = 0 THEN data ELSE Visit(r[i - 1], entries[i], fence)
  BY <1>7
<1> DEFINE P == {i \in 0..n : r[i] = f[i]}
<1>9. 0 \in P
  BY <1>1, <1>4, <1>8
<1>10. ASSUME NEW i \in 0..n, i \in P, i < n
       PROVE  i + 1 \in P
  <2>1. /\ i + 1 \in 1..n /\ i + 1 \in 0..n /\ i + 1 # 0 /\ (i + 1) - 1 = i
        /\ r[i] = f[i]
    BY <1>1, <1>10
  <2>2. /\ r[i + 1] = Visit(r[i], entries[i + 1], fence)
        /\ f[i + 1] = Visit(f[i], entries[i + 1], fence)
    BY <1>5, <1>8, <2>1
  <2> QED
    BY <2>1, <2>2
<1> HIDE DEF P
<1>11. 0..n \subseteq P
  BY <1>1, <1>9, <1>10, IntervalInduction
<1>12. r = f
  <2>1. \A i \in 0..n : r[i] = f[i]
    BY <1>11 DEF P
  <2> QED
    BY <1>4, <1>7, <2>1
<1> QED
  BY <1>4, <1>5, <1>12 DEF r

(* With every entry behind the fence the loop changes nothing. *)
LEMMA ReplayedFenced ==
    ASSUME NEW data \in Contents, NEW entries, Len(entries) \in Nat, NEW fence,
           \A i \in 1..Len(entries) : Loggable(entries[i]) /\ ~(entries[i].epoch > fence)
    PROVE  Replayed(data, entries, fence)[Len(entries)] = data
<1> DEFINE n == Len(entries)
           r == Replayed(data, entries, fence)
<1>1. n \in Nat /\ 0 \in Nat /\ 0 <= n
  OBVIOUS
<1>2. r[0] = data /\ \A i \in 1..n : r[i] = Visit(r[i - 1], entries[i], fence)
  BY ReplayedFacts
<1> HIDE DEF r, n
<1> DEFINE P == {i \in 0..n : r[i] = data}
<1>3. 0 \in P
  BY <1>1, <1>2
<1>4. ASSUME NEW i \in 0..n, i \in P, i < n
      PROVE  i + 1 \in P
  <2>1. i + 1 \in 1..n /\ i + 1 \in 0..n /\ (i + 1) - 1 = i /\ r[i] = data
    BY <1>1, <1>4
  <2>2. r[i + 1] = Visit(data, entries[i + 1], fence) /\ ~(entries[i + 1].epoch > fence)
    BY <1>2, <2>1 DEF n
  <2> QED
    BY <2>1, <2>2 DEF Visit
<1> HIDE DEF P
<1>5. 0..n \subseteq P
  BY <1>1, <1>3, <1>4, IntervalInduction
<1>6. r[n] = data
  BY <1>1, <1>5 DEF P
<1> QED
  BY <1>6 DEF r, n

(* An entry at the end of the log changes nothing of what the replay of    *)
(* the entries before it gives.                                            *)
LEMMA ReplayedAppend ==
    ASSUME NEW S, NEW entries \in Seq(S), NEW body \in S, Loggable(body),
           \A i \in 1..Len(entries) : Loggable(entries[i]),
           NEW data \in Contents, NEW fence
    PROVE  Replayed(data, Append(entries, body), fence)[Len(entries) + 1]
             = Visit(Replayed(data, entries, fence)[Len(entries)], body, fence)
<1> DEFINE n == Len(entries)
           longer == Append(entries, body)
           r == Replayed(data, entries, fence)
           q == Replayed(data, longer, fence)
<1>1. n \in Nat /\ 0 \in Nat /\ 0 <= n
  BY LenProperties
<1>2. /\ longer \in Seq(S) /\ Len(longer) = n + 1 /\ longer[n + 1] = body
      /\ \A i \in 1..n : longer[i] = entries[i]
  BY AppendProperties
<1>3. r[0] = data /\ \A i \in 1..n : r[i] = Visit(r[i - 1], entries[i], fence)
  BY <1>1, ReplayedFacts
<1> HIDE DEF longer
<1>4. \A i \in 1..Len(longer) : Loggable(longer[i])
  BY <1>1, <1>2
<1>5. q[0] = data /\ \A i \in 1..(n + 1) : q[i] = Visit(q[i - 1], longer[i], fence)
  <2>1. Len(longer) \in Nat
    BY <1>1, <1>2
  <2>2. q[0] = data /\ \A i \in 1..Len(longer) : q[i] = Visit(q[i - 1], longer[i], fence)
    BY <1>4, <2>1, ReplayedFacts
  <2> QED
    BY <1>2, <2>2
<1> HIDE DEF r, q, n
<1> DEFINE P == {i \in 0..n : q[i] = r[i]}
<1>6. 0 \in P
  BY <1>1, <1>3, <1>5
<1>7. ASSUME NEW i \in 0..n, i \in P, i < n
      PROVE  i + 1 \in P
  <2>1. /\ i + 1 \in 1..n /\ i + 1 \in 1..(n + 1) /\ i + 1 \in 0..n
        /\ (i + 1) - 1 = i /\ q[i] = r[i]
    BY <1>1, <1>7
  <2>2. /\ q[i + 1] = Visit(q[i], longer[i + 1], fence)
        /\ r[i + 1] = Visit(r[i], entries[i + 1], fence)
    BY <1>3, <1>5, <2>1
  <2> QED
    BY <1>2, <2>1, <2>2
<1> HIDE DEF P
<1>8. 0..n \subseteq P
  BY <1>1, <1>6, <1>7, IntervalInduction
<1>9. q[n] = r[n]
  BY <1>1, <1>8 DEF P
<1>10. q[n + 1] = Visit(q[n], body, fence)
  <2>1. n + 1 \in 1..(n + 1) /\ (n + 1) - 1 = n
    BY <1>1
  <2> QED
    BY <1>2, <1>5, <2>1
<1> QED
  BY <1>9, <1>10 DEF q, r, n, longer

-----------------------------------------------------------------------------
(* The cap and the operations. *)

(* The newest records of a history: how many, and which. *)
LEMMA NewestFacts ==
    ASSUME NEW h \in Seq(Record)
    PROVE  /\ Newest(h) \in Seq(Record) /\ Len(h) \in Nat
           /\ m_maxHistoryPerKey = kUnlimitedHistory \/ Len(h) <= m_maxHistoryPerKey
                => Newest(h) = h
           /\ m_maxHistoryPerKey # kUnlimitedHistory /\ Len(h) > m_maxHistoryPerKey
                => /\ Len(Newest(h)) = m_maxHistoryPerKey
                   /\ \A i \in 1..m_maxHistoryPerKey :
                        Newest(h)[i] = h[i + Len(h) - m_maxHistoryPerKey]
<1> DEFINE n == Len(h)
           m == m_maxHistoryPerKey
<1>1. n \in Nat /\ m \in Nat /\ \A i \in 1..n : h[i] \in Record
  BY LenProperties, ElementOfSeq, CapAssumption
<1>2. m = kUnlimitedHistory \/ n <= m => Newest(h) = h
  BY DEF Newest
<1>3. ASSUME m # kUnlimitedHistory, n > m
      PROVE  /\ Newest(h) \in Seq(Record) /\ Len(Newest(h)) = m
             /\ \A i \in 1..m : Newest(h)[i] = h[i + n - m]
  <2>1. m \in Nat \ {0} /\ ~(n <= m)
    BY <1>1, <1>3 DEF kUnlimitedHistory
  <2> DEFINE a == n - m + 1
  <2>2. a \in 1..n /\ a \in Int /\ n - a + 1 = m /\ a <= n
    BY <1>1, <1>3, <2>1
  <2>3. Newest(h) = SubSeq(h, a, n)
    BY <1>3, <2>1 DEF Newest
  <2>4. \A i \in a..n : h[i] \in Record
    BY <1>1, <2>2
  <2> HIDE DEF a, n, m
  <2>5. /\ SubSeq(h, a, n) \in Seq(Record)
        /\ Len(SubSeq(h, a, n)) = IF a <= n THEN n - a + 1 ELSE 0
        /\ \A i \in 1..(n - a + 1) : SubSeq(h, a, n)[i] = h[a + i - 1]
    BY <1>1, <2>2, <2>4, SubSeqProperties
  <2>6. ASSUME NEW i \in 1..m
        PROVE  Newest(h)[i] = h[i + n - m]
    <3>1. a + i - 1 = i + n - m
      BY <1>1 DEF a
    <3> QED
      BY <2>2, <2>3, <2>5, <3>1
  <2> QED
    BY <2>2, <2>3, <2>5, <2>6
<1>4. Newest(h) \in Seq(Record)
  BY <1>1, <1>2, <1>3
<1> QED
  BY <1>1, <1>2, <1>3, <1>4

(* A record behind a capped history, the oldest one going when the cap is  *)
(* reached, gives the newest records of the whole history with it.         *)
LEMMA NewestAppend ==
    ASSUME NEW h \in Seq(Record), NEW record \in Record
    PROVE  Newest(Append(h, record))
             = Append(IF CapReached(Newest(h)) THEN Tail(Newest(h)) ELSE Newest(h), record)
<1> DEFINE n == Len(h)
           m == m_maxHistoryPerKey
           g == Append(h, record)
           c == Newest(h)
<1>1. n \in Nat /\ m \in Nat
  BY LenProperties, CapAssumption
<1>2. /\ g \in Seq(Record) /\ Len(g) = n + 1 /\ g[n + 1] = record
      /\ \A i \in 1..n : g[i] = h[i]
  BY AppendProperties
<1>3. CASE m = kUnlimitedHistory \/ n < m
  <2>1. c = h
    BY <1>1, <1>3, NewestFacts
  <2>2. ~CapReached(c)
    BY <1>1, <1>3, <2>1 DEF CapReached
  <2> HIDE DEF g
  <2>3. Newest(g) = g
    BY <1>1, <1>2, <1>3, NewestFacts
  <2> USE DEF g
  <2> QED
    BY <2>1, <2>2, <2>3
<1>4. CASE m # kUnlimitedHistory /\ n >= m
  <2>1. m \in Nat \ {0}
    BY <1>1, <1>4 DEF kUnlimitedHistory
  <2>2. /\ c \in Seq(Record) /\ Len(c) = m /\ \A i \in 1..m : c[i] = h[i + n - m]
    <3>1. CASE n = m
      <4>1. c = h
        BY <1>1, <3>1, NewestFacts
      <4> QED
        BY <1>1, <3>1, <4>1
    <3>2. CASE n > m
      BY <1>4, <3>2, NewestFacts
    <3> QED
      BY <1>1, <1>4, <3>1, <3>2
  <2> HIDE DEF c
  <2>3. CapReached(c) /\ c # <<>>
    BY <1>1, <1>4, <2>1, <2>2, EmptySeq DEF CapReached
  <2> DEFINE t == Tail(c)
             a == Append(t, record)
  <2>4. t \in Seq(Record) /\ Len(t) = m - 1 /\ \A i \in 1..(m - 1) : t[i] = c[i + 1]
    BY <2>2, <2>3, HeadTailProperties
  <2> HIDE DEF t
  <2>5. /\ a \in Seq(Record) /\ Len(a) = m /\ a[m] = record
        /\ \A i \in 1..(m - 1) : a[i] = t[i]
    <3>1. /\ a \in Seq(Record) /\ Len(a) = Len(t) + 1 /\ a[Len(t) + 1] = record
          /\ \A i \in 1..Len(t) : a[i] = t[i]
      BY <2>4, AppendProperties
    <3> QED
      BY <2>1, <2>4, <3>1
  <2> HIDE DEF a
  <2>6. n + 1 > m /\ Len(g) > m
    BY <1>1, <1>2, <1>4
  <2> HIDE DEF g
  <2>7. /\ Newest(g) \in Seq(Record) /\ Len(Newest(g)) = m
        /\ \A i \in 1..m : Newest(g)[i] = g[i + (n + 1) - m]
    BY <1>2, <1>4, <2>6, NewestFacts
  <2>8. ASSUME NEW i \in 1..m
        PROVE  Newest(g)[i] = a[i]
    <3>1. CASE i = m
      <4>1. i + (n + 1) - m = n + 1
        BY <1>1, <3>1
      <4> QED
        BY <1>2, <2>5, <2>7, <3>1, <4>1
    <3>2. CASE i # m
      <4>1. /\ i \in 1..(m - 1) /\ i + 1 \in 1..m
            /\ i + (n + 1) - m \in 1..n /\ (i + 1) + n - m = i + (n + 1) - m
        BY <1>1, <1>4, <2>1, <3>2
      <4>2. Newest(g)[i] = h[i + (n + 1) - m]
        BY <1>2, <2>7, <4>1
      <4>3. a[i] = h[i + (n + 1) - m]
        BY <2>2, <2>4, <2>5, <4>1
      <4> QED
        BY <4>2, <4>3
    <3> QED
      BY <3>1, <3>2
  <2>9. Newest(g) = a
    BY <2>5, <2>7, <2>8, SeqEqual
  <2> QED
    BY <2>3, <2>9 DEF a, t, c, g
<1> QED
  BY <1>1, <1>3, <1>4

(* set() on the capped contents gives the capped contents of set(). *)
LEMMA CappedPut ==
    ASSUME NEW data \in Contents, NEW key \in Keys, NEW record \in Record
    PROVE  Capped([data EXCEPT ![key] = Append(@, record)])
             = appendCapped(Capped(data), key, record)
<1> DEFINE after == WithRecord(data, key, record)
           c == Capped(data)
<1>1. after \in Contents /\ c \in Contents /\ data[key] \in Seq(Record)
  BY WithRecordFacts, CappedFacts, HistoryFacts
<1>2. after[key] = Append(data[key], record) /\ \A k \in Keys : k # key => after[k] = data[k]
  BY DEF WithRecord, Contents
<1>3. \A k \in Keys : c[k] = Newest(data[k])
  BY DEF Capped
<1>4. /\ appendCapped(c, key, record) \in Contents
      /\ appendCapped(c, key, record) = WithRecord(evict(c, key), key, record)
  BY <1>1, AppendCappedFacts
<1>5. /\ evict(c, key) \in Contents
      /\ \A k \in Keys : k # key => evict(c, key)[k] = c[k]
      /\ evict(c, key)[key] = IF CapReached(c[key]) THEN Tail(c[key]) ELSE c[key]
  BY <1>1, EvictFacts
<1> HIDE DEF c, after
<1>6. /\ WithRecord(evict(c, key), key, record)[key] = Append(evict(c, key)[key], record)
      /\ \A k \in Keys : k # key => WithRecord(evict(c, key), key, record)[k] = evict(c, key)[k]
  BY <1>5 DEF WithRecord, Contents
<1>7. ASSUME NEW k \in Keys
      PROVE  Newest(after[k]) = appendCapped(c, key, record)[k]
  <2>1. CASE k = key
    <3>1. Newest(after[key]) = Append(evict(c, key)[key], record)
      BY <1>1, <1>2, <1>3, <1>5, NewestAppend
    <3> QED
      BY <1>4, <1>6, <2>1, <3>1
  <2>2. CASE k # key
    BY <1>2, <1>3, <1>4, <1>5, <1>6, <2>2
  <2> QED
    BY <2>1, <2>2
<1>8. Capped(after) = appendCapped(c, key, record)
  BY <1>4, <1>7 DEF Capped, Contents
<1> QED
  BY <1>8 DEF after, c, WithRecord

(* So does remove(). *)
LEMMA CappedErase ==
    ASSUME NEW data \in Contents, NEW key \in Keys
    PROVE  Capped([data EXCEPT ![key] = <<>>]) = erase(Capped(data), key)
<1>1. /\ erase(data, key) \in Contents
      /\ \A k \in Keys : erase(data, key)[k] = IF k = key THEN <<>> ELSE data[k]
  BY EraseFacts
<1>2. Capped(data) \in Contents /\ \A k \in Keys : Capped(data)[k] = Newest(data[k])
  BY CappedFacts DEF Capped
<1>3. /\ erase(Capped(data), key) \in Contents
      /\ \A k \in Keys : erase(Capped(data), key)[k] = IF k = key THEN <<>> ELSE Capped(data)[k]
  BY <1>2, EraseFacts
<1>4. Newest(<<>>) = <<>>
  BY NewestFacts, CapAssumption, EmptySeq DEF Newest
<1>5. Capped(erase(data, key)) = erase(Capped(data), key)
  BY <1>1, <1>2, <1>3, <1>4 DEF Capped, Contents
<1> QED
  BY <1>5 DEF erase

=============================================================================
