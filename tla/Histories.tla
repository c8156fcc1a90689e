----------------------------- MODULE Histories -----------------------------
(***************************************************************************)
(* The contents of the store: StorageEngine::m_data, a history of records  *)
(* for every key.  A key with the empty history is one that is not in the  *)
(* unordered_map.  The helpers that change the contents are shared by      *)
(* set(), by remove() and by recovery.                                     *)
(***************************************************************************)
EXTENDS Records

CONSTANT m_maxHistoryPerKey     \* the history cap; kUnlimitedHistory for none

kUnlimitedHistory == 0

ASSUME CapAssumption == m_maxHistoryPerKey \in Nat

(* An empty map, and every map. *)
NoData == [key \in Keys |-> <<>>]
Contents == [Keys -> Seq(Record)]

Last(s) == s[Len(s)]

(* appendCapped(): the oldest record goes when the cap is reached.         *)
CapReached_OffByOne(history) ==
    m_maxHistoryPerKey # kUnlimitedHistory /\ Len(history) > m_maxHistoryPerKey
CapReached(history) ==
    m_maxHistoryPerKey # kUnlimitedHistory /\ Len(history) >= m_maxHistoryPerKey

evict(data, key) == [data EXCEPT ![key] = IF CapReached(@) THEN Tail(@) ELSE @]

appendCapped(data, key, record) == [evict(data, key) EXCEPT ![key] = Append(@, record)]

(* m_data.erase() *)
erase(data, key) == [data EXCEPT ![key] = <<>>]

(* What appendCapped() makes of a snapshot's histories, record by record:  *)
(* the newest of each, as many as the cap allows.                          *)
Newest(history) ==
    IF m_maxHistoryPerKey = kUnlimitedHistory \/ Len(history) <= m_maxHistoryPerKey
    THEN history
    ELSE SubSeq(history, Len(history) - m_maxHistoryPerKey + 1, Len(history))
Capped(data) == [key \in Keys |-> Newest(data[key])]

(* The lambda that recover() passes to WAL::recover(). *)
Replay(data, body) ==
    IF body.type = "PUT"
    THEN LET content == deserialize(body.blob)
         IN  appendCapped(data, body.key, [value |-> content.value,
                                           duration |-> content.duration,
                                           timestamp |-> body.timestamp])
    ELSE erase(data, body.key)

(* The walk calls it for the entries behind the fence, which is the epoch  *)
(* of the snapshot, or -1 for none.                                        *)
Visit(data, body, fence) == IF body.epoch > fence THEN Replay(data, body) ELSE data

(* The loop around it: the contents after each entry, starting with data.  *)
Replayed(data, entries, fence) ==
    LET after[i \in 0..Len(entries)] ==
          IF i = 0 THEN data ELSE Visit(after[i - 1], entries[i], fence)
    IN  after

=============================================================================
