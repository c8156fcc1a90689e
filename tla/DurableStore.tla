---------------------------- MODULE DurableStore ----------------------------
(***************************************************************************)
(* What StorageEngine promises its callers, without a log, a snapshot or   *)
(* an epoch: a map and the sequence of its contents since the last moment  *)
(* that is safe.  Any end of the process or of the power goes back to one  *)
(* of them, and the next start serves exactly that one.                    *)
(***************************************************************************)
EXTENDS Histories

CONSTANT Stamps         \* the readings of the clock

VARIABLES
    up,             \* the engine is constructed and not inside recover()
    live,           \* what readers see while it is up
    journal         \* contents after each operation, from the promised ones on

storeVars == <<up, live, journal>>

StoreInit == up = FALSE /\ live = NoData /\ journal = <<NoData>>

(* The last contents become the ones that are safe, or nothing is promised. *)
Promise == journal' = <<Last(journal)>>
MayPromise == Promise \/ UNCHANGED journal

(* An operation is recorded before it is seen. *)
Put(key, record) ==
    /\ up
    /\ journal' = Append(journal, [Last(journal) EXCEPT ![key] = Append(@, record)])
    /\ UNCHANGED <<up, live>>

Delete(key) ==
    /\ up
    /\ journal' = Append(journal, [Last(journal) EXCEPT ![key] = <<>>])
    /\ UNCHANGED <<up, live>>

(* The caller gets its answer: the newest records of each key are seen. *)
Answer ==
    /\ up
    /\ live' = Capped(Last(journal))
    /\ MayPromise
    /\ UNCHANGED up

(* Shutdown, or the beginning of a recover(): nothing is lost. *)
Stop == up' = FALSE /\ live' = NoData /\ MayPromise

(* The process or the power ends: one of the contents is left. *)
Crash ==
    /\ up' = FALSE /\ live' = NoData
    /\ \E i \in 1..Len(journal) : journal' = <<journal[i]>>

Start ==
    /\ ~up /\ up'
    /\ live' = Capped(Last(journal))
    /\ UNCHANGED journal

StoreNext ==
    \/ \E key \in Keys : Delete(key) \/ \E value \in Values, duration \in Durations, now \in Stamps :
         Put(key, [value |-> value, duration |-> duration, timestamp |-> now])
    \/ Answer \/ Stop \/ Crash \/ Start

StoreSpec == StoreInit /\ [][StoreNext]_storeVars

=============================================================================
