---------------------------- MODULE AtomicStore ----------------------------
(***************************************************************************)
(* The "thread-safe key-value store" that StorageEngine.hpp announces: a   *)
(* call of any thread takes effect at one instant between its invocation   *)
(* and its return, and answers from the contents of that instant.  A set,  *)
(* a remove or a snapshot that throws has no effect on the contents, and   *)
(* neither has a snapshot that returns.                                    *)
(*                                                                         *)
(* A recover rebuilds the contents that are there, and does not throw,     *)
(* until a call fails after it has touched the files or before it has read *)
(* them.  From then on nobody vouches for what a recover gives, up to a    *)
(* snapshot that returns; it is still given at one instant.                *)
(***************************************************************************)
EXTENDS Histories, FiniteSets

CONSTANTS
    Threads,                    \* the threads of the process
    Stamps,                     \* the readings of the clock
    InitialContents,            \* what the store may hold at first
    done, threw, nullopt        \* answers that are no value, number or boolean

(* The public member functions, with their arguments. *)
Calls ==
    [name : {"set"}, key : Keys, value : Values, duration : Durations]
      \cup [name : {"remove", "get", "getAverage", "historyCount"}, key : Keys]
      \cup [name : {"count", "snapshot", "recover"}]

NoCall == [name |-> "none"]

(* get(), historyCount() and count() under the lock. *)
get(data, key) == IF data[key] = <<>> THEN nullopt ELSE Last(data[key]).value
historyCount(data, key) == Len(data[key])
count(data) == Cardinality({key \in Keys : data[key] # <<>>})

(* getAverage() as the pair that it divides: the sum and the number. *)
Sums(history) ==
    LET sum[i \in 0..Len(history)] == IF i = 0 THEN 0 ELSE sum[i - 1] + history[i].duration
    IN  sum

Average(data, key) ==
    LET history == data[key]
    IN  IF history = <<>> THEN nullopt ELSE <<Sums(history)[Len(history)], Len(history)>>

VARIABLES data, phase, call, result, suspect

atomicVars == <<data, phase, call, result, suspect>>

AtomicInit ==
    /\ data \in InitialContents
    /\ phase = [t \in Threads |-> "idle"]
    /\ call = [t \in Threads |-> NoCall]
    /\ result = [t \in Threads |-> done]
    /\ suspect = FALSE

Invoke(t, c) ==
    /\ phase[t] = "idle"
    /\ phase' = [phase EXCEPT ![t] = "pending"]
    /\ call' = [call EXCEPT ![t] = c]
    /\ UNCHANGED <<data, result, suspect>>

Effect(c, now) ==
    CASE c.name = "set" -> appendCapped(data, c.key, [value |-> c.value, duration |-> c.duration,
                                                      timestamp |-> now])
      [] c.name = "remove" -> erase(data, c.key)
      [] OTHER -> data

Answer(c) ==
    CASE c.name = "remove" -> data[c.key] # <<>>
      [] c.name = "get" -> get(data, c.key)
      [] c.name = "getAverage" -> Average(data, c.key)
      [] c.name = "historyCount" -> historyCount(data, c.key)
      [] c.name = "count" -> count(data)
      [] OTHER -> done

Perform(t) ==
    /\ phase[t] = "pending"
    /\ phase' = [phase EXCEPT ![t] = "done"]
    /\ \/ /\ result' = [result EXCEPT ![t] = Answer(call[t])]
          /\ \E now \in Stamps : data' = Effect(call[t], now)
          /\ suspect' = (suspect /\ call[t].name # "snapshot")
       \/ /\ call[t].name \in {"set", "remove", "snapshot"}
          /\ result' = [result EXCEPT ![t] = threw]
          /\ UNCHANGED data
          /\ suspect' \in {suspect, TRUE}
       \/ /\ call[t].name = "recover"
          /\ \E answer \in {done, threw} : result' = [result EXCEPT ![t] = answer]
          /\ data' \in Contents
          /\ suspect' = TRUE
    /\ UNCHANGED call

(* A system call fails inside a call that goes on. *)
Fail ==
    /\ suspect' = TRUE
    /\ UNCHANGED <<data, phase, call, result>>

Return(t) ==
    /\ phase[t] = "done"
    /\ phase' = [phase EXCEPT ![t] = "idle"]
    /\ call' = [call EXCEPT ![t] = NoCall]
    /\ result' = [result EXCEPT ![t] = done]
    /\ UNCHANGED <<data, suspect>>

AtomicNext ==
    \/ Fail
    \/ \E t \in Threads : Perform(t) \/ Return(t) \/ \E c \in Calls : Invoke(t, c)

AtomicSpec == AtomicInit /\ [][AtomicNext]_atomicVars

=============================================================================
