------------------------------ MODULE MCEngine ------------------------------
(* Small instances of StorageEngine: keys that fit and the empty value,   *)
(* whose blob is just long enough to hold a duration.                      *)
EXTENDS StorageEngine

CONSTANTS k1, k2, v1

MCKeySize == [k \in Keys |-> 1]
MCValueSize == [v \in Values |-> 0]

=============================================================================
