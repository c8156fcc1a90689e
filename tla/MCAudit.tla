------------------------------ MODULE MCAudit ------------------------------
(* Small instances of Audit: a key that fits and one that does not; every  *)
(* entry is a DELETE, told from the others by its number and its hash.     *)
EXTENDS Audit

CONSTANTS k1, kBig

MCKeySize == [k \in Keys |-> IF k = kBig THEN 4 ELSE 3]
MCValueSize == [v \in Values |-> 1]

=============================================================================
