------------------------------- MODULE MCWAL -------------------------------
(* Small instances of WAL: one key and one value just at the size limit    *)
(* and one of each just over it.                                           *)
EXTENDS WAL

CONSTANTS k1, kBig, v1, vBig

MCKeySize == [k \in Keys |-> IF k = kBig THEN 4 ELSE 3]
MCValueSize == [v \in Values |-> IF v = vBig THEN 2 ELSE 1]

=============================================================================
