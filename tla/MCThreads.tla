----------------------------- MODULE MCThreads -----------------------------
(* Small instances of EngineThreads: a key and a value that fit and ones   *)
(* that do not.                                                            *)
EXTENDS EngineThreads

CONSTANTS t1, t2, t3, k1, kBig, v1, vBig

MCKeySize == [k \in Keys |-> IF k = kBig THEN 4 ELSE 1]
MCValueSize == [v \in Values |-> IF v = vBig THEN 2 ELSE 0]

=============================================================================
