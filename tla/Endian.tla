------------------------------- MODULE Endian -------------------------------
(***************************************************************************)
(* Machine words and Endian.hpp.  A word of any width is the set of the    *)
(* positions of its one bits, bit 0 being the least significant, so the    *)
(* widths are those of the code.                                           *)
(***************************************************************************)
EXTENDS Integers, Sequences

Word(width) == SUBSET (0..(width - 1))

Xor(v, w) == (v \ w) \cup (w \ v)
ShiftRight(v, n) == {b - n : b \in {c \in v : c >= n}}
ShiftLeft(v, n) == {b + n : b \in v}
Low(v, width) == v \cap (0..(width - 1))
Not(v, width) == (0..(width - 1)) \ v

(* putLE32() and putLE64(): the lowest byte first. *)
putLE(v, bytes) == [i \in 1..bytes |-> Low(ShiftRight(v, 8 * (i - 1)), 8)]
putLE32(v) == putLE(v, 4)
putLE64(v) == putLE(v, 8)

(* getLE32() and getLE64() *)
getLE_Unshifted(p) == UNION {ShiftLeft(p[i], 4 * (i - 1)) : i \in DOMAIN p}
getLE(p) == UNION {ShiftLeft(p[i], 8 * (i - 1)) : i \in DOMAIN p}

(* The two halves in which append() stores a timestamp, and walkChain()'s  *)
(* way back.                                                               *)
timestamp_low(ts) == Low(ts, 32)
timestamp_high(ts) == Low(ShiftRight(ts, 32), 32)
entryTs(high, low) == ShiftLeft(high, 32) \cup low

=============================================================================
