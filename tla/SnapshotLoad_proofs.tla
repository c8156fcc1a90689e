------------------------ MODULE SnapshotLoad_proofs ------------------------
(***************************************************************************)
(* The bounds of Snapshot::load(), for payloads of every size and for any  *)
(* counts and lengths in them.                                             *)
(***************************************************************************)
EXTENDS SnapshotLoad, Iteration_proofs, SequenceTheorems

(* Sizes, counts and lengths are natural numbers. *)
LEMMA ReadsNat ==
    /\ \A n \in PayloadSizes : n \in Nat
    /\ \A n \in Counts : n \in Nat
BY PayloadAssumption

(* The bytes demanded, by what is read next.                               *)
LEMMA Demands ==
    ASSUME LoadInv
    PROVE  /\ Demand \in Int
           /\ load_pc = "keyCount" => Demand = 12
           /\ load_pc \in {"checkKeyCount", "keyLen"} => Demand = 8 * keysLeft
           /\ load_pc \in {"key", "value"} => Demand >= field
           /\ load_pc = "recordCount" => Demand >= 4
           /\ load_pc \in {"checkRecordCount", "record"} => Demand >= 20 * recordsLeft
BY DEF LoadInv, Demand, Unfinished, RecordsAhead, KeysAhead, MIN_RECORD_BYTES, MIN_KEY_BYTES

(* A refusal changes nothing else, and is justified when the payload is    *)
(* too short for what it announced.                                        *)
LEMMA RefusalStep ==
    ASSUME LoadInv, Refuse, Demand > Left
    PROVE  LoadInv'
<1>1. UNCHANGED <<size, offset, load_pc, field, keysLeft, recordsLeft, reserved>> /\ refused' = TRUE
  BY DEF Refuse
<1>2. Demand' = Demand /\ Left' = Left
  BY <1>1 DEF Demand, Unfinished, RecordsAhead, KeysAhead, Left
<1>3. LoadRefusesOnlyShort'
  BY <1>2 DEF LoadRefusesOnlyShort
<1> QED
  BY <1>1, <1>3 DEF LoadInv, LoadStaysInBounds

(* The integer division of the check on a count decides as the product     *)
(* would.                                                                  *)
LEMMA DivisionDecides ==
    ASSUME NEW count \in Nat, NEW left \in Nat
    PROVE  /\ count > left \div 8 <=> 8 * count > left
           /\ count > left \div 20 <=> 20 * count > left
OBVIOUS

(* The bytes left are a natural number, since the offset stays in bounds. *)
LEMMA LeftNat ==
    ASSUME LoadInv
    PROVE  Left \in Nat
BY DEF LoadInv, LoadStaysInBounds, Left

(* Epoch and key count, and the check on the latter. *)
LEMMA KeyCountStep ==
    ASSUME LoadInv, ~refused, ReadKeyCount \/ CheckKeyCount
    PROVE  LoadInv'
<1>1. CASE ReadKeyCount
  <2>1. CASE ReadFails(8 + 4)
    <3>1. Demand > Left
      BY Demands, <1>1, <2>1 DEF ReadKeyCount, ReadFails
    <3> QED
      BY <2>1, <3>1, RefusalStep DEF ReadFails
  <2>2. CASE ~ReadFails(8 + 4)
    BY <1>1, <2>2, ReadsNat
    DEF ReadKeyCount, ReadLE, LoadInv, LoadStaysInBounds, LoadRefusesOnlyShort, Left
  <2> QED
    BY <2>1, <2>2
<1>2. CASE CheckKeyCount
  <2>1. CASE keysLeft > Left \div MIN_KEY_BYTES /\ Refuse
    <3>1. Demand > Left
      BY Demands, <1>2, <2>1, LeftNat, DivisionDecides DEF CheckKeyCount, MIN_KEY_BYTES, LoadInv
    <3> QED
      BY <2>1, <3>1, RefusalStep
  <2>2. CASE ~(keysLeft > Left \div MIN_KEY_BYTES /\ Refuse)
    BY <1>2, <2>2
    DEF CheckKeyCount, LoadInv, LoadStaysInBounds, LoadRefusesOnlyShort
  <2> QED
    BY <2>1, <2>2
<1> QED
  BY <1>1, <1>2

(* The length of a key and its bytes. *)
LEMMA KeyStep ==
    ASSUME LoadInv, ~refused, ReadKeyLen \/ ReadKey
    PROVE  LoadInv'
<1>1. CASE ReadKeyLen
  <2>1. CASE ReadFails(4)
    <3>1. Demand > Left
      BY Demands, <1>1, <2>1, LeftNat DEF ReadKeyLen, ReadFails, LoadInv
    <3> QED
      BY <2>1, <3>1, RefusalStep DEF ReadFails
  <2>2. CASE ~ReadFails(4)
    BY <1>1, <2>2, ReadsNat
    DEF ReadKeyLen, ReadLE, LoadInv, LoadStaysInBounds, LoadRefusesOnlyShort, Left
  <2> QED
    BY <2>1, <2>2
<1>2. CASE ReadKey
  <2>1. CASE TooLong /\ Refuse
    <3>1. Demand > Left
      BY Demands, <1>2, <2>1, LeftNat DEF ReadKey, TooLong, LoadInv
    <3> QED
      BY <2>1, <3>1, RefusalStep
  <2>2. CASE ~(TooLong /\ Refuse)
    BY <1>2, <2>2
    DEF ReadKey, TooLong, Skipped, LoadInv, LoadStaysInBounds, LoadRefusesOnlyShort, Left
  <2> QED
    BY <2>1, <2>2
<1> QED
  BY <1>1, <1>2

(* The number of a key's records, and the reserve() for them. *)
LEMMA RecordCountStep ==
    ASSUME LoadInv, ~refused, ReadRecordCount \/ ReserveRecords
    PROVE  LoadInv'
<1>1. CASE ReadRecordCount
  <2>1. CASE ReadFails(4)
    <3>1. Demand > Left
      BY Demands, <1>1, <2>1, LeftNat DEF ReadRecordCount, ReadFails, LoadInv
    <3> QED
      BY <2>1, <3>1, RefusalStep DEF ReadFails
  <2>2. CASE ~ReadFails(4)
    BY <1>1, <2>2, ReadsNat
    DEF ReadRecordCount, ReadLE, LoadInv, LoadStaysInBounds, LoadRefusesOnlyShort, Left
  <2> QED
    BY <2>1, <2>2
<1>2. CASE ReserveRecords
  <2>1. CASE Impossible(recordsLeft) /\ Refuse
    <3>1. 20 * recordsLeft > Left
      BY <2>1, LeftNat, DivisionDecides DEF Impossible, MIN_RECORD_BYTES, LoadInv
    <3>2. Demand > Left
      BY Demands, <1>2, <3>1, LeftNat
      DEF ReserveRecords, LoadInv
    <3> QED
      BY <2>1, <3>2, RefusalStep
  <2>2. CASE ~(Impossible(recordsLeft) /\ Refuse)
    <3>1. ~Impossible(recordsLeft)
      BY <1>2, <2>2 DEF ReserveRecords
    <3>2. 20 * recordsLeft <= Left
      BY <3>1, LeftNat, DivisionDecides DEF Impossible, MIN_RECORD_BYTES, LoadInv
    <3>3. LoadStaysInBounds'
      BY <1>2, <2>2, <3>2
      DEF ReserveRecords, LoadInv, LoadStaysInBounds, MIN_RECORD_BYTES, Left
    <3> QED
      BY <1>2, <2>2, <3>3
      DEF ReserveRecords, NextKey, LoadInv, LoadRefusesOnlyShort
  <2> QED
    BY <2>1, <2>2
<1> QED
  BY <1>1, <1>2

(* The fixed part of a record, and its value. *)
LEMMA RecordStep ==
    ASSUME LoadInv, ~refused, ReadRecord \/ ReadValue
    PROVE  LoadInv'
<1>1. CASE ReadRecord
  <2>1. CASE ReadFails(8 + 8 + 4)
    <3>1. Demand > Left
      BY Demands, <1>1, <2>1, LeftNat
      DEF ReadRecord, ReadFails, LoadInv
    <3> QED
      BY <2>1, <3>1, RefusalStep DEF ReadFails
  <2>2. CASE ~ReadFails(8 + 8 + 4)
    BY <1>1, <2>2, ReadsNat
    DEF ReadRecord, ReadLE, LoadInv, LoadStaysInBounds, LoadRefusesOnlyShort, Left
  <2> QED
    BY <2>1, <2>2
<1>2. CASE ReadValue
  <2>1. CASE TooLong /\ Refuse
    <3>1. Demand > Left
      BY Demands, <1>2, <2>1, LeftNat
      DEF ReadValue, TooLong, LoadInv
    <3> QED
      BY <2>1, <3>1, RefusalStep
  <2>2. CASE ~(TooLong /\ Refuse)
    BY <1>2, <2>2
    DEF ReadValue, TooLong, NextKey, LoadInv, LoadStaysInBounds, LoadRefusesOnlyShort, Left
  <2> QED
    BY <2>1, <2>2
<1> QED
  BY <1>1, <1>2

(* load() keeps its invariant through every read and every check.          *)
THEOREM LoadInvariant == LoadSpec => []LoadInv
<1>1. LoadInit => LoadInv
  <2> SUFFICES ASSUME LoadInit PROVE LoadInv
    OBVIOUS
  <2>1. /\ size \in Nat /\ offset = 0 /\ field = 0 /\ keysLeft = 0 /\ recordsLeft = 0
        /\ reserved = 0 /\ load_pc = "keyCount" /\ ~refused /\ refused \in BOOLEAN
    BY ReadsNat DEF LoadInit
  <2>2. LoadStaysInBounds
    BY <2>1 DEF LoadStaysInBounds, MIN_RECORD_BYTES
  <2>3. LoadRefusesOnlyShort
    BY <2>1 DEF LoadRefusesOnlyShort
  <2> QED
    BY <2>1, <2>2, <2>3 DEF LoadInv
<1>2. LoadInv /\ [LoadNext]_loadVars => LoadInv'
  <2> SUFFICES ASSUME LoadInv, [LoadNext]_loadVars PROVE LoadInv'
    OBVIOUS
  <2>1. CASE LoadNext
    BY <2>1, KeyCountStep, KeyStep, RecordCountStep, RecordStep DEF LoadNext
  <2>2. CASE UNCHANGED loadVars
    <3>1. Demand' = Demand /\ Left' = Left
      BY <2>2 DEF loadVars, Demand, Unfinished, RecordsAhead, KeysAhead, Left
    <3> QED
      BY <2>2, <3>1 DEF loadVars, LoadInv, LoadStaysInBounds, LoadRefusesOnlyShort
  <2> QED
    BY <2>1, <2>2
<1> QED
  BY <1>1, <1>2, PTL DEF LoadSpec

(* Whatever a payload with a good CRC claims, load() does not read past    *)
(* its end, and reserves room for no more records than it could hold.      *)
THEOREM LoadInBounds == LoadSpec => []LoadStaysInBounds
BY LoadInvariant, PTL DEF LoadInv

(* load() refuses a payload only when it is too short for the counts and   *)
(* lengths in it.                                                          *)
THEOREM LoadAcceptsWhatFits == LoadSpec => []LoadRefusesOnlyShort
BY LoadInvariant, PTL DEF LoadInv


-----------------------------------------------------------------------------
(* The bytes that save() writes. *)

(* The bytes of a key's records, and of a key with its records. *)
RecordBytes(h) == FoldLeft(LAMBDA sum, len : sum + MIN_RECORD_BYTES + len, 0, h)
KeyBytes(img) == [k \in DOMAIN img |-> MIN_KEY_BYTES + k.len + RecordBytes(img[k])]

(* The keys and the images that load() builds. *)
Keys == [len : Nat, text : Texts \cup {""}]
Images == UNION {[D -> Seq(Nat)] : D \in {E \in SUBSET Keys : IsFiniteSet(E)}}

(* A key has a length. *)
LEMMA KeyLength ==
    \A k \in Keys : k.len \in Nat
BY DEF Keys

(* A key of n bytes has the length n. *)
LEMMA KeyOfLength ==
    ASSUME NEW n \in Nat, NEW key \in KeysOf(n)
    PROVE  key \in Keys /\ key.len = n /\ key.len \in Nat
BY DEF KeysOf, Keys

(* A non-empty set of positions in a sequence has a last one. *)
LEMMA LastPosition ==
    ASSUME NEW n \in Nat, NEW s \in SUBSET (1..n), s # {}
    PROVE  Max(s) \in s
<1> DEFINE R == {n - x : x \in s}
<1>1. R \subseteq Nat /\ R # {}
  <2>1. PICK x \in s : TRUE
    OBVIOUS
  <2>2. n - x \in R
    OBVIOUS
  <2>3. \A y \in s : n - y \in Nat
    OBVIOUS
  <2> QED
    BY <2>2, <2>3
<1> HIDE DEF R
<1>2. PICK r \in R : \A y \in R : r <= y
  BY <1>1, SmallestMember
<1>3. PICK m \in s : r = n - m
  BY DEF R
<1>4. \A y \in s : m >= y
  <2>1. \A y \in s : n - y \in R
    BY DEF R
  <2> QED
    BY <1>2, <1>3, <2>1
<1> QED
  BY <1>4 DEF Max

(* The fold over a history is the sum of its records' sizes. *)
LEMMA RecordTotals ==
    ASSUME NEW h \in Seq(Nat)
    PROVE  \E f \in Totals(1..Len(h), [i \in 1..Len(h) |-> MIN_RECORD_BYTES + h[i]]) :
             RecordBytes(h) = f[1..Len(h)]
<1> DEFINE n == Len(h)
           w == [i \in 1..n |-> MIN_RECORD_BYTES + h[i]]
           ch == [s \in SUBSET (1..n) |-> Max(s)]
           Equation(f) == f = [s \in SUBSET (1..n) |->
                                 IF s = {} THEN 0
                                 ELSE f[s \ {Max(s)}] + MIN_RECORD_BYTES + h[Max(s)]]
           r == CHOOSE f : Equation(f)
<1>1. n \in Nat /\ DOMAIN h = 1..n /\ \A i \in 1..n : h[i] \in Nat
  BY LenProperties, ElementOfSeq
<1>2. RecordBytes(h) = r[1..n]
  BY <1>1 DEF RecordBytes, FoldLeft, MapThenFoldSet
<1> HIDE DEF n
<1>3. IsFiniteSet(1..n) /\ w \in [1..n -> Int] /\ Chooser(1..n, ch)
  <2>1. IsFiniteSet(1..n)
    BY <1>1, FS_Interval
  <2>2. w \in [1..n -> Int]
    BY <1>1 DEF MIN_RECORD_BYTES
  <2>3. Chooser(1..n, ch)
    BY <1>1, LastPosition DEF Chooser
  <2> QED
    BY <2>1, <2>2, <2>3
<1>4. PICK f : FoldOf(1..n, w, ch, f)
  <2> HIDE DEF w, ch
  <2> QED
    BY <1>3, FoldExists
<1>5. f \in Totals(1..n, w)
  <2> HIDE DEF w, ch
  <2> QED
    BY <1>3, <1>4, FoldTotals
<1>6. f \in [SUBSET (1..n) -> Int] /\ f[{}] = 0
  BY <1>5 DEF Totals
<1>7. ASSUME NEW s \in SUBSET (1..n), s # {}
      PROVE  /\ Max(s) \in s /\ s \ {Max(s)} \in SUBSET (1..n)
             /\ f[s] = f[s \ {Max(s)}] + MIN_RECORD_BYTES + h[Max(s)]
  <2>1. Max(s) \in s
    BY <1>1, <1>7, LastPosition
  <2>2. f[s] = w[Max(s)] + f[s \ {Max(s)}]
    BY <1>5, <2>1 DEF Totals
  <2>3. f[s \ {Max(s)}] \in Int /\ h[Max(s)] \in Nat /\ w[Max(s)] = MIN_RECORD_BYTES + h[Max(s)]
    BY <1>1, <1>6, <2>1
  <2> HIDE DEF w
  <2>4. \A a \in Int, b \in Nat : (MIN_RECORD_BYTES + b) + a = a + MIN_RECORD_BYTES + b
    BY DEF MIN_RECORD_BYTES
  <2>5. f[s] = f[s \ {Max(s)}] + MIN_RECORD_BYTES + h[Max(s)]
    BY <2>2, <2>3, <2>4
  <2> QED
    BY <2>1, <2>5
<1>8. Equation(f)
  BY <1>6, <1>7
<1>9. Equation(r)
  BY <1>8
<1>10. /\ r[{}] = 0
       /\ \A s \in SUBSET (1..n) : s # {} => r[s] = r[s \ {Max(s)}] + MIN_RECORD_BYTES + h[Max(s)]
  <2> HIDE DEF r
  <2> QED
    BY <1>9
<1> HIDE DEF r, Equation
<1> DEFINE P == {s \in SUBSET (1..n) : r[s] = f[s]}
<1>11. SUBSET (1..n) \subseteq P
  <2>1. ASSUME NEW s \in SUBSET (1..n), \A x \in s : s \ {x} \in P
        PROVE  s \in P
    <3>1. CASE s = {}
      BY <1>6, <1>10, <3>1
    <3>2. CASE s # {}
      BY <1>7, <1>10, <2>1, <3>2
    <3> QED
      BY <3>1, <3>2
  <2> HIDE DEF P
  <2> QED
    BY <1>3, <2>1, SubsetInduction
<1>12. r[1..n] = f[1..n]
  BY <1>11
<1> QED
  BY <1>2, <1>5, <1>12 DEF n


(* Records add their bytes one by one. *)
LEMMA RecordBytesFacts ==
    /\ RecordBytes(<<>>) = 0
    /\ \A h \in Seq(Nat) :
         /\ RecordBytes(h) \in Int
         /\ \A len \in Nat : RecordBytes(Append(h, len)) = RecordBytes(h) + (MIN_RECORD_BYTES + len)
<1> DEFINE W(h) == [i \in 1..Len(h) |-> MIN_RECORD_BYTES + h[i]]
<1>1. RecordBytes(<<>>) = 0
  <2>1. <<>> \in Seq(Nat) /\ Len(<<>>) = 0 /\ 1..0 = {}
    OBVIOUS
  <2>2. PICK f \in Totals(1..Len(<<>>), W(<<>>)) : RecordBytes(<<>>) = f[1..Len(<<>>)]
    BY <2>1, RecordTotals
  <2>3. f[{}] = 0
    BY DEF Totals
  <2> QED
    BY <2>1, <2>2, <2>3
<1>2. ASSUME NEW h \in Seq(Nat)
      PROVE  RecordBytes(h) \in Int
  <2>1. PICK f \in Totals(1..Len(h), W(h)) : RecordBytes(h) = f[1..Len(h)]
    BY RecordTotals
  <2>2. f[1..Len(h)] \in Int
    BY DEF Totals
  <2> QED
    BY <2>1, <2>2
<1>3. ASSUME NEW h \in Seq(Nat), NEW len \in Nat
      PROVE  RecordBytes(Append(h, len)) = RecordBytes(h) + (MIN_RECORD_BYTES + len)
  <2> DEFINE n == Len(h)
             g == Append(h, len)
  <2>1. /\ n \in Nat /\ g \in Seq(Nat) /\ Len(g) = n + 1 /\ g[n + 1] = len
        /\ \A i \in 1..n : g[i] = h[i]
    BY LenProperties, AppendProperties
  <2>2. PICK f \in Totals(1..n, W(h)) : RecordBytes(h) = f[1..n]
    BY RecordTotals
  <2>3. PICK e \in Totals(1..(n + 1), W(g)) : RecordBytes(g) = e[1..(n + 1)]
    <3> HIDE DEF g
    <3> QED
      BY <2>1, RecordTotals
  <2> HIDE DEF g, n
  <2>4. /\ 1..n \subseteq 1..(n + 1) /\ n + 1 \in 1..(n + 1) /\ (1..(n + 1)) \ {n + 1} = 1..n
        /\ IsFiniteSet(1..n)
    <3>1. IsFiniteSet(1..n)
      BY <2>1, FS_Interval
    <3>2. \A i \in Int : i \in 1..(n + 1) /\ i # n + 1 <=> i \in 1..n
      BY <2>1
    <3>3. 1..n \subseteq Int /\ 1..(n + 1) \subseteq Int /\ n + 1 \in 1..(n + 1)
      BY <2>1
    <3>4. (1..(n + 1)) \ {n + 1} = 1..n
      BY <3>2, <3>3, Zenon
    <3> QED
      BY <3>1, <3>3, <3>4, Zenon
  <2>5. (\A x \in 1..n : W(g)[x] = W(h)[x]) /\ W(g)[n + 1] = MIN_RECORD_BYTES + len
    BY <2>1 DEF n
  <2> HIDE DEF W
  <2>6. e[1..n] = f[1..n]
    <3>1. f \in Totals(1..n, W(h)) /\ e \in Totals(1..(n + 1), W(g))
      OBVIOUS
    <3> DEFINE v == W(h)
               u == W(g)
               T == 1..n
               U == 1..(n + 1)
    <3>2. f \in Totals(T, v) /\ e \in Totals(U, u) /\ \A x \in T : u[x] = v[x]
      BY <2>5, <3>1
    <3>3. IsFiniteSet(T) /\ T \subseteq U
      BY <2>4
    <3> HIDE DEF u, v, T, U
    <3>4. e[T] = f[T]
      BY <3>2, <3>3, TotalsAgree
    <3> QED
      BY <3>4 DEF T
  <2>7. e[1..(n + 1)] = W(g)[n + 1] + e[(1..(n + 1)) \ {n + 1}] /\ e[1..n] \in Int
    BY <2>4 DEF Totals
  <2>8. RecordBytes(g) = (MIN_RECORD_BYTES + len) + RecordBytes(h) /\ RecordBytes(h) \in Int
    BY <2>2, <2>3, <2>4, <2>5, <2>6, <2>7
  <2>9. \A a \in Int : (MIN_RECORD_BYTES + len) + a = a + (MIN_RECORD_BYTES + len)
    BY DEF MIN_RECORD_BYTES
  <2> QED
    BY <2>8, <2>9 DEF g
<1> QED
  BY <1>1, <1>2, <1>3

(* The fold over the keys is the sum of their sizes. *)
LEMMA ImageTotals ==
    ASSUME NEW img \in Images
    PROVE  /\ IsFiniteSet(DOMAIN img) /\ KeyBytes(img) \in [DOMAIN img -> Int]
           /\ \E f \in Totals(DOMAIN img, KeyBytes(img)) : SavedBytes(img) = 12 + f[DOMAIN img]
<1> DEFINE D == DOMAIN img
           w == KeyBytes(img)
           Choice(s) == CHOOSE x \in s : TRUE
           ch == [s \in SUBSET D |-> Choice(s)]
           Equation(f) == f = [s \in SUBSET D |->
                                 IF s = {} THEN 0
                                 ELSE (4 + Choice(s).len + 4 + RecordBytes(img[Choice(s)])) + f[s \ {Choice(s)}]]
           r == CHOOSE f : Equation(f)
<1>1. D \subseteq Keys /\ IsFiniteSet(D) /\ \A k \in D : img[k] \in Seq(Nat) /\ k.len \in Nat
  <2>1. D \subseteq Keys /\ IsFiniteSet(D) /\ \A k \in D : img[k] \in Seq(Nat)
    BY DEF Images
  <2> QED
    BY <2>1, KeyLength
<1>2. SavedBytes(img) = 12 + r[D]
  <2>1. SavedBytes(img) = 8 + 4 + r[D]
    BY DEF SavedBytes, RecordBytes, MapThenSumSet, MapThenFoldSet
  <2> QED
    BY <2>1
<1> HIDE DEF D
<1>3. \A k \in D : w[k] = 4 + k.len + 4 + RecordBytes(img[k]) /\ w[k] \in Int
  BY <1>1, RecordBytesFacts DEF KeyBytes, MIN_KEY_BYTES, D
<1>4. w \in [D -> Int]
  BY <1>3 DEF KeyBytes, D
<1>5. \A s \in SUBSET D : s # {} => Choice(s) \in s
  OBVIOUS
<1> HIDE DEF Choice, w
<1>6. Chooser(D, ch)
  BY <1>5 DEF Chooser
<1>7. PICK f : FoldOf(D, w, ch, f)
  <2> HIDE DEF ch
  <2> QED
    BY <1>1, <1>4, <1>6, FoldExists
<1>8. f \in Totals(D, w)
  <2> HIDE DEF ch
  <2> QED
    BY <1>1, <1>4, <1>6, <1>7, FoldTotals
<1>9. Equation(f)
  <2>1. \A s \in SUBSET D : s # {} => w[ch[s]] = 4 + Choice(s).len + 4 + RecordBytes(img[Choice(s)])
    BY <1>3, <1>5
  <2>2. f = [s \in SUBSET D |-> IF s = {} THEN 0 ELSE w[ch[s]] + f[s \ {ch[s]}]]
    BY <1>7 DEF FoldOf
  <2> QED
    BY <2>1, <2>2
<1>10. Equation(r)
  BY <1>9
<1>11. /\ r[{}] = 0
       /\ \A s \in SUBSET D : s # {} => r[s] = w[Choice(s)] + r[s \ {Choice(s)}]
  <2> HIDE DEF r
  <2> QED
    BY <1>3, <1>5, <1>10
<1>12. /\ f[{}] = 0
       /\ \A s \in SUBSET D : s # {} => f[s] = w[Choice(s)] + f[s \ {Choice(s)}]
  BY <1>5, <1>8 DEF Totals
<1> HIDE DEF r, Equation
<1> DEFINE P == {s \in SUBSET D : r[s] = f[s]}
<1>13. SUBSET D \subseteq P
  <2>1. ASSUME NEW s \in SUBSET D, \A x \in s : s \ {x} \in P
        PROVE  s \in P
    <3>1. CASE s = {}
      BY <1>11, <1>12, <3>1
    <3>2. CASE s # {}
      BY <1>5, <1>11, <1>12, <2>1, <3>2
    <3> QED
      BY <3>1, <3>2
  <2> HIDE DEF P
  <2> QED
    BY <1>1, <2>1, SubsetInduction
<1>14. r[D] = f[D]
  BY <1>13
<1> QED
  BY <1>1, <1>2, <1>4, <1>8, <1>14 DEF D, w


(* The header alone; a new key; a record more. *)
LEMMA SavedNothing ==
    ASSUME NEW img, img = [k \in {} |-> <<>>]
    PROVE  img \in Images /\ SavedBytes(img) = 12
<1>1. img \in Images /\ DOMAIN img = {}
  <2>1. {} \in {E \in SUBSET Keys : IsFiniteSet(E)}
    BY FS_EmptySet
  <2>2. img \in [{} -> Seq(Nat)] /\ DOMAIN img = {}
    OBVIOUS
  <2> QED
    BY <2>1, <2>2 DEF Images
<1>2. PICK f \in Totals(DOMAIN img, KeyBytes(img)) : SavedBytes(img) = 12 + f[DOMAIN img]
  BY <1>1, ImageTotals
<1>3. f[{}] = 0
  BY DEF Totals
<1> QED
  BY <1>1, <1>2, <1>3

LEMMA SavedKey ==
    ASSUME NEW img \in Images, NEW key \in Keys, key \notin DOMAIN img,
           NEW new, new = [k \in DOMAIN img \cup {key} |-> IF k \in DOMAIN img THEN img[k] ELSE <<>>]
    PROVE  new \in Images /\ SavedBytes(new) = SavedBytes(img) + (8 + key.len)
<1> DEFINE D == DOMAIN img
           E == D \cup {key}
<1>1. D \subseteq Keys /\ IsFiniteSet(D) /\ \A k \in D : img[k] \in Seq(Nat)
  BY DEF Images
<1>2. IsFiniteSet(E) /\ E \subseteq Keys /\ E \ {key} = D /\ D \subseteq E /\ key \in E
  BY <1>1, FS_AddElement
<1>3. DOMAIN new = E /\ new[key] = <<>> /\ \A k \in D : new[k] = img[k]
  OBVIOUS
<1> HIDE DEF E, D
<1>4. new \in Images
  <2>1. \A k \in E : new[k] \in Seq(Nat)
    BY <1>1, <1>3 DEF E, D
  <2>2. new \in [E -> Seq(Nat)]
    BY <1>3, <2>1 DEF E, D
  <2> QED
    BY <1>2, <2>2 DEF Images
<1> DEFINE w == KeyBytes(img)
           v == KeyBytes(new)
<1>5. PICK f \in Totals(D, w) : SavedBytes(img) = 12 + f[D]
  BY ImageTotals DEF D
<1>6. PICK g \in Totals(E, v) : SavedBytes(new) = 12 + g[E]
  BY <1>3, <1>4, ImageTotals
<1>7. (\A k \in D : v[k] = w[k]) /\ v[key] = 8 + key.len /\ key.len \in Nat
  <2>1. key.len \in Nat
    BY KeyLength
  <2>2. \A k \in D : v[k] = w[k]
    BY <1>2, <1>3 DEF KeyBytes, D
  <2>3. v[key] = 8 + key.len
    <3>1. v[key] = MIN_KEY_BYTES + key.len + RecordBytes(<<>>)
      BY <1>2, <1>3 DEF KeyBytes
    <3> QED
      BY <2>1, <3>1, RecordBytesFacts DEF MIN_KEY_BYTES
  <2> QED
    BY <2>1, <2>2, <2>3
<1> HIDE DEF w, v
<1>8. g[D] = f[D]
  <2>1. f \in Totals(D, w) /\ g \in Totals(E, v) /\ \A k \in D : v[k] = w[k]
    BY <1>7
  <2>2. IsFiniteSet(D) /\ D \subseteq D /\ D \subseteq E
    BY <1>1, <1>2
  <2> QED
    BY <2>1, <2>2, TotalsAgree
<1>9. g[E] = v[key] + g[D] /\ f[D] \in Int
  BY <1>2, <1>5, <1>6 DEF Totals
<1> QED
  BY <1>4, <1>5, <1>6, <1>7, <1>8, <1>9

LEMMA SavedRecord ==
    ASSUME NEW img \in Images, NEW key \in DOMAIN img, NEW len \in Nat,
           NEW new, new = [img EXCEPT ![key] = Append(@, len)]
    PROVE  new \in Images /\ SavedBytes(new) = SavedBytes(img) + (20 + len)
<1> DEFINE D == DOMAIN img
           R == D \ {key}
<1>1. D \subseteq Keys /\ IsFiniteSet(D) /\ img \in [D -> Seq(Nat)]
  BY DEF Images
<1>2. IsFiniteSet(R) /\ R \subseteq D /\ key \in D
  BY <1>1, FS_RemoveElement
<1>3. DOMAIN new = D /\ new[key] = Append(img[key], len) /\ \A k \in R : new[k] = img[k]
  <2>1. new = [k \in D |-> IF k = key THEN Append(img[k], len) ELSE img[k]]
    BY <1>1
  <2> QED
    BY <1>2, <2>1
<1>4. new \in Images
  <2>1. new \in [D -> Seq(Nat)]
    BY <1>1
  <2> QED
    BY <1>1, <2>1 DEF Images
<1> HIDE DEF D, R
<1> DEFINE w == KeyBytes(img)
           v == KeyBytes(new)
<1>5. PICK f \in Totals(D, w) : SavedBytes(img) = 12 + f[D]
  BY ImageTotals DEF D
<1>6. PICK g \in Totals(D, v) : SavedBytes(new) = 12 + g[D]
  BY <1>3, <1>4, ImageTotals
<1>7. img[key] \in Seq(Nat) /\ RecordBytes(img[key]) \in Int /\ key.len \in Nat
  BY <1>1, <1>2, RecordBytesFacts DEF Keys
<1>8. v[key] = w[key] + (20 + len) /\ w[key] \in Int
  <2>1. RecordBytes(new[key]) = RecordBytes(img[key]) + (20 + len)
    BY <1>3, <1>7, RecordBytesFacts DEF MIN_RECORD_BYTES
  <2>2. v[key] = 8 + key.len + RecordBytes(new[key]) /\ w[key] = 8 + key.len + RecordBytes(img[key])
    BY <1>2, <1>3 DEF KeyBytes, MIN_KEY_BYTES, D
  <2>3. \A a \in Int : /\ 8 + key.len + (a + (20 + len)) = (8 + key.len + a) + (20 + len)
                       /\ 8 + key.len + a \in Int
    BY <1>7
  <2> HIDE DEF w, v
  <2> QED
    BY <1>7, <2>1, <2>2, <2>3
<1>9. \A k \in R : v[k] = w[k]
  BY <1>2, <1>3 DEF KeyBytes, D
<1> HIDE DEF w, v
<1>10. f[D] = w[key] + f[R] /\ g[D] = v[key] + g[R] /\ f[R] \in Int
  BY <1>2, <1>5, <1>6 DEF Totals, R
<1>11. g[R] = f[R]
  BY <1>2, <1>5, <1>6, <1>9, TotalsAgree
<1> QED
  BY <1>4, <1>5, <1>6, <1>8, <1>10, <1>11


-----------------------------------------------------------------------------
(* load() reads what save() writes. *)

(* The bytes read of the item in progress. *)
InProgress ==
    IF load_pc = "key" THEN 4
    ELSE IF load_pc = "recordCount" THEN 4 + current.len
    ELSE IF load_pc = "checkRecordCount" THEN 4 + current.len + 4
    ELSE IF load_pc = "value" THEN MIN_RECORD_BYTES
    ELSE 0

(* The inductive invariant: load() has passed the bytes of the image built *)
(* so far, of the keys that had come before and of the item in progress; a *)
(* record goes to a key that is in the image.                              *)
ParseInv ==
    /\ state \in Images /\ current \in Keys /\ merged \in Nat
    /\ load_pc \in {"record", "value"} => current \in DOMAIN state
    /\ load_pc = "keyCount" => state = [k \in {} |-> <<>>] /\ offset = 0 /\ merged = 0
    /\ load_pc # "keyCount" => offset = SavedBytes(state) + merged + InProgress

(* The sizes add up as integers. *)
LEMMA ParseInts ==
    ASSUME LoadInv, ParseInv
    PROVE  /\ InProgress \in Int /\ SavedBytes(state) \in Int /\ offset \in Int
           /\ field \in Nat /\ current.len \in Nat /\ merged \in Nat
<1>1. PICK f \in Totals(DOMAIN state, KeyBytes(state)) : SavedBytes(state) = 12 + f[DOMAIN state]
  BY ImageTotals DEF ParseInv
<1>2. f[DOMAIN state] \in Int
  BY DEF Totals
<1>3. current.len \in Nat
  BY KeyLength DEF ParseInv
<1> QED
  BY <1>1, <1>2, <1>3 DEF InProgress, ParseInv, LoadInv, MIN_RECORD_BYTES

(* Where an item is read the image does not change. *)
LEMMA ParseItem ==
    ASSUME LoadInv, ParseInv, NEW n \in Nat,
           state' = state, merged' = merged, current' \in Keys,
           load_pc # "keyCount", load_pc' # "keyCount",
           load_pc' \in {"record", "value"} => load_pc \in {"record", "value"} /\ current' = current,
           offset' = offset + n, InProgress' = InProgress + n
    PROVE  ParseInv'
<1>1. InProgress \in Int /\ SavedBytes(state) \in Int /\ offset \in Int /\ merged \in Nat
  BY ParseInts
<1>2. /\ state' \in Images /\ current' \in Keys /\ merged' \in Nat
      /\ load_pc' \in {"record", "value"} => current' \in DOMAIN state'
  BY DEF ParseInv
<1>3. offset' = SavedBytes(state') + merged' + InProgress'
  <2>1. offset = SavedBytes(state) + merged + InProgress
    BY DEF ParseInv
  <2>2. offset + n = SavedBytes(state) + merged + (InProgress + n)
    BY <1>1, <2>1
  <2> QED
    BY <2>2
<1> QED
  BY <1>2, <1>3 DEF ParseInv


(* Every step of load() keeps the invariant. *)
LEMMA ParseStep ==
    ASSUME LoadInv, ParseInv, LoadNext
    PROVE  ParseInv'
<1>0. /\ \A n \in Counts : n \in Nat
      /\ InProgress \in Int /\ SavedBytes(state) \in Int /\ offset \in Int
      /\ field \in Nat /\ current \in Keys /\ current.len \in Nat /\ merged \in Nat
  BY ReadsNat, ParseInts DEF ParseInv
<1>1. CASE Refuse
  BY <1>1 DEF Refuse, ParseInv, InProgress
<1>2. CASE ReadKeyCount /\ ~Refuse
  <2>1. /\ load_pc = "keyCount" /\ load_pc' = "checkKeyCount" /\ offset' = offset + 12
        /\ state' = state /\ current' = current /\ merged' = merged
    BY <1>2 DEF ReadKeyCount, ReadFails, ReadLE
  <2>2. state = [k \in {} |-> <<>>] /\ offset = 0 /\ merged = 0
    BY <2>1 DEF ParseInv
  <2>3. state' \in Images /\ SavedBytes(state') = 12
    BY <2>1, <2>2, SavedNothing
  <2>4. InProgress' = 0
    BY <2>1 DEF InProgress
  <2> QED
    BY <1>0, <2>1, <2>2, <2>3, <2>4 DEF ParseInv
<1>3. CASE CheckKeyCount /\ ~Refuse
  <2>1. /\ load_pc = "checkKeyCount" /\ load_pc' \in {"accepted", "keyLen"} /\ offset' = offset + 0
        /\ state' = state /\ current' = current /\ merged' = merged
    BY <1>0, <1>3 DEF CheckKeyCount
  <2>2. InProgress' = InProgress + 0
    BY <2>1 DEF InProgress
  <2> QED
    BY <1>0, <2>1, <2>2, ParseItem
<1>4. CASE ReadKeyLen /\ ~Refuse
  <2>1. /\ load_pc = "keyLen" /\ load_pc' = "key" /\ offset' = offset + 4
        /\ state' = state /\ current' = current /\ merged' = merged
    BY <1>4 DEF ReadKeyLen, ReadFails, ReadLE
  <2>2. InProgress' = InProgress + 4
    BY <2>1 DEF InProgress
  <2> QED
    BY <1>0, <2>1, <2>2, ParseItem
<1>5. CASE ReadKey /\ ~Refuse
  <2>1. /\ load_pc = "key" /\ load_pc' = "recordCount" /\ offset' = offset + field
        /\ state' = state /\ current' \in KeysOf(field) /\ merged' = merged
    BY <1>5 DEF ReadKey, Skipped
  <2>3. current' \in Keys /\ current'.len = field
    BY <1>0, <2>1, KeyOfLength
  <2>2. InProgress' = InProgress + field
    BY <2>1, <2>3 DEF InProgress
  <2> QED
    BY <1>0, <2>1, <2>2, <2>3, ParseItem
<1>6. CASE ReadRecordCount /\ ~Refuse
  <2>1. /\ load_pc = "recordCount" /\ load_pc' = "checkRecordCount" /\ offset' = offset + 4
        /\ state' = state /\ current' = current /\ merged' = merged
    BY <1>6 DEF ReadRecordCount, ReadFails, ReadLE
  <2>2. InProgress' = InProgress + 4
    BY <2>1 DEF InProgress
  <2> QED
    BY <1>0, <2>1, <2>2, ParseItem
<1>7. CASE ReserveRecords /\ ~Refuse
  <2>1. /\ load_pc = "checkRecordCount" /\ load_pc' \in {"accepted", "keyLen", "record"}
        /\ merged' = merged + IF current \in DOMAIN state THEN MIN_KEY_BYTES + current.len ELSE 0
        /\ state' = [k \in DOMAIN state \cup {current} |->
                       IF k \in DOMAIN state THEN state[k] ELSE <<>>]
        /\ offset' = offset /\ current' = current
    BY <1>7 DEF ReserveRecords, NextKey
  <2>2. current \in DOMAIN state' /\ InProgress' = 0 /\ InProgress = 4 + current.len + 4
    BY <2>1 DEF InProgress
  <2>5. offset = SavedBytes(state) + merged + (4 + current.len + 4)
    BY <2>1, <2>2 DEF ParseInv
  <2>3. CASE current \in DOMAIN state
    <3>1. state' = state
      <4>1. DOMAIN state \cup {current} = DOMAIN state
        BY <2>3
      <4>2. state = [k \in DOMAIN state |-> state[k]]
        BY DEF ParseInv, Images
      <4> QED
        BY <2>1, <4>1, <4>2
    <3>2. merged' = merged + (8 + current.len)
      BY <2>1, <2>3 DEF MIN_KEY_BYTES
    <3>3. merged' \in Nat /\ offset = SavedBytes(state) + merged' + 0
      BY <1>0, <2>5, <3>2
    <3> QED
      BY <1>0, <2>1, <2>2, <3>1, <3>3 DEF ParseInv
  <2>4. CASE current \notin DOMAIN state
    <3>1. state' \in Images /\ SavedBytes(state') = SavedBytes(state) + (8 + current.len)
      BY <1>0, <2>1, <2>4, SavedKey DEF ParseInv
    <3>2. merged' = merged
      BY <1>0, <2>1, <2>4
    <3>3. offset = SavedBytes(state') + merged + 0
      BY <1>0, <2>5, <3>1
    <3> QED
      BY <1>0, <2>1, <2>2, <3>1, <3>2, <3>3 DEF ParseInv
  <2> QED
    BY <2>3, <2>4
<1>8. CASE ReadRecord /\ ~Refuse
  <2>1. /\ load_pc = "record" /\ load_pc' = "value" /\ offset' = offset + 20
        /\ state' = state /\ current' = current /\ merged' = merged
    BY <1>8 DEF ReadRecord, ReadFails, ReadLE
  <2>2. InProgress' = InProgress + 20
    BY <2>1 DEF InProgress, MIN_RECORD_BYTES
  <2> QED
    BY <1>0, <2>1, <2>2, ParseItem
<1>9. CASE ReadValue /\ ~Refuse
  <2>1. /\ load_pc = "value" /\ load_pc' \in {"accepted", "keyLen", "record"}
        /\ state' = [state EXCEPT ![current] = Append(@, field)]
        /\ offset' = offset + field /\ current' = current /\ merged' = merged
    BY <1>9 DEF ReadValue, NextKey
  <2>2. current \in DOMAIN state /\ DOMAIN state' = DOMAIN state
    BY <2>1 DEF ParseInv
  <2>3. state' \in Images /\ SavedBytes(state') = SavedBytes(state) + (20 + field)
    BY <1>0, <2>1, <2>2, SavedRecord DEF ParseInv
  <2>4. InProgress' = 0 /\ InProgress = 20
    BY <2>1 DEF InProgress, MIN_RECORD_BYTES
  <2>5. offset' = SavedBytes(state') + merged + InProgress'
    BY <1>0, <2>1, <2>3, <2>4 DEF ParseInv
  <2> QED
    BY <1>0, <2>1, <2>2, <2>3, <2>5 DEF ParseInv
<1> QED
  BY <1>1, <1>2, <1>3, <1>4, <1>5, <1>6, <1>7, <1>8, <1>9 DEF LoadNext

(* The bytes that load() consumes of a payload it accepts are those that   *)
(* save() writes for the image it has built, for images of any number of   *)
(* keys and records, and once more the header of every key that came       *)
(* again.  Bytes behind them it does not look at.                          *)
THEOREM LoadConsumesSaved == LoadSpec => []LoadReadsWhatSaveWrites
<1>1. LoadInit => ParseInv
  <2> SUFFICES ASSUME LoadInit PROVE ParseInv
    OBVIOUS
  <2>1. /\ state = [k \in {} |-> <<>>] /\ offset = 0 /\ load_pc = "keyCount" /\ merged = 0
        /\ current \in Keys
    BY KeyOfLength DEF LoadInit
  <2>2. state \in Images
    BY <2>1, SavedNothing
  <2> QED
    BY <2>1, <2>2 DEF ParseInv
<1>2. LoadInv /\ ParseInv /\ [LoadNext]_loadVars => ParseInv'
  <2>1. ASSUME ParseInv, UNCHANGED loadVars
        PROVE  ParseInv'
    BY <2>1 DEF ParseInv, loadVars, InProgress
  <2> QED
    BY <2>1, ParseStep
<1>3. LoadInv /\ ParseInv => LoadReadsWhatSaveWrites
  <2> SUFFICES ASSUME LoadInv, ParseInv, load_pc = "accepted"
               PROVE  offset = SavedBytes(state) + merged
    BY DEF LoadReadsWhatSaveWrites
  <2>1. InProgress = 0
    BY DEF InProgress
  <2> QED
    BY <2>1, ParseInts DEF ParseInv
<1> QED
  BY <1>1, <1>2, <1>3, LoadInvariant, PTL DEF LoadSpec
=============================================================================
