--------------------------- MODULE Encoding_proofs ---------------------------
(***************************************************************************)
(* The checksum, the stored words and the padding of the hash, for every   *)
(* message.                                                                *)
(***************************************************************************)
EXTENDS CRC32, SHA256, Iteration_proofs, SequenceTheorems

-----------------------------------------------------------------------------
(* Words: which bits are set. *)

LEMMA SameBits ==
    ASSUME NEW v \in SUBSET Nat, NEW w \in SUBSET Nat, \A x \in Nat : x \in v <=> x \in w
    PROVE  v = w
OBVIOUS

LEMMA XorBits ==
    ASSUME NEW v, NEW w
    PROVE  \A x : x \in Xor(v, w) <=> ~(x \in v <=> x \in w)
BY DEF Xor

LEMMA ShiftRightBits ==
    ASSUME NEW v \in SUBSET Nat, NEW n \in Nat
    PROVE  /\ ShiftRight(v, n) \in SUBSET Nat
           /\ \A x \in Nat : x \in ShiftRight(v, n) <=> x + n \in v
<1>1. ASSUME NEW x \in Nat, x + n \in v
      PROVE  x \in ShiftRight(v, n)
  <2>1. x = (x + n) - n /\ x + n >= n
    OBVIOUS
  <2> QED
    BY <1>1, <2>1 DEF ShiftRight
<1>2. ASSUME NEW x \in ShiftRight(v, n)
      PROVE  x \in Nat /\ x + n \in v
  <2>1. PICK b \in v : b >= n /\ x = b - n
    BY <1>2 DEF ShiftRight
  <2>2. b \in Nat
    OBVIOUS
  <2>3. x \in Nat /\ x + n = b
    BY <2>1, <2>2
  <2> QED
    BY <2>3
<1> QED
  BY <1>1, <1>2

LEMMA ShiftLeftBits ==
    ASSUME NEW v \in SUBSET Nat, NEW n \in Nat
    PROVE  /\ ShiftLeft(v, n) \in SUBSET Nat
           /\ \A x \in Nat : x \in ShiftLeft(v, n) <=> x >= n /\ x - n \in v
<1>1. ASSUME NEW x \in Nat, x >= n, x - n \in v
      PROVE  x \in ShiftLeft(v, n)
  <2>1. x = (x - n) + n
    OBVIOUS
  <2> QED
    BY <1>1, <2>1 DEF ShiftLeft
<1>2. ASSUME NEW x \in ShiftLeft(v, n)
      PROVE  x \in Nat /\ x >= n /\ x - n \in v
  <2>1. PICK b \in v : x = b + n
    BY <1>2 DEF ShiftLeft
  <2>2. b \in Nat
    OBVIOUS
  <2>3. x \in Nat /\ x >= n /\ x - n = b
    BY <2>1, <2>2
  <2> QED
    BY <2>3
<1> QED
  BY <1>1, <1>2

LEMMA LowBits ==
    ASSUME NEW v \in SUBSET Nat, NEW n \in Nat
    PROVE  /\ Low(v, n) \in SUBSET Nat
           /\ \A x \in Nat : x \in Low(v, n) <=> x < n /\ x \in v
BY DEF Low

LEMMA WordBits ==
    ASSUME NEW n \in Nat
    PROVE  \A v : v \in Word(n) <=> v \in SUBSET Nat /\ \A x \in v : x < n
BY DEF Word

-----------------------------------------------------------------------------
(* Words stored byte by byte. *)

(* A byte of a stored word. *)
LEMMA StoredByte ==
    ASSUME NEW v \in SUBSET Nat, NEW bytes \in Nat, NEW i \in 1..bytes
    PROVE  /\ putLE(v, bytes)[i] \in SUBSET Nat
           /\ \A x \in Nat : x \in putLE(v, bytes)[i] <=> x < 8 /\ x + 8 * (i - 1) \in v
<1>1. putLE(v, bytes)[i] = Low(ShiftRight(v, 8 * (i - 1)), 8)
  BY DEF putLE
<1>2. 8 * (i - 1) \in Nat
  OBVIOUS
<1>3. /\ ShiftRight(v, 8 * (i - 1)) \in SUBSET Nat
      /\ \A x \in Nat : x \in ShiftRight(v, 8 * (i - 1)) <=> x + 8 * (i - 1) \in v
  BY <1>2, ShiftRightBits
<1> DEFINE w == ShiftRight(v, 8 * (i - 1))
<1> HIDE DEF w
<1>4. Low(w, 8) \in SUBSET Nat /\ \A x \in Nat : x \in Low(w, 8) <=> x < 8 /\ x \in w
  BY <1>3, LowBits DEF w
<1> QED
  BY <1>1, <1>3, <1>4 DEF w

(* Reading a stored word gives the word. *)
LEMMA GetPut ==
    ASSUME NEW bytes \in Nat, NEW v \in Word(8 * bytes)
    PROVE  getLE(putLE(v, bytes)) = v
<1> DEFINE p == putLE(v, bytes)
<1>1. v \in SUBSET Nat /\ \A x \in v : x < 8 * bytes
  BY WordBits
<1>2. DOMAIN p = 1..bytes
  BY DEF putLE
<1>3. \A i \in 1..bytes : /\ p[i] \in SUBSET Nat
                          /\ \A x \in Nat : x \in p[i] <=> x < 8 /\ x + 8 * (i - 1) \in v
  BY <1>1, StoredByte
<1> HIDE DEF p
<1>4. ASSUME NEW x \in v
      PROVE  x \in getLE(p)
  <2> DEFINE i == x \div 8 + 1
             b == x % 8
  <2>1. i \in 1..bytes /\ b \in 0..7 /\ x = b + 8 * (i - 1)
    BY <1>1
  <2> HIDE DEF i, b
  <2>2. b \in p[i] /\ i \in DOMAIN p
    BY <1>2, <1>3, <2>1
  <2>3. x \in ShiftLeft(p[i], 8 * (i - 1))
    BY <2>1, <2>2 DEF ShiftLeft
  <2> QED
    BY <2>2, <2>3 DEF getLE
<1>5. ASSUME NEW x \in getLE(p)
      PROVE  x \in v
  <2>1. PICK i \in 1..bytes : x \in ShiftLeft(p[i], 8 * (i - 1))
    BY <1>2 DEF getLE
  <2>2. PICK b \in p[i] : x = b + 8 * (i - 1)
    BY <2>1 DEF ShiftLeft
  <2> QED
    BY <1>3, <2>2
<1> QED
  BY <1>4, <1>5 DEF p


(* The halves of a timestamp are stored as the timestamp would be, and     *)
(* give it back.                                                           *)
LEMMA StoredTimestamp ==
    ASSUME NEW ts \in Word(64)
    PROVE  LET stored == putLE32(timestamp_low(ts)) \o putLE32(timestamp_high(ts))
           IN  /\ stored = putLE64(ts)
               /\ entryTs(getLE(SubSeq(stored, 5, 8)), getLE(SubSeq(stored, 1, 4))) = ts
<1> DEFINE low == timestamp_low(ts)
           high == timestamp_high(ts)
           p == putLE(low, 4)
           q == putLE(high, 4)
           stored == p \o q
<1>1. ts \in SUBSET Nat /\ \A x \in ts : x < 64
  BY WordBits
<1>2. low \in SUBSET Nat /\ \A x \in Nat : x \in low <=> x < 32 /\ x \in ts
  BY <1>1, LowBits DEF timestamp_low
<1>3. high \in SUBSET Nat /\ \A x \in Nat : x \in high <=> x < 32 /\ x + 32 \in ts
  <2> DEFINE w == ShiftRight(ts, 32)
  <2>1. w \in SUBSET Nat /\ \A x \in Nat : x \in w <=> x + 32 \in ts
    BY <1>1, ShiftRightBits
  <2> HIDE DEF w
  <2>2. Low(w, 32) \in SUBSET Nat /\ \A x \in Nat : x \in Low(w, 32) <=> x < 32 /\ x \in w
    BY <2>1, LowBits
  <2> QED
    BY <2>1, <2>2 DEF timestamp_high, w
<1> HIDE DEF low, high
<1>4. /\ p \in Seq(SUBSET Nat) /\ Len(p) = 4 /\ DOMAIN p = 1..4
      /\ q \in Seq(SUBSET Nat) /\ Len(q) = 4 /\ DOMAIN q = 1..4
  <2>1. p \in [1..4 -> SUBSET Nat] /\ q \in [1..4 -> SUBSET Nat]
    BY <1>2, <1>3, StoredByte DEF putLE
  <2> HIDE DEF p, q
  <2>2. p \in Seq(SUBSET Nat) /\ q \in Seq(SUBSET Nat)
    BY <2>1, SeqDef
  <2>3. /\ DOMAIN p = 1..4 /\ DOMAIN p = 1..Len(p) /\ Len(p) \in Nat
        /\ DOMAIN q = 1..4 /\ DOMAIN q = 1..Len(q) /\ Len(q) \in Nat
    BY <2>1, <2>2, LenProperties
  <2>4. \A n \in Nat : 1..n = 1..4 => n = 4
    OBVIOUS
  <2> QED
    BY <2>2, <2>3, <2>4
<1>5. \A i \in 1..4 : /\ p[i] \in SUBSET Nat
                      /\ \A x \in Nat : x \in p[i] <=> x < 8 /\ x + 8 * (i - 1) \in low
                      /\ q[i] \in SUBSET Nat
                      /\ \A x \in Nat : x \in q[i] <=> x < 8 /\ x + 8 * (i - 1) \in high
  <2>1. ASSUME NEW w \in SUBSET Nat, NEW i \in 1..4
        PROVE  /\ putLE(w, 4)[i] \in SUBSET Nat
               /\ \A x \in Nat : x \in putLE(w, 4)[i] <=> x < 8 /\ x + 8 * (i - 1) \in w
    BY StoredByte
  <2> QED
    BY <1>2, <1>3, <2>1
<1>6. \A i \in 1..8 : /\ putLE(ts, 8)[i] \in SUBSET Nat
                      /\ \A x \in Nat : x \in putLE(ts, 8)[i] <=> x < 8 /\ x + 8 * (i - 1) \in ts
  BY <1>1, StoredByte
<1> HIDE DEF p, q
<1>7. /\ stored \in Seq(SUBSET Nat) /\ Len(stored) = 8 /\ DOMAIN stored = 1..8
      /\ \A i \in 1..4 : stored[i] = p[i] /\ stored[i + 4] = q[i]
  <2> DEFINE S == SUBSET Nat
  <2>0. p \in Seq(S) /\ q \in Seq(S)
    BY <1>4
  <2> HIDE DEF S
  <2>a. /\ p \o q \in Seq(S) /\ Len(p \o q) = Len(p) + Len(q)
        /\ \A i \in 1..(Len(p) + Len(q)) : (p \o q)[i] = IF i <= Len(p) THEN p[i] ELSE q[i - Len(p)]
    BY <2>0, ConcatProperties
  <2>1. stored \in Seq(SUBSET Nat) /\ Len(stored) = 8
    BY <1>4, <2>a DEF S
  <2>2. \A i \in 1..8 : stored[i] = IF i <= 4 THEN p[i] ELSE q[i - 4]
    BY <1>4, <2>a
  <2> HIDE DEF stored
  <2>3. DOMAIN stored = 1..8
    BY <2>1, LenProperties
  <2>4. ASSUME NEW i \in 1..4
        PROVE  stored[i] = p[i] /\ stored[i + 4] = q[i]
    <3>1. i \in 1..8 /\ i + 4 \in 1..8 /\ (i + 4) - 4 = i /\ i <= 4 /\ ~(i + 4 <= 4)
      OBVIOUS
    <3> QED
      BY <2>2, <3>1
  <2> QED
    BY <2>1, <2>3, <2>4
<1> HIDE DEF stored
<1>8. stored = putLE(ts, 8)
  <2>1. ASSUME NEW i \in 1..8
        PROVE  stored[i] = putLE(ts, 8)[i]
    <3>1. CASE i \in 1..4
      <4>1. \A x \in Nat : x \in p[i] <=> x \in putLE(ts, 8)[i]
        BY <1>2, <1>5, <1>6, <3>1
      <4>2. p[i] = putLE(ts, 8)[i]
        BY <1>5, <1>6, <3>1, <4>1, SameBits
      <4> QED
        BY <1>7, <3>1, <4>2
    <3>2. CASE i \in 5..8
      <4> DEFINE j == i - 4
      <4>1. j \in 1..4 /\ i = j + 4 /\ 8 * (i - 1) = 8 * (j - 1) + 32
        BY <3>2
      <4> HIDE DEF j
      <4>2. \A x \in Nat : x \in q[j] <=> x \in putLE(ts, 8)[i]
        <5>1. ASSUME NEW x \in Nat, x < 8
              PROVE  x + 8 * (j - 1) \in high <=> x + 8 * (i - 1) \in ts
          <6>1. x + 8 * (j - 1) \in Nat /\ x + 8 * (j - 1) < 32
            BY <4>1, <5>1
          <6>2. (x + 8 * (j - 1)) + 32 = x + 8 * (i - 1)
            BY <4>1
          <6> QED
            BY <1>3, <6>1, <6>2
        <5> QED
          BY <1>5, <1>6, <4>1, <5>1
      <4>3. q[j] = putLE(ts, 8)[i]
        BY <1>5, <1>6, <4>1, <4>2, SameBits
      <4> QED
        BY <1>7, <4>1, <4>3
    <3> QED
      BY <3>1, <3>2
  <2>2. putLE(ts, 8) = [i \in 1..8 |-> putLE(ts, 8)[i]]
    BY DEF putLE
  <2>3. stored = [i \in 1..8 |-> stored[i]]
    BY <1>7
  <2> QED
    BY <2>1, <2>2, <2>3
<1>9. SubSeq(stored, 1, 4) = p /\ SubSeq(stored, 5, 8) = q
  <2>1. /\ SubSeq(stored, 1, 4) = [i \in 1..4 |-> stored[i]]
        /\ SubSeq(stored, 5, 8) = [i \in 1..4 |-> stored[i + 4]]
    BY <1>7
  <2>2. p = [i \in 1..4 |-> p[i]] /\ q = [i \in 1..4 |-> q[i]]
    BY <1>4
  <2> QED
    BY <1>7, <2>1, <2>2
<1>10. getLE(p) = low /\ getLE(q) = high
  <2>1. low \in Word(32) /\ high \in Word(32) /\ 8 * 4 = 32
    <3>1. (\A x \in low : x < 32) /\ (\A x \in high : x < 32)
      BY <1>2, <1>3
    <3> QED
      BY <1>2, <1>3, <3>1 DEF Word
  <2>2. \A v \in Word(32) : getLE(putLE(v, 4)) = v
    BY <2>1, GetPut
  <2> QED
    BY <2>1, <2>2 DEF p, q
<1>11. entryTs(high, low) = ts
  <2>1. ShiftLeft(high, 32) \in SUBSET Nat
        /\ \A x \in Nat : x \in ShiftLeft(high, 32) <=> x >= 32 /\ x - 32 \in high
    BY <1>3, ShiftLeftBits
  <2>2. ASSUME NEW x \in Nat
        PROVE  x \in ShiftLeft(high, 32) \cup low <=> x \in ts
    <3>1. CASE x < 32
      BY <1>2, <2>1, <3>1
    <3>2. CASE x >= 32
      <4>1. x - 32 \in Nat /\ (x - 32) + 32 = x
        BY <3>2
      <4> QED
        BY <1>1, <1>2, <1>3, <2>1, <3>2, <4>1
    <3> QED
      BY <3>1, <3>2
  <2>3. ShiftLeft(high, 32) \cup low \in SUBSET Nat
    BY <1>2, <2>1
  <2> QED
    BY <1>1, <2>2, <2>3, SameBits DEF entryTs
<1> QED
  BY <1>8, <1>9, <1>10, <1>11 DEF putLE32, putLE64, p, q, low, high, stored


-----------------------------------------------------------------------------
(* The table. *)

(* One step of the division, bit by bit. *)
LEMMA DividedBits ==
    ASSUME NEW c \in SUBSET Nat
    PROVE  /\ Divided(c) \in SUBSET Nat
           /\ \A x \in Nat : x \in Divided(c) <=> ~(x + 1 \in c <=> (0 \in c /\ x \in Polynomial))
<1> DEFINE s == ShiftRight(c, 1)
<1>1. s \in SUBSET Nat /\ \A x \in Nat : x \in s <=> x + 1 \in c
  BY ShiftRightBits
<1>2. Polynomial \in SUBSET Nat
  BY DEF Polynomial
<1> HIDE DEF s
<1>3. Divided(c) = IF 0 \in c THEN Xor(Polynomial, s) ELSE s
  BY DEF Divided, s
<1>4. \A x : x \in Xor(Polynomial, s) <=> ~(x \in Polynomial <=> x \in s)
  BY XorBits
<1> QED
  BY <1>1, <1>2, <1>3, <1>4

(* The division keeps a word of 32 bits one. *)
LEMMA DividedWord ==
    ASSUME NEW c \in Word(32)
    PROVE  Divided(c) \in Word(32)
<1>1. c \in SUBSET Nat /\ \A x \in c : x < 32
  BY DEF Word
<1>2. /\ Divided(c) \in SUBSET Nat
      /\ \A x \in Nat : x \in Divided(c) <=> ~(x + 1 \in c <=> (0 \in c /\ x \in Polynomial))
  BY <1>1, DividedBits
<1>3. \A x \in Polynomial : x < 32
  BY DEF Polynomial
<1>4. ASSUME NEW x \in Divided(c)
      PROVE  x \in 0..31
  <2>1. x \in Nat /\ (x + 1 \in c \/ x \in Polynomial)
    BY <1>2
  <2> QED
    BY <1>1, <1>3, <2>1
<1> QED
  BY <1>4 DEF Word

(* It is linear. *)
LEMMA DividedXor ==
    ASSUME NEW c \in SUBSET Nat, NEW d \in SUBSET Nat
    PROVE  Xor(c, d) \in SUBSET Nat /\ Divided(Xor(c, d)) = Xor(Divided(c), Divided(d))
<1> DEFINE e == Xor(c, d)
<1>1. e \in SUBSET Nat
  BY DEF Xor
<1>2. \A x : x \in e <=> ~(x \in c <=> x \in d)
  BY XorBits
<1> HIDE DEF e
<1>3. /\ Divided(c) \in SUBSET Nat
      /\ \A x \in Nat : x \in Divided(c) <=> ~(x + 1 \in c <=> (0 \in c /\ x \in Polynomial))
      /\ Divided(d) \in SUBSET Nat
      /\ \A x \in Nat : x \in Divided(d) <=> ~(x + 1 \in d <=> (0 \in d /\ x \in Polynomial))
      /\ Divided(e) \in SUBSET Nat
      /\ \A x \in Nat : x \in Divided(e) <=> ~(x + 1 \in e <=> (0 \in e /\ x \in Polynomial))
  BY <1>1, DividedBits
<1>4. \A x : x \in Xor(Divided(c), Divided(d)) <=> ~(x \in Divided(c) <=> x \in Divided(d))
  BY XorBits
<1>5. Xor(Divided(c), Divided(d)) \in SUBSET Nat
  BY <1>3 DEF Xor
<1>6. \A x \in Nat : x \in Divided(e) <=> x \in Xor(Divided(c), Divided(d))
  BY <1>2, <1>3, <1>4
<1>7. Divided(e) = Xor(Divided(c), Divided(d))
  BY <1>3, <1>5, <1>6, SameBits
<1> QED
  BY <1>1, <1>7 DEF e

(* Eight steps, as in the table. *)
Divided8(c) == Divided(Divided(Divided(Divided(Divided(Divided(Divided(Divided(c))))))))

LEMMA Divided8Word ==
    ASSUME NEW c \in Word(32)
    PROVE  Divided8(c) \in Word(32)
<1>1. \A d \in Word(32) : Divided(d) \in Word(32)
  BY DividedWord
<1> QED
  BY <1>1 DEF Divided8

LEMMA Divided8Xor ==
    ASSUME NEW c \in SUBSET Nat, NEW d \in SUBSET Nat
    PROVE  Divided8(Xor(c, d)) = Xor(Divided8(c), Divided8(d))
<1>1. \A v, w \in SUBSET Nat : /\ Divided(v) \in SUBSET Nat
                               /\ Divided(Xor(v, w)) = Xor(Divided(v), Divided(w))
  BY DividedBits, DividedXor
<1> DEFINE D(v) == Divided(v)
<1>2. \A v, w \in SUBSET Nat : D(v) \in SUBSET Nat /\ D(Xor(v, w)) = Xor(D(v), D(w))
  BY <1>1
<1> HIDE DEF D
<1> DEFINE D2(v) == D(D(v))
<1>3. \A v, w \in SUBSET Nat : D2(v) \in SUBSET Nat /\ D2(Xor(v, w)) = Xor(D2(v), D2(w))
  BY <1>2
<1> HIDE DEF D2
<1> DEFINE D4(v) == D2(D2(v))
<1>4. \A v, w \in SUBSET Nat : D4(v) \in SUBSET Nat /\ D4(Xor(v, w)) = Xor(D4(v), D4(w))
  BY <1>3
<1> HIDE DEF D4
<1>5. D4(D4(Xor(c, d))) = Xor(D4(D4(c)), D4(D4(d)))
  BY <1>4
<1> QED
  BY <1>5 DEF D4, D2, D, Divided8

(* Bits above the lowest eight are only moved. *)
LEMMA Divided8High ==
    ASSUME NEW c \in SUBSET Nat, \A x \in c : x >= 8
    PROVE  Divided8(c) = ShiftRight(c, 8)
<1> DEFINE S(n) == ShiftRight(c, n)
<1>1. ASSUME NEW n \in 0..7
      PROVE  Divided(S(n)) = S(n + 1)
  <2>0. n \in Nat /\ n + 1 \in Nat
    OBVIOUS
  <2>1. S(n) \in SUBSET Nat /\ \A x \in Nat : x \in S(n) <=> x + n \in c
    BY <2>0, ShiftRightBits
  <2>2. S(n + 1) \in SUBSET Nat /\ \A x \in Nat : x \in S(n + 1) <=> x + (n + 1) \in c
    BY <2>0, ShiftRightBits
  <2> HIDE DEF S
  <2>3. 0 \notin S(n)
    <3>1. 0 + n = n /\ ~(n >= 8)
      OBVIOUS
    <3> QED
      BY <2>1, <3>1
  <2>4. /\ Divided(S(n)) \in SUBSET Nat
        /\ \A x \in Nat : x \in Divided(S(n))
             <=> ~(x + 1 \in S(n) <=> (0 \in S(n) /\ x \in Polynomial))
    BY <2>1, DividedBits
  <2>5. ASSUME NEW x \in Nat
        PROVE  x \in Divided(S(n)) <=> x \in S(n + 1)
    <3>1. x + 1 \in Nat /\ (x + 1) + n = x + (n + 1)
      OBVIOUS
    <3>2. x + 1 \in S(n) <=> x + (n + 1) \in c
      BY <2>1, <3>1
    <3> QED
      BY <2>2, <2>3, <2>4, <3>2
  <2> QED
    BY <2>2, <2>4, <2>5, SameBits
<1>2. S(0) = c
  <2>1. S(0) \in SUBSET Nat /\ \A x \in Nat : x \in S(0) <=> x + 0 \in c
    BY ShiftRightBits
  <2> HIDE DEF S
  <2>2. \A x \in Nat : x \in S(0) <=> x \in c
    BY <2>1
  <2> QED
    BY <2>1, <2>2, SameBits
<1> HIDE DEF S
<1>3. /\ Divided(S(0)) = S(1) /\ Divided(S(1)) = S(2) /\ Divided(S(2)) = S(3)
      /\ Divided(S(3)) = S(4) /\ Divided(S(4)) = S(5) /\ Divided(S(5)) = S(6)
      /\ Divided(S(6)) = S(7) /\ Divided(S(7)) = S(8)
  <2>1. /\ Divided(S(0)) = S(0 + 1) /\ Divided(S(1)) = S(1 + 1) /\ Divided(S(2)) = S(2 + 1)
        /\ Divided(S(3)) = S(3 + 1) /\ Divided(S(4)) = S(4 + 1) /\ Divided(S(5)) = S(5 + 1)
        /\ Divided(S(6)) = S(6 + 1) /\ Divided(S(7)) = S(7 + 1)
    BY <1>1
  <2> QED
    BY <2>1
<1>4. Divided8(S(0)) = S(8)
  BY <1>3 DEF Divided8
<1> QED
  BY <1>2, <1>4 DEF S

(* The code's table and shift do eight steps at once. *)
LEMMA TableStep ==
    ASSUME NEW c \in Word(32), NEW byte \in Word(8)
    PROVE  /\ Xor(table[Low(Xor(c, byte), 8)], ShiftRight(c, 8)) = Divided8(Xor(c, byte))
           /\ Xor(c, byte) \in Word(32)
<1> DEFINE e == Xor(c, byte)
           low == Low(e, 8)
           high == {x \in e : x >= 8}
<1>1. /\ c \in SUBSET Nat /\ byte \in SUBSET Nat /\ e \in Word(32) /\ e \in SUBSET Nat
      /\ \A x \in byte : x < 8
  BY DEF Word, Xor
<1>2. \A x : x \in e <=> ~(x \in c <=> x \in byte)
  BY XorBits
<1> HIDE DEF e
<1>3. low \in SUBSET Nat /\ high \in SUBSET Nat /\ \A x \in high : x >= 8
  BY <1>1 DEF Low
<1>4. e = Xor(low, high)
  <2>1. \A x \in Nat : x \in low <=> x < 8 /\ x \in e
    BY <1>1, LowBits
  <2>2. \A x : x \in Xor(low, high) <=> ~(x \in low <=> x \in high)
    BY XorBits
  <2>3. Xor(low, high) \in SUBSET Nat
    BY <1>3 DEF Xor
  <2>4. \A x \in Nat : x \in e <=> x \in Xor(low, high)
    BY <2>1, <2>2
  <2> QED
    BY <1>1, <2>3, <2>4, SameBits
<1>5. table[low] = Divided8(low)
  <2>1. low \in Word(8)
    BY DEF Low, Word
  <2> QED
    BY <2>1 DEF table, Divided8
<1>6. ShiftRight(high, 8) = ShiftRight(c, 8)
  <2>1. ASSUME NEW x \in Nat
        PROVE  x + 8 \in high <=> x + 8 \in c
    <3>1. x + 8 >= 8 /\ ~(x + 8 < 8)
      OBVIOUS
    <3>2. x + 8 \notin byte
      BY <1>1, <3>1
    <3>3. x + 8 \in e <=> x + 8 \in c
      BY <1>2, <3>2
    <3> QED
      BY <3>1, <3>3
  <2> HIDE DEF high
  <2> DEFINE hs == ShiftRight(high, 8)
             cs == ShiftRight(c, 8)
  <2>2. hs \in SUBSET Nat /\ \A x \in Nat : x \in hs <=> x + 8 \in high
    BY <1>3, ShiftRightBits
  <2>3. cs \in SUBSET Nat /\ \A x \in Nat : x \in cs <=> x + 8 \in c
    BY <1>1, ShiftRightBits
  <2> HIDE DEF hs, cs
  <2>4. hs = cs
    BY <2>1, <2>2, <2>3, SameBits
  <2> QED
    BY <2>4 DEF hs, cs
<1> HIDE DEF low, high
<1>7. Divided8(e) = Xor(Divided8(low), Divided8(high))
  BY <1>3, <1>4, Divided8Xor
<1>8. Divided8(high) = ShiftRight(high, 8)
  BY <1>3, Divided8High
<1> QED
  BY <1>1, <1>5, <1>6, <1>7, <1>8 DEF e, low


-----------------------------------------------------------------------------
(* The loop of calculate(): the local crc is a word of 32 bits. *)

CRCType == message \in Seq(Word(8)) /\ crc \in Word(32)

LEMMA CRCTypeInit ==
    CRCInit => CRCType
BY DEF CRCInit, CRCType, Word

(* What a turn of the loop does, without the table. *)
LEMMA TurnDivides ==
    ASSUME CRCType, CRCNext
    PROVE  \E byte \in Word(8) : /\ message' = Append(message, byte)
                                 /\ Xor(crc, byte) \in Word(32)
                                 /\ crc' = Divided8(Xor(crc, byte))
<1>1. PICK byte \in SampleBytes :
        /\ message' = Append(message, byte)
        /\ crc' = Xor(table[Low(Xor(crc, byte), 8)], ShiftRight(crc, 8))
  BY DEF CRCNext
<1>2. byte \in Word(8) /\ crc \in Word(32)
  BY MessageAssumption DEF CRCType
<1>3. /\ Xor(table[Low(Xor(crc, byte), 8)], ShiftRight(crc, 8)) = Divided8(Xor(crc, byte))
      /\ Xor(crc, byte) \in Word(32)
  BY <1>2, TableStep
<1> QED
  BY <1>1, <1>2, <1>3

LEMMA CRCTypeStep ==
    ASSUME CRCType, [CRCNext]_crcVars
    PROVE  CRCType'
<1>1. CASE CRCNext
  <2>1. PICK byte \in Word(8) : /\ message' = Append(message, byte)
                                /\ Xor(crc, byte) \in Word(32)
                                /\ crc' = Divided8(Xor(crc, byte))
    BY <1>1, TurnDivides
  <2>2. crc' \in Word(32)
    BY <2>1, Divided8Word
  <2>3. message' \in Seq(Word(8))
    BY <2>1 DEF CRCType
  <2> QED
    BY <2>2, <2>3 DEF CRCType
<1>2. CASE UNCHANGED crcVars
  BY <1>2 DEF CRCType, crcVars
<1> QED
  BY <1>1, <1>2

LEMMA ReadBack ==
    CRCType => StoredWordsReadBack
<1> SUFFICES ASSUME CRCType
             PROVE  StoredWordsReadBack
  OBVIOUS
<1> DEFINE ts == calculate \cup ShiftLeft(crc, 32)
           stored == putLE32(timestamp_low(ts)) \o putLE32(timestamp_high(ts))
<1>1. crc \in SUBSET Nat /\ (\A x \in crc : x < 32) /\ crc \in Word(32)
  BY DEF CRCType, Word
<1>2. calculate \in Word(32) /\ calculate \in Word(8 * 4)
  BY DEF calculate, Not, Word
<1>3. ts \in Word(64)
  <2>1. /\ ShiftLeft(crc, 32) \in SUBSET Nat
        /\ \A x \in Nat : x \in ShiftLeft(crc, 32) <=> x >= 32 /\ x - 32 \in crc
    BY <1>1, ShiftLeftBits
  <2>2. \A x \in ShiftLeft(crc, 32) : x \in 0..63
    BY <1>1, <2>1
  <2>3. \A x \in calculate : x \in 0..63
    BY <1>2 DEF Word
  <2>4. \A x \in ts : x \in 0..63
    BY <2>2, <2>3
  <2> HIDE DEF ts
  <2>5. ts \in SUBSET (0..63)
    BY <2>4
  <2>6. 64 - 1 = 63
    OBVIOUS
  <2> QED
    BY <2>5, <2>6 DEF Word
<1>4. getLE(putLE(calculate, 4)) = calculate
  BY <1>2, GetPut
<1> HIDE DEF ts
<1>5. /\ stored = putLE64(ts)
      /\ entryTs(getLE(SubSeq(stored, 5, 8)), getLE(SubSeq(stored, 1, 4))) = ts
  BY <1>3, StoredTimestamp
<1> QED
  BY <1>4, <1>5 DEF StoredWordsReadBack, putLE32, ts

(* Whatever the message, the checksum that append() stores with putLE32()  *)
(* is what getLE32() reads, and a timestamp stored in two halves is laid   *)
(* out as the 64-bit integer that the reader puts together again.          *)
THEOREM StoredWordsSafe ==
    CRCSpec => []StoredWordsReadBack
<1>1. CRCInit => CRCType
  BY CRCTypeInit
<1>2. CRCType /\ [CRCNext]_crcVars => CRCType'
  BY CRCTypeStep
<1>3. CRCType => StoredWordsReadBack
  BY ReadBack
<1> QED
  BY <1>1, <1>2, <1>3, PTL DEF CRCSpec


-----------------------------------------------------------------------------
(* The checksum of the standard.  The code keeps the coefficients mirrored,*)
(* the highest exponent in bit 0.                                          *)

Mirror(p, k) == {k - d : d \in p}

LEMMA MirrorBits ==
    ASSUME NEW k \in Nat, NEW p \in SUBSET (0..k)
    PROVE  /\ Mirror(p, k) \in SUBSET (0..k)
           /\ \A x \in 0..k : x \in Mirror(p, k) <=> k - x \in p
<1>1. ASSUME NEW x \in Mirror(p, k)
      PROVE  x \in 0..k /\ k - x \in p
  <2>1. PICK d \in p : x = k - d
    BY <1>1 DEF Mirror
  <2>2. d \in 0..k
    OBVIOUS
  <2>3. x \in 0..k /\ k - x = d
    BY <2>1, <2>2
  <2> QED
    BY <2>3
<1>2. ASSUME NEW x \in 0..k, k - x \in p
      PROVE  x \in Mirror(p, k)
  <2>1. x = k - (k - x)
    OBVIOUS
  <2> QED
    BY <1>2, <2>1 DEF Mirror
<1> QED
  BY <1>1, <1>2

(* The code's polynomial is G without its highest term, mirrored. *)
LEMMA PolynomialMirrored ==
    /\ G \in SUBSET Nat /\ 32 \in G /\ \A x \in G : x <= 32
    /\ Polynomial \in SUBSET (0..31)
    /\ \A x \in 0..31 : x \in Polynomial <=> 31 - x \in G
<1>1. G \in SUBSET Nat /\ 32 \in G /\ \A x \in G : x <= 32
  BY DEF G
<1>2. Polynomial \in SUBSET (0..31)
  BY DEF Polynomial
<1>3. ASSUME NEW x \in 0..31
      PROVE  x \in Polynomial <=> 31 - x \in G
  BY DEF Polynomial, G
<1> QED
  BY <1>1, <1>2, <1>3

LEMMA ReducedBits ==
    ASSUME NEW p \in SUBSET Nat, NEW d \in Nat, d >= 32
    PROVE  /\ Reduced(p, d) \in SUBSET Nat
           /\ \A x \in Nat : x \in Reduced(p, d)
                <=> ~(x \in p <=> (d \in p /\ x >= d - 32 /\ x - (d - 32) \in G))
<1> DEFINE s == ShiftLeft(G, d - 32)
<1>1. d - 32 \in Nat /\ G \in SUBSET Nat
  BY PolynomialMirrored
<1>2. s \in SUBSET Nat /\ \A x \in Nat : x \in s <=> x >= d - 32 /\ x - (d - 32) \in G
  BY <1>1, ShiftLeftBits
<1>3. Reduced(p, d) = IF d \in p THEN Xor(p, s) ELSE p
  BY DEF Reduced
<1> HIDE DEF s
<1>4. \A x : x \in Xor(p, s) <=> ~(x \in p <=> x \in s)
  BY XorBits
<1>5. Xor(p, s) \in SUBSET Nat
  BY <1>2 DEF Xor
<1> QED
  BY <1>2, <1>3, <1>4, <1>5

(* One step of the long division is one step of the code. *)
LEMMA MirrorStep ==
    ASSUME NEW k \in Nat, k >= 31, NEW p \in SUBSET (0..(k + 1))
    PROVE  /\ Reduced(p, k + 1) \in SUBSET (0..k)
           /\ Mirror(Reduced(p, k + 1), k) = Divided(Mirror(p, k + 1))
<1> DEFINE r == Reduced(p, k + 1)
           mp == Mirror(p, k + 1)
           mr == Mirror(r, k)
<1>0. p \in SUBSET Nat /\ k + 1 \in Nat /\ k + 1 >= 32
  OBVIOUS
<1>1. /\ r \in SUBSET Nat
      /\ \A x \in Nat : x \in r
           <=> ~(x \in p <=> (k + 1 \in p /\ x >= (k + 1) - 32 /\ x - ((k + 1) - 32) \in G))
  BY <1>0, ReducedBits
<1>2. mp \in SUBSET (0..(k + 1)) /\ \A x \in 0..(k + 1) : x \in mp <=> (k + 1) - x \in p
  BY <1>0, MirrorBits
<1> HIDE DEF r, mp
<1>3. r \in SUBSET (0..k)
  <2>1. ASSUME NEW x \in r
        PROVE  x \in 0..k
    <3>1. x \in Nat
      BY <1>1
    <3>2. CASE x = k + 1
      <4>1. x >= (k + 1) - 32 /\ x - ((k + 1) - 32) = 32
        BY <3>2
      <4>2. x - ((k + 1) - 32) \in G
        BY <4>1, PolynomialMirrored
      <4>3. ~(x \in p <=> k + 1 \in p)
        BY <1>1, <3>1, <4>1, <4>2
      <4> QED
        BY <3>2, <4>3
    <3>3. CASE x > k + 1
      <4>1. x \notin p
        BY <3>1, <3>3
      <4>2. x - ((k + 1) - 32) \notin G
        <5>1. x - ((k + 1) - 32) > 32
          BY <3>1, <3>3
        <5> QED
          BY <3>1, <5>1, PolynomialMirrored
      <4> QED
        BY <1>1, <3>1, <4>1, <4>2
    <3> QED
      BY <3>1, <3>2, <3>3
  <2> QED
    BY <2>1
<1>4. mr \in SUBSET (0..k) /\ \A x \in 0..k : x \in mr <=> k - x \in r
  BY <1>3, MirrorBits
<1> HIDE DEF mr
<1>5. /\ Divided(mp) \in SUBSET Nat
      /\ \A x \in Nat : x \in Divided(mp) <=> ~(x + 1 \in mp <=> (0 \in mp /\ x \in Polynomial))
  <2>1. mp \in SUBSET Nat
    BY <1>2
  <2> QED
    BY <2>1, DividedBits
<1>6. 0 \in mp <=> k + 1 \in p
  BY <1>2
<1>7. ASSUME NEW x \in Nat
      PROVE  x \in mr <=> x \in Divided(mp)
  <2>1. CASE x <= k
    <3> DEFINE y == k - x
    <3>1. /\ x \in 0..k /\ x + 1 \in 0..(k + 1) /\ (k + 1) - (x + 1) = y /\ y \in Nat
          /\ (y >= (k + 1) - 32 <=> x <= 31)
          /\ y - ((k + 1) - 32) = 31 - x
      <4>1. /\ x \in 0..k /\ x + 1 \in 0..(k + 1)
            /\ k - x \in Nat /\ (k + 1) - (x + 1) = k - x
        BY <2>1
      <4>2. k - x >= (k + 1) - 32 <=> x <= 31
        OBVIOUS
      <4>3. (k - x) - ((k + 1) - 32) = 31 - x
        <5>1. (k + 1) - 32 = k - 31
          OBVIOUS
        <5>2. (k - x) - (k - 31) = 31 - x
          OBVIOUS
        <5> QED
          BY <5>1, <5>2
      <4> QED
        BY <4>1, <4>2, <4>3
    <3>2. x \in Polynomial <=> x <= 31 /\ 31 - x \in G
      BY PolynomialMirrored
    <3>0. x \in mr <=> y \in r
      BY <1>4, <3>1
    <3> HIDE DEF y
    <3>5. y \in r <=> ~(y \in p <=> (k + 1 \in p /\ y >= (k + 1) - 32 /\ y - ((k + 1) - 32) \in G))
      BY <1>1, <3>1
    <3>3. x \in mr <=> ~(k - x \in p <=> (k + 1 \in p /\ x <= 31 /\ 31 - x \in G))
      BY <3>0, <3>1, <3>5 DEF y
    <3>4. x + 1 \in mp <=> k - x \in p
      BY <1>2, <3>1 DEF y
    <3> QED
      BY <1>5, <1>6, <3>2, <3>3, <3>4
  <2>2. CASE x > k
    <3>1. x \notin mr /\ x + 1 \notin mp
      BY <1>2, <1>4, <2>2
    <3>2. x \notin Polynomial
      BY <2>2, PolynomialMirrored
    <3> QED
      BY <1>5, <3>1, <3>2
  <2> QED
    BY <2>1, <2>2
<1>8. mr \in SUBSET Nat
  BY <1>4
<1>9. mr = Divided(mp)
  <2> DEFINE dm == Divided(mp)
  <2>1. dm \in SUBSET Nat /\ \A x \in Nat : x \in mr <=> x \in dm
    BY <1>5, <1>7
  <2> HIDE DEF dm
  <2>2. mr = dm
    BY <1>8, <2>1, SameBits
  <2> QED
    BY <2>2 DEF dm
<1> QED
  BY <1>3, <1>9 DEF mr, mp, r


(* The long division of p, whose highest exponent is top at most: what is  *)
(* left when only the exponents up to d may occur.                         *)
Division(p, top, f) ==
    /\ f \in [31..top -> SUBSET Nat]
    /\ f[top] = p
    /\ \A d \in 31..(top - 1) : f[d] = Reduced(f[d + 1], d + 1)

LEMMA DivisionExists ==
    ASSUME NEW p \in SUBSET Nat, NEW top \in Nat, top >= 31
    PROVE  \E f : Division(p, top, f)
<1> DEFINE S == SUBSET Nat
           n == top - 31
           g == [i \in 1..n |-> [v \in S |-> Reduced(v, (top - i) + 1)]]
<1>1. n \in Nat /\ 0 <= n /\ 0 + 1 = 1
  OBVIOUS
<1>2. ASSUME NEW i \in 1..n, NEW v \in S
      PROVE  Reduced(v, (top - i) + 1) \in S
  <2>1. (top - i) + 1 \in Nat /\ (top - i) + 1 >= 32
    OBVIOUS
  <2> QED
    BY <2>1, ReducedBits
<1>3. g \in [1..n -> [S -> S]]
  BY <1>2
<1>4. g \in Turns(S, 0, n)
  BY <1>1, <1>3 DEF Turns
<1>5. Runs(S, p, 0, n, g) # {}
  <2> HIDE DEF g, n
  <2> QED
    BY <1>1, <1>4, IterationExists
<1>6. PICK h : h \in Runs(S, p, 0, n, g)
  BY <1>5
<1>7. /\ h \in [0..n -> S] /\ h[0] = p
      /\ \A i \in 1..n : h[i] = g[i][h[i - 1]]
  BY <1>1, <1>6 DEF Runs
<1> DEFINE f == [d \in 31..top |-> h[top - d]]
<1>8. f \in [31..top -> SUBSET Nat]
  <2>1. \A d \in 31..top : top - d \in 0..n
    OBVIOUS
  <2> QED
    BY <1>7, <2>1
<1>9. f[top] = p
  BY <1>7
<1>10. ASSUME NEW d \in 31..(top - 1)
       PROVE  f[d] = Reduced(f[d + 1], d + 1)
  <2> DEFINE i == top - d
  <2>1. i \in 1..n /\ i - 1 \in 0..n /\ i - 1 = top - (d + 1) /\ (top - i) + 1 = d + 1
    OBVIOUS
  <2>2. d \in 31..top /\ d + 1 \in 31..top
    OBVIOUS
  <2>3. f[d] = h[i] /\ f[d + 1] = h[i - 1]
    BY <2>1, <2>2
  <2>4. h[i] = g[i][h[i - 1]] /\ h[i - 1] \in S
    BY <1>7, <2>1
  <2> HIDE DEF f, n, i, S
  <2>5. g[i][h[i - 1]] = Reduced(h[i - 1], (top - i) + 1)
    BY <2>1, <2>4
  <2> QED
    BY <2>1, <2>3, <2>4, <2>5
<1> HIDE DEF f
<1>11. Division(p, top, f)
  BY <1>8, <1>9, <1>10 DEF Division
<1> QED
  BY <1>11

(* The bits of the dividend. *)
LEMMA DividendBits ==
    ASSUME NEW m \in Seq(Word(8))
    PROVE  /\ Dividend(m) \in SUBSET (0..(8 * Len(m) + 31))
           /\ \A x \in Nat :
                x \in Dividend(m)
                  <=> ~((\E i \in 1..Len(m) : \E b \in m[i] :
                           x = 8 * Len(m) + 31 - (8 * (i - 1) + b))
                        <=> (x >= 8 * Len(m) /\ x <= 8 * Len(m) + 31))
<1> DEFINE bits == 8 * Len(m)
           terms == UNION {{bits + 31 - (8 * (i - 1) + b) : b \in m[i]} : i \in DOMAIN m}
           ones == bits..(bits + 31)
<1>1. bits \in Nat /\ DOMAIN m = 1..Len(m)
  OBVIOUS
<1>2. \A i \in 1..Len(m) : m[i] \in SUBSET (0..7)
  BY DEF Word
<1>3. Dividend(m) = Xor(terms, ones)
  BY DEF Dividend
<1>4. \A x : x \in terms <=> \E i \in 1..Len(m) : \E b \in m[i] : x = bits + 31 - (8 * (i - 1) + b)
  BY <1>1
<1>5. ASSUME NEW x \in terms
      PROVE  x \in 0..(bits + 31)
  <2>0. PICK i \in 1..Len(m) : \E b \in m[i] : x = bits + 31 - (8 * (i - 1) + b)
    BY <1>4
  <2>1. PICK b \in m[i] : x = bits + 31 - (8 * (i - 1) + b)
    BY <2>0
  <2>2. b \in 0..7
    BY <1>2
  <2>3. i \in Nat /\ i >= 1 /\ i <= Len(m) /\ Len(m) \in Nat
    OBVIOUS
  <2>4. \A l \in Nat : i <= l => 8 * l + 31 - (8 * (i - 1) + b) \in 0..(8 * l + 31)
    BY <2>2, <2>3
  <2> QED
    BY <2>1, <2>3, <2>4
<1>6. ones \in SUBSET (0..(bits + 31)) /\ \A x \in Nat : x \in ones <=> x >= bits /\ x <= bits + 31
  BY <1>1
<1> HIDE DEF terms, ones
<1>7. \A x : x \in Xor(terms, ones) <=> ~(x \in terms <=> x \in ones)
  BY XorBits
<1>8. Dividend(m) \in SUBSET (0..(bits + 31))
  BY <1>3, <1>5, <1>6, <1>7
<1>9. ASSUME NEW x \in Nat
      PROVE  x \in Dividend(m)
               <=> ~((\E i \in 1..Len(m) : \E b \in m[i] : x = bits + 31 - (8 * (i - 1) + b))
                     <=> (x >= bits /\ x <= bits + 31))
  <2>1. x \in Dividend(m) <=> ~(x \in terms <=> x \in ones)
    BY <1>3, <1>7
  <2>2. x \in ones <=> x >= bits /\ x <= bits + 31
    BY <1>6
  <2>3. x \in terms <=> \E i \in 1..Len(m) : \E b \in m[i] : x = bits + 31 - (8 * (i - 1) + b)
    BY <1>4
  <2> HIDE DEF bits
  <2> QED
    BY <2>1, <2>2, <2>3, Zenon
<1> QED
  BY <1>8, <1>9

LEMMA RemainderOf ==
    ASSUME NEW m \in Seq(Word(8))
    PROVE  \E f : /\ Division(Dividend(m), 8 * Len(m) + 31, f)
                  /\ Remainder(m) = f[31]
<1> DEFINE top == 8 * Len(m) + 31
           p == Dividend(m)
           Rest(f) == f = [d \in 31..top |-> IF d = top THEN p ELSE Reduced(f[d + 1], d + 1)]
<1>1. top \in Nat /\ top >= 31
  OBVIOUS
<1>2. p \in SUBSET Nat
  BY <1>1, DividendBits
<1>3. Remainder(m) = (CHOOSE f : Rest(f))[31]
  BY DEF Remainder
<1> HIDE DEF top, p
<1>4. PICK h : Division(p, top, h)
  BY <1>1, <1>2, DivisionExists
<1>5. Rest(h)
  <2>1. /\ h \in [31..top -> SUBSET Nat] /\ h[top] = p
        /\ \A d \in 31..(top - 1) : h[d] = Reduced(h[d + 1], d + 1)
    BY <1>4 DEF Division
  <2>2. \A d \in 31..top : d # top => d \in 31..(top - 1)
    BY <1>1
  <2> QED
    BY <2>1, <2>2
<1> DEFINE f == CHOOSE g : Rest(g)
<1>6. Rest(f)
  BY <1>5
<1> HIDE DEF f
<1>7. DOMAIN f = 31..top /\ f[top] = p
  BY <1>1, <1>6
<1>8. \A d \in 31..(top - 1) : f[d] = Reduced(f[d + 1], d + 1)
  BY <1>1, <1>6
<1>9. \A d \in 31..top : f[d] \in SUBSET Nat
  <2> DEFINE n == top - 31
             Q == {i \in 0..n : f[top - i] \in SUBSET Nat}
  <2>1. n \in Nat /\ 0 \in Nat
    BY <1>1
  <2>2. 0 \in Q
    BY <1>1, <1>2, <1>7
  <2>3. ASSUME NEW i \in 0..n, i \in Q, i < n
        PROVE  i + 1 \in Q
    <3> DEFINE d == top - (i + 1)
    <3>1. d \in 31..(top - 1) /\ d + 1 = top - i /\ d + 1 \in Nat /\ d + 1 >= 32 /\ i + 1 \in 0..n
      BY <1>1, <2>3
    <3> HIDE DEF d
    <3>2. f[d + 1] \in SUBSET Nat
      BY <2>3, <3>1
    <3>3. f[d] = Reduced(f[d + 1], d + 1)
      BY <1>8, <3>1
    <3>4. Reduced(f[d + 1], d + 1) \in SUBSET Nat
      BY <3>1, <3>2, ReducedBits
    <3> QED
      BY <3>1, <3>3, <3>4 DEF d
  <2> HIDE DEF Q
  <2>4. 0..n \subseteq Q
    <3> HIDE DEF n
    <3> QED
      BY <2>1, <2>2, <2>3, IntervalInduction
  <2>5. ASSUME NEW d \in 31..top
        PROVE  f[d] \in SUBSET Nat
    <3>1. top - d \in 0..n /\ top - (top - d) = d
      BY <1>1
    <3> QED
      BY <2>4, <3>1 DEF Q
  <2> QED
    BY <2>5
<1>10. f \in [31..top -> SUBSET Nat]
  BY <1>6, <1>9
<1>11. Division(p, top, f)
  BY <1>7, <1>8, <1>10 DEF Division
<1> QED
  BY <1>3, <1>11 DEF f, p, top


(* A division leaves fewer and fewer terms, as the code's steps do. *)
LEMMA DivisionMirrored ==
    ASSUME NEW top \in Nat, top >= 31, NEW p \in SUBSET (0..top), NEW f, Division(p, top, f)
    PROVE  /\ \A d \in 31..top : f[d] \in SUBSET (0..d)
           /\ \A d \in 31..(top - 1) : Mirror(f[d], d) = Divided(Mirror(f[d + 1], d + 1))
<1> DEFINE n == top - 31
           Q == {i \in 0..n : f[top - i] \in SUBSET (0..(top - i))}
<1>1. f[top] = p /\ \A d \in 31..(top - 1) : f[d] = Reduced(f[d + 1], d + 1)
  BY DEF Division
<1>2. n \in Nat /\ 0 \in Nat /\ top - 0 = top
  OBVIOUS
<1>3. 0 \in Q
  <2>1. f[top - 0] \in SUBSET (0..(top - 0))
    <3>1. f[top] \in SUBSET (0..top)
      BY <1>1
    <3> QED
      BY <1>2, <3>1
  <2> QED
    BY <1>2, <2>1
<1>4. ASSUME NEW d \in 31..(top - 1), f[d + 1] \in SUBSET (0..(d + 1))
      PROVE  /\ f[d] \in SUBSET (0..d)
             /\ Mirror(f[d], d) = Divided(Mirror(f[d + 1], d + 1))
  <2>1. d \in Nat /\ d >= 31
    OBVIOUS
  <2>2. f[d] = Reduced(f[d + 1], d + 1)
    BY <1>1
  <2> DEFINE v == f[d + 1]
  <2>3. v \in SUBSET (0..(d + 1))
    BY <1>4
  <2> HIDE DEF v
  <2>4. /\ Reduced(v, d + 1) \in SUBSET (0..d)
        /\ Mirror(Reduced(v, d + 1), d) = Divided(Mirror(v, d + 1))
    BY <2>1, <2>3, MirrorStep
  <2> QED
    BY <2>2, <2>4 DEF v
<1>5. ASSUME NEW i \in 0..n, i \in Q, i < n
      PROVE  i + 1 \in Q
  <2> DEFINE d == top - (i + 1)
  <2>1. d \in 31..(top - 1) /\ d + 1 = top - i /\ i + 1 \in 0..n
    BY <1>5
  <2>2. f[top - i] \in SUBSET (0..(top - i))
    BY <1>5
  <2> HIDE DEF d, Q, n
  <2>3. f[d] \in SUBSET (0..d)
    BY <1>4, <2>1, <2>2
  <2> QED
    BY <2>1, <2>3 DEF d, Q
<1> HIDE DEF Q
<1>6. 0..n \subseteq Q
  <2> HIDE DEF n
  <2> QED
    BY <1>2, <1>3, <1>5, IntervalInduction
<1>7. ASSUME NEW d \in 31..top
      PROVE  f[d] \in SUBSET (0..d)
  <2>1. top - d \in 0..n /\ top - (top - d) = d
    OBVIOUS
  <2> QED
    BY <1>6, <2>1 DEF Q
<1>8. ASSUME NEW d \in 31..(top - 1)
      PROVE  Mirror(f[d], d) = Divided(Mirror(f[d + 1], d + 1))
  <2>1. d + 1 \in 31..top
    OBVIOUS
  <2>2. f[d + 1] \in SUBSET (0..(d + 1))
    BY <1>7, <2>1
  <2> QED
    BY <1>4, <2>2
<1> QED
  BY <1>7, <1>8

(* The terms of a message's last byte. *)
Tail8(byte) == {39 - b : b \in byte}

LEMMA Tail8Bits ==
    ASSUME NEW byte \in Word(8)
    PROVE  /\ Tail8(byte) \in SUBSET (32..39)
           /\ \A x \in 0..39 : 39 - x \in Tail8(byte) <=> x \in byte
<1>1. byte \in SUBSET (0..7)
  BY DEF Word
<1>2. ASSUME NEW x \in Tail8(byte)
      PROVE  x \in 32..39 /\ 39 - x \in byte
  <2>1. PICK b \in byte : x = 39 - b
    BY <1>2 DEF Tail8
  <2>2. b \in 0..7
    BY <1>1
  <2>3. x \in 32..39 /\ 39 - x = b
    BY <2>1, <2>2
  <2> QED
    BY <2>3
<1>3. \A x \in byte : 39 - x \in Tail8(byte)
  BY DEF Tail8
<1>4. \A x \in 0..39 : 39 - (39 - x) = x
  OBVIOUS
<1> QED
  BY <1>2, <1>3, <1>4

(* Eight more places and a last byte, in a word of any length. *)
Extended(p, byte) == Xor(ShiftLeft(p, 8), Tail8(byte))

LEMMA ExtendedBits ==
    ASSUME NEW p \in SUBSET Nat, NEW byte \in Word(8)
    PROVE  /\ Extended(p, byte) \in SUBSET Nat
           /\ \A x \in Nat : x \in Extended(p, byte)
                <=> ~((x >= 8 /\ x - 8 \in p) <=> x \in Tail8(byte))
<1> DEFINE s == ShiftLeft(p, 8)
           t == Tail8(byte)
<1>1. s \in SUBSET Nat /\ \A x \in Nat : x \in s <=> x >= 8 /\ x - 8 \in p
  BY ShiftLeftBits
<1>2. t \in SUBSET Nat
  BY Tail8Bits
<1> HIDE DEF s, t
<1>3. \A x : x \in Xor(s, t) <=> ~(x \in s <=> x \in t)
  BY XorBits
<1>4. Xor(s, t) \in SUBSET Nat
  BY <1>1, <1>2 DEF Xor
<1> QED
  BY <1>1, <1>3, <1>4 DEF s, t, Extended

(* A step of the division of a message is one of its extension, eight      *)
(* places higher.                                                          *)
LEMMA ReducedExtended ==
    ASSUME NEW p \in SUBSET Nat, NEW byte \in Word(8), NEW d \in Nat, d >= 32
    PROVE  Reduced(Extended(p, byte), d + 8) = Extended(Reduced(p, d), byte)
<1> DEFINE e == Extended(p, byte)
           r == Reduced(p, d)
           re == Reduced(e, d + 8)
           er == Extended(r, byte)
           t == Tail8(byte)
<1>1. e \in SUBSET Nat /\ \A x \in Nat : x \in e <=> ~((x >= 8 /\ x - 8 \in p) <=> x \in t)
  BY ExtendedBits
<1>2. /\ r \in SUBSET Nat
      /\ \A x \in Nat : x \in r <=> ~(x \in p <=> (d \in p /\ x >= d - 32 /\ x - (d - 32) \in G))
  BY ReducedBits
<1>3. t \in SUBSET (32..39)
  BY Tail8Bits
<1> HIDE DEF e, r
<1>4. er \in SUBSET Nat /\ \A x \in Nat : x \in er <=> ~((x >= 8 /\ x - 8 \in r) <=> x \in t)
  BY <1>2, ExtendedBits
<1>5. d + 8 \in Nat /\ d + 8 >= 32 /\ d + 8 >= 8 /\ (d + 8) - 8 = d /\ d + 8 \notin 32..39
  OBVIOUS
<1>6. /\ re \in SUBSET Nat
      /\ \A x \in Nat : x \in re
           <=> ~(x \in e <=> (d + 8 \in e /\ x >= (d + 8) - 32 /\ x - ((d + 8) - 32) \in G))
  BY <1>1, <1>5, ReducedBits
<1> HIDE DEF re, er, t
<1>7. d + 8 \in e <=> d \in p
  <2>1. d + 8 \notin t
    BY <1>3, <1>5
  <2> QED
    BY <1>1, <1>5, <2>1
<1>8. ASSUME NEW x \in Nat
      PROVE  x \in re <=> x \in er
  <2>1. (d + 8) - 32 = d - 24
    OBVIOUS
  <2>2. x >= d - 24 => x >= 8
    OBVIOUS
  <2>3. CASE x >= 8
    <3> DEFINE y == x - 8
    <3>1. y \in Nat /\ (y >= d - 32 <=> x >= d - 24)
      BY <2>3
    <3>2. y - (d - 32) = x - (d - 24)
      OBVIOUS
    <3>3. x \in e <=> ~(y \in p <=> x \in t)
      BY <1>1, <2>3
    <3>4. x \in er <=> ~(y \in r <=> x \in t)
      BY <1>4, <2>3
    <3> HIDE DEF y
    <3>5. y \in r <=> ~(y \in p <=> (d \in p /\ x >= d - 24 /\ x - (d - 24) \in G))
      BY <1>2, <3>1, <3>2
    <3>6. x \in re <=> ~(x \in e <=> (d \in p /\ x >= d - 24 /\ x - (d - 24) \in G))
      BY <1>6, <1>7, <2>1
    <3> QED
      BY <3>3, <3>4, <3>5, <3>6
  <2>4. CASE ~(x >= 8)
    <3>1. x \in re <=> x \in e
      BY <1>6, <2>1, <2>2, <2>4
    <3> QED
      BY <1>1, <1>4, <2>4, <3>1
  <2> QED
    BY <2>3, <2>4
<1>9. re = er
  BY <1>4, <1>6, <1>8, SameBits
<1> QED
  BY <1>9 DEF re, er, r, e


LEMMA DividendAppend ==
    ASSUME NEW m \in Seq(Word(8)), NEW byte \in Word(8)
    PROVE  Dividend(Append(m, byte)) = Extended(Dividend(m), byte)
<1> DEFINE L == Len(m)
           a == Append(m, byte)
           T(y) == \E i \in 1..L : \E b \in m[i] : y = 8 * L + 31 - (8 * (i - 1) + b)
           U(x) == \E i \in 1..(L + 1) : \E b \in a[i] : x = 8 * (L + 1) + 31 - (8 * (i - 1) + b)
           t == Tail8(byte)
<1>1. /\ L \in Nat /\ a \in Seq(Word(8)) /\ Len(a) = L + 1
      /\ a[L + 1] = byte /\ \A i \in 1..L : a[i] = m[i]
  OBVIOUS
<1>2. /\ byte \in SUBSET (0..7)
      /\ \A i \in 1..L : m[i] \in SUBSET (0..7)
  BY DEF Word
<1>3. /\ Dividend(m) \in SUBSET Nat
      /\ \A y \in Nat : y \in Dividend(m) <=> ~(T(y) <=> (y >= 8 * L /\ y <= 8 * L + 31))
  <2>1. Dividend(m) \in SUBSET (0..(8 * L + 31))
    BY DividendBits
  <2>2. \A y \in Nat : y \in Dividend(m) <=> ~(T(y) <=> (y >= 8 * L /\ y <= 8 * L + 31))
    BY DividendBits
  <2>3. Dividend(m) \in SUBSET Nat
    BY <1>1, <2>1
  <2> QED
    BY <2>2, <2>3
<1>4. /\ Dividend(a) \in SUBSET Nat
      /\ \A x \in Nat : x \in Dividend(a)
           <=> ~(U(x) <=> (x >= 8 * (L + 1) /\ x <= 8 * (L + 1) + 31))
  <2> HIDE DEF a
  <2>1. /\ Dividend(a) \in SUBSET (0..(8 * Len(a) + 31))
        /\ \A x \in Nat :
             x \in Dividend(a)
               <=> ~((\E i \in 1..Len(a) : \E b \in a[i] :
                        x = 8 * Len(a) + 31 - (8 * (i - 1) + b))
                     <=> (x >= 8 * Len(a) /\ x <= 8 * Len(a) + 31))
    BY <1>1, DividendBits
  <2> QED
    BY <1>1, <2>1
<1> HIDE DEF L, a
<1>5. ASSUME NEW y \in Nat, T(y)
      PROVE  y >= 32
  <2>1. PICK i \in 1..L : \E b \in m[i] : y = 8 * L + 31 - (8 * (i - 1) + b)
    BY <1>5
  <2>2. PICK b \in m[i] : y = 8 * L + 31 - (8 * (i - 1) + b)
    BY <2>1
  <2>3. b \in 0..7
    BY <1>2
  <2> QED
    BY <1>1, <2>2, <2>3
<1>6. \A l, i, b \in Int : 8 * (l + 1) + 31 - (8 * (i - 1) + b) = (8 * l + 31 - (8 * (i - 1) + b)) + 8
  OBVIOUS
<1>7. \A l, b \in Int : 8 * (l + 1) + 31 - (8 * ((l + 1) - 1) + b) = 39 - b
  OBVIOUS
<1>8. ASSUME NEW x \in Nat, x >= 8, T(x - 8)
      PROVE  U(x)
  <2>1. PICK i \in 1..L : \E b \in m[i] : x - 8 = 8 * L + 31 - (8 * (i - 1) + b)
    BY <1>8
  <2>2. PICK b \in m[i] : x - 8 = 8 * L + 31 - (8 * (i - 1) + b)
    BY <2>1
  <2>3. b \in Int /\ i \in Int /\ L \in Int /\ i \in 1..(L + 1) /\ b \in a[i]
    BY <1>1, <1>2
  <2>4. x = (x - 8) + 8
    OBVIOUS
  <2>5. x = 8 * (L + 1) + 31 - (8 * (i - 1) + b)
    BY <1>6, <2>2, <2>3, <2>4
  <2> QED
    BY <2>3, <2>5
<1>9. ASSUME NEW x \in Nat, x \in t
      PROVE  U(x)
  <2>1. PICK b \in byte : x = 39 - b
    BY <1>9 DEF Tail8
  <2>2. b \in Int /\ L \in Int /\ L + 1 \in 1..(L + 1) /\ b \in a[L + 1]
    BY <1>1, <1>2
  <2>3. x = 8 * (L + 1) + 31 - (8 * ((L + 1) - 1) + b)
    BY <1>7, <2>1, <2>2
  <2> QED
    BY <2>2, <2>3
<1>10. ASSUME NEW x \in Nat, U(x), x \notin t
       PROVE  x >= 8 /\ T(x - 8)
  <2>1. PICK i \in 1..(L + 1) : \E b \in a[i] : x = 8 * (L + 1) + 31 - (8 * (i - 1) + b)
    BY <1>10
  <2>2. PICK b \in a[i] : x = 8 * (L + 1) + 31 - (8 * (i - 1) + b)
    BY <2>1
  <2>3. CASE i = L + 1
    <3>1. b \in byte /\ b \in Int /\ L \in Int
      <4>1. a[i] = byte
        BY <1>1, <2>3
      <4>2. b \in byte
        BY <4>1
      <4>3. b \in 0..7
        BY <1>2, <4>2
      <4> QED
        BY <1>1, <4>2, <4>3
    <3>2. x = 39 - b
      BY <1>7, <2>2, <2>3, <3>1
    <3> QED
      BY <1>10, <3>1, <3>2 DEF Tail8
  <2>4. CASE i # L + 1
    <3>1. i \in 1..L /\ b \in m[i] /\ b \in 0..7 /\ L \in Nat
      BY <1>1, <1>2, <2>4
    <3>2. x = (8 * L + 31 - (8 * (i - 1) + b)) + 8
      BY <1>6, <2>2, <3>1
    <3> DEFINE y == 8 * L + 31 - (8 * (i - 1) + b)
    <3>3. y \in Nat
      BY <3>1
    <3>4. x = y + 8
      BY <3>2
    <3>5. T(y)
      BY <3>1
    <3> HIDE DEF y, T
    <3>6. x >= 8 /\ x - 8 = y
      BY <3>3, <3>4
    <3> QED
      BY <3>5, <3>6
  <2> QED
    BY <2>3, <2>4
<1>11. t \in SUBSET (32..39)
  BY Tail8Bits
<1> HIDE DEF T, U, t
<1> DEFINE p == Dividend(m)
           q == Dividend(a)
           e == Extended(p, byte)
<1>12. e \in SUBSET Nat /\ \A x \in Nat : x \in e <=> ~((x >= 8 /\ x - 8 \in p) <=> x \in t)
  BY <1>3, ExtendedBits DEF t
<1> HIDE DEF p, q, e
<1>13. ASSUME NEW x \in Nat
       PROVE  x \in q <=> x \in e
  <2>1. U(x) <=> ~((x >= 8 /\ T(x - 8)) <=> x \in t)
    <3>1. ASSUME x >= 8, T(x - 8), x \in t
          PROVE  FALSE
      <4>1. x - 8 \in Nat /\ x <= 39
        BY <1>11, <3>1
      <4>2. x - 8 >= 32
        BY <1>5, <3>1, <4>1
      <4> QED
        BY <4>1, <4>2
    <3> QED
      BY <1>8, <1>9, <1>10, <3>1
  <2>2. x \in q <=> ~(U(x) <=> (x >= 8 * (L + 1) /\ x <= 8 * (L + 1) + 31))
    BY <1>4 DEF q
  <2>3. (x >= 8 * (L + 1) /\ x <= 8 * (L + 1) + 31)
          <=> (x >= 8 /\ x - 8 >= 8 * L /\ x - 8 <= 8 * L + 31)
    BY <1>1
  <2>4. ASSUME x >= 8
        PROVE  x - 8 \in p <=> ~(T(x - 8) <=> (x - 8 >= 8 * L /\ x - 8 <= 8 * L + 31))
    <3>1. x - 8 \in Nat
      BY <2>4
    <3> QED
      BY <1>3, <3>1 DEF p
  <2>5. x \in e <=> ~((x >= 8 /\ x - 8 \in p) <=> x \in t)
    BY <1>12
  <2> QED
    BY <2>1, <2>2, <2>3, <2>4, <2>5
<1>14. q = e
  <2>1. q \in SUBSET Nat
    BY <1>4 DEF q
  <2> QED
    BY <1>12, <1>13, <2>1, SameBits
<1> QED
  BY <1>14 DEF q, e, p, a


LEMMA RangeBits ==
    ASSUME NEW k \in Nat, NEW v \in SUBSET (0..k)
    PROVE  v \in SUBSET Nat /\ \A x \in v : x <= k
OBVIOUS

(* What is left of a message is a word of 32 bits. *)
LEMMA RemainderWord ==
    ASSUME NEW m \in Seq(Word(8))
    PROVE  Remainder(m) \in SUBSET (0..31)
<1> DEFINE top == 8 * Len(m) + 31
           p == Dividend(m)
<1>1. top \in Nat /\ top >= 31 /\ 31 \in 31..top
  OBVIOUS
<1>2. p \in SUBSET (0..top)
  BY DividendBits
<1>3. PICK f : Division(p, top, f) /\ Remainder(m) = f[31]
  BY RemainderOf
<1> HIDE DEF top, p
<1>4. f[31] \in SUBSET (0..31)
  BY <1>1, <1>2, <1>3, DivisionMirrored
<1> QED
  BY <1>3, <1>4

(* The code divides a longer message by going on with what it has. *)
LEMMA RemainderAppend ==
    ASSUME NEW m \in Seq(Word(8)), NEW byte \in Word(8)
    PROVE  Mirror(Remainder(Append(m, byte)), 31)
             = Divided8(Xor(Mirror(Remainder(m), 31), byte))
<1> DEFINE a == Append(m, byte)
           top == 8 * Len(m) + 31
           p == Dividend(m)
           q == Dividend(a)
<1>1. top \in Nat /\ top >= 31
  OBVIOUS
<1>2. a \in Seq(Word(8)) /\ 8 * Len(a) + 31 = top + 8
  OBVIOUS
<1>3. p \in SUBSET (0..top)
  BY DividendBits
<1>4. q = Extended(p, byte)
  BY DividendAppend
<1>5. PICK f : Division(p, top, f) /\ Remainder(m) = f[31]
  BY RemainderOf
<1> HIDE DEF a
<1>6. q \in SUBSET (0..(top + 8))
  BY <1>2, DividendBits
<1>7. PICK h : Division(q, top + 8, h) /\ Remainder(a) = h[31]
  BY <1>2, RemainderOf
<1> HIDE DEF top, p, q
<1>8. /\ f \in [31..top -> SUBSET Nat] /\ f[top] = p
      /\ \A d \in 31..(top - 1) : f[d] = Reduced(f[d + 1], d + 1)
  BY <1>5 DEF Division
<1>9. /\ h[top + 8] = q
      /\ \A d \in 31..((top + 8) - 1) : h[d] = Reduced(h[d + 1], d + 1)
  BY <1>7 DEF Division
<1>10. h[39] = Extended(f[31], byte)
  <2> DEFINE n == top - 31
             Q == {i \in 0..n : h[(top - i) + 8] = Extended(f[top - i], byte)}
  <2>1. n \in Nat /\ 0 \in Nat
    BY <1>1
  <2>2. 0 \in Q
    <3>1. (top - 0) + 8 = top + 8 /\ top - 0 = top /\ 0 \in 0..n
      BY <1>1
    <3> QED
      BY <1>4, <1>8, <1>9, <3>1
  <2>3. ASSUME NEW i \in 0..n, i \in Q, i < n
        PROVE  i + 1 \in Q
    <3> DEFINE d == (top - i) - 1
    <3>1. /\ d \in 31..(top - 1) /\ d + 8 \in 31..((top + 8) - 1) /\ d + 1 \in Nat /\ d + 1 >= 32
          /\ d + 1 \in 31..top /\ d \in Nat
      BY <1>1, <2>3
    <3>2. top - i = d + 1 /\ top - (i + 1) = d /\ i + 1 \in 0..n
      BY <1>1, <2>3
    <3> HIDE DEF d
    <3>3. (d + 1) + 8 = (d + 8) + 1
      BY <3>1
    <3>4. h[(d + 1) + 8] = Extended(f[d + 1], byte)
      BY <2>3, <3>2
    <3>5. h[d + 8] = Reduced(h[(d + 8) + 1], (d + 8) + 1)
      BY <1>9, <3>1
    <3>6. f[d + 1] \in SUBSET Nat /\ f[d] = Reduced(f[d + 1], d + 1)
      BY <1>8, <3>1
    <3>7. Reduced(Extended(f[d + 1], byte), (d + 1) + 8) = Extended(Reduced(f[d + 1], d + 1), byte)
      BY <3>1, <3>6, ReducedExtended
    <3>8. h[d + 8] = Extended(f[d], byte)
      BY <3>3, <3>4, <3>5, <3>6, <3>7
    <3> QED
      BY <3>2, <3>8
  <2> HIDE DEF Q
  <2>4. 0..n \subseteq Q
    <3> HIDE DEF n
    <3> QED
      BY <2>1, <2>2, <2>3, IntervalInduction
  <2>5. n \in 0..n /\ top - n = 31 /\ 31 + 8 = 39
    BY <1>1
  <2> QED
    BY <2>4, <2>5 DEF Q
<1>11. f[31] \in SUBSET (0..31)
  <2>1. 31 \in 31..top
    BY <1>1
  <2> QED
    BY <1>1, <1>3, <1>5, <2>1, DivisionMirrored
<1>12. /\ \A d \in 31..(top + 8) : h[d] \in SUBSET (0..d)
       /\ \A d \in 31..((top + 8) - 1) : Mirror(h[d], d) = Divided(Mirror(h[d + 1], d + 1))
  <2>1. top + 8 \in Nat /\ top + 8 >= 31
    BY <1>1
  <2> QED
    BY <1>6, <1>7, <2>1, DivisionMirrored
<1> DEFINE M(d) == Mirror(h[d], d)
<1>13. M(31) = Divided8(M(39))
  <2>1. \A d \in 31..38 : M(d) = Divided(M(d + 1))
    BY <1>1, <1>12
  <2> HIDE DEF M
  <2>2. /\ M(31) = Divided(M(31 + 1)) /\ M(32) = Divided(M(32 + 1))
        /\ M(33) = Divided(M(33 + 1)) /\ M(34) = Divided(M(34 + 1))
        /\ M(35) = Divided(M(35 + 1)) /\ M(36) = Divided(M(36 + 1))
        /\ M(37) = Divided(M(37 + 1)) /\ M(38) = Divided(M(38 + 1))
    BY <2>1
  <2>3. /\ 31 + 1 = 32 /\ 32 + 1 = 33 /\ 33 + 1 = 34 /\ 34 + 1 = 35
        /\ 35 + 1 = 36 /\ 36 + 1 = 37 /\ 37 + 1 = 38 /\ 38 + 1 = 39
    OBVIOUS
  <2> QED
    BY <2>2, <2>3 DEF Divided8
<1>14. M(39) = Xor(Mirror(f[31], 31), byte)
  <2> DEFINE v == f[31]
             w == h[39]
             mv == Mirror(v, 31)
             mw == Mirror(w, 39)
             x8 == Xor(mv, byte)
             t == Tail8(byte)
  <2>1. v \in SUBSET (0..31) /\ v \in SUBSET Nat /\ w = Extended(v, byte)
    <3>1. v \in SUBSET (0..31) /\ w = Extended(v, byte)
      BY <1>10, <1>11
    <3> HIDE DEF v
    <3>2. v \in SUBSET Nat
      BY <3>1, RangeBits
    <3> QED
      BY <3>1, <3>2
  <2>2. w \in SUBSET (0..39)
    <3>1. 39 \in 31..(top + 8)
      BY <1>1
    <3> QED
      BY <1>12, <3>1
  <2> HIDE DEF v, w
  <2>3. \A x \in Nat : x \in w <=> ~((x >= 8 /\ x - 8 \in v) <=> x \in t)
    BY <2>1, ExtendedBits
  <2>4. \A x \in 0..39 : 39 - x \in t <=> x \in byte
    BY Tail8Bits
  <2>5. mv \in SUBSET (0..31) /\ \A x \in 0..31 : x \in mv <=> 31 - x \in v
    BY <2>1, MirrorBits
  <2>6. mw \in SUBSET (0..39) /\ \A x \in 0..39 : x \in mw <=> 39 - x \in w
    BY <2>2, MirrorBits
  <2>7. byte \in SUBSET (0..7)
    BY DEF Word
  <2>12. /\ byte \in SUBSET Nat /\ \A x \in byte : x <= 7
         /\ mv \in SUBSET Nat /\ \A x \in mv : x <= 31
         /\ mw \in SUBSET Nat /\ \A x \in mw : x <= 39
    <3>1. byte \in SUBSET Nat /\ \A x \in byte : x <= 7
      BY <2>7, RangeBits
    <3> HIDE DEF mv, mw
    <3>2. mv \in SUBSET Nat /\ \A x \in mv : x <= 31
      BY <2>5, RangeBits
    <3>3. mw \in SUBSET Nat /\ \A x \in mw : x <= 39
      BY <2>6, RangeBits
    <3> QED
      BY <3>1, <3>2, <3>3
  <2>8. \A x : x \in x8 <=> ~(x \in mv <=> x \in byte)
    BY XorBits
  <2>9. x8 \in SUBSET Nat
    BY <2>12 DEF Xor
  <2> HIDE DEF mv, mw, x8, t
  <2>10. ASSUME NEW x \in Nat
         PROVE  x \in mw <=> x \in x8
    <3>1. CASE x \in 0..39
      <4> DEFINE y == 39 - x
      <4>1. y \in Nat /\ (y >= 8 <=> x <= 31) /\ y - 8 = 31 - x
        BY <3>1
      <4>2. x \in mw <=> y \in w
        BY <2>6, <3>1
      <4>3. y \in t <=> x \in byte
        BY <2>4, <3>1
      <4> HIDE DEF y
      <4>4. y \in w <=> ~((y >= 8 /\ y - 8 \in v) <=> y \in t)
        BY <2>3, <4>1
      <4>5. x \in mv <=> x <= 31 /\ 31 - x \in v
        <5>1. x <= 31 => x \in 0..31
          OBVIOUS
        <5> QED
          BY <2>5, <2>12, <5>1
      <4> QED
        BY <2>8, <4>1, <4>2, <4>3, <4>4, <4>5
    <3>2. CASE x > 39
      <4>1. ~(x <= 39) /\ ~(x <= 31) /\ ~(x <= 7)
        BY <3>2
      <4> QED
        BY <2>8, <2>12, <4>1
    <3> QED
      BY <3>1, <3>2
  <2>11. mw = x8
    BY <2>9, <2>10, <2>12, SameBits
  <2> QED
    BY <2>11 DEF mw, x8, mv, v, w
<1> QED
  BY <1>5, <1>7, <1>13, <1>14 DEF a

-----------------------------------------------------------------------------
(* The invariant of calculate()'s loop. *)
CRCInv == CRCType /\ crc = Mirror(Remainder(message), 31)

LEMMA CRCInvInit ==
    CRCInit => CRCInv
<1> SUFFICES ASSUME CRCInit
             PROVE  CRCInv
  OBVIOUS
<1> DEFINE m == <<>>
<1>1. m \in Seq(Word(8)) /\ Len(m) = 0 /\ 8 * Len(m) + 31 = 31 /\ 8 * Len(m) = 0
  OBVIOUS
<1> HIDE DEF m
<1>2. Dividend(m) = 0..31
  <2>1. /\ Dividend(m) \in SUBSET (0..(8 * Len(m) + 31))
        /\ \A x \in Nat :
             x \in Dividend(m)
               <=> ~((\E i \in 1..Len(m) : \E b \in m[i] :
                        x = 8 * Len(m) + 31 - (8 * (i - 1) + b))
                     <=> (x >= 8 * Len(m) /\ x <= 8 * Len(m) + 31))
    BY <1>1, DividendBits
  <2>2. \A i \in 1..Len(m) : FALSE
    BY <1>1
  <2>3. \A x \in 0..31 : x \in Dividend(m)
    BY <1>1, <2>1, <2>2
  <2> QED
    BY <1>1, <2>1, <2>3
<1>3. PICK f : Division(Dividend(m), 8 * Len(m) + 31, f) /\ Remainder(m) = f[31]
  BY <1>1, RemainderOf
<1>4. Remainder(m) = 0..31
  BY <1>1, <1>2, <1>3 DEF Division
<1>5. Mirror(0..31, 31) = 0..31
  <2>1. /\ Mirror(0..31, 31) \in SUBSET (0..31)
        /\ \A x \in 0..31 : x \in Mirror(0..31, 31) <=> 31 - x \in 0..31
    BY MirrorBits
  <2> QED
    BY <2>1
<1>6. message = m /\ crc = 0..31
  BY DEF CRCInit, m
<1> QED
  BY <1>4, <1>5, <1>6, CRCTypeInit DEF CRCInv

LEMMA CRCInvStep ==
    ASSUME CRCInv, [CRCNext]_crcVars
    PROVE  CRCInv'
<1>1. CRCType /\ CRCType' /\ crc = Mirror(Remainder(message), 31)
  BY CRCTypeStep DEF CRCInv
<1>2. CASE CRCNext
  <2>1. PICK byte \in Word(8) : /\ message' = Append(message, byte)
                                /\ Xor(crc, byte) \in Word(32)
                                /\ crc' = Divided8(Xor(crc, byte))
    BY <1>1, <1>2, TurnDivides
  <2>2. message \in Seq(Word(8))
    BY <1>1 DEF CRCType
  <2>3. Mirror(Remainder(Append(message, byte)), 31)
          = Divided8(Xor(Mirror(Remainder(message), 31), byte))
    BY <2>2, RemainderAppend
  <2>4. crc' = Mirror(Remainder(message'), 31)
    BY <1>1, <2>1, <2>3
  <2> QED
    BY <1>1, <2>4 DEF CRCInv
<1>3. CASE UNCHANGED crcVars
  BY <1>1, <1>3 DEF CRCInv, crcVars
<1> QED
  BY <1>2, <1>3

LEMMA StandardCRC ==
    CRCInv => CRCIsStandard
<1> SUFFICES ASSUME CRCInv
             PROVE  CRCIsStandard
  OBVIOUS
<1> DEFINE r == Remainder(message)
           n == Not(r, 32)
           mr == Mirror(r, 31)
<1>1. r \in SUBSET (0..31)
  BY RemainderWord DEF CRCInv, CRCType
<1> HIDE DEF r
<1>2. mr \in SUBSET (0..31) /\ \A x \in 0..31 : x \in mr <=> 31 - x \in r
  BY <1>1, MirrorBits
<1>3. n \in SUBSET (0..31) /\ \A x \in 0..31 : x \in n <=> x \notin r
  BY DEF Not
<1> HIDE DEF mr, n
<1>4. Mirror(n, 31) \in SUBSET (0..31) /\ \A x \in 0..31 : x \in Mirror(n, 31) <=> 31 - x \in n
  BY <1>3, MirrorBits
<1>5. Not(mr, 32) \in SUBSET (0..31) /\ \A x \in 0..31 : x \in Not(mr, 32) <=> x \notin mr
  BY DEF Not
<1>6. \A x \in 0..31 : 31 - x \in 0..31
  OBVIOUS
<1>7. Not(mr, 32) = Mirror(n, 31)
  BY <1>2, <1>3, <1>4, <1>5, <1>6
<1>8. calculate = Not(mr, 32)
  BY DEF calculate, CRCInv, mr, r
<1> QED
  BY <1>7, <1>8 DEF CRCIsStandard, Mirror, n, r

(* For every message of bytes, of any length, the loop over the lookup     *)
(* table in CRC32::calculate() returns the checksum of IEEE 802.3: the     *)
(* complement of the remainder of the message's polynomial modulo G.       *)
THEOREM CRCSafe ==
    CRCSpec => []CRCIsStandard
<1>1. CRCInit => CRCInv
  BY CRCInvInit
<1>2. CRCInv /\ [CRCNext]_crcVars => CRCInv'
  BY CRCInvStep
<1>3. CRCInv => CRCIsStandard
  BY StandardCRC
<1> QED
  BY <1>1, <1>2, <1>3, PTL DEF CRCSpec


-----------------------------------------------------------------------------
(* The hash: what update() has taken in. *)

Bytes == {Byte(i) : i \in Nat} \cup {0, 128}
Buffers == [0..63 -> Bytes]
Contexts == [state : Seq(Buffers), buffer : Buffers, bufLen : 0..63, bitLen : Nat]

(* The k-th block of the message. *)
Block(k) == [i \in 0..63 |-> Byte(64 * (k - 1) + i + 1)]

(* The members after the first h bytes: n full blocks are transformed, and *)
(* the buffer holds the next r bytes.                                      *)
Splits(ctx, h, n, r) ==
    /\ h = 64 * n + r
    /\ ctx.state = [k \in 1..n |-> Block(k)]
    /\ ctx.bufLen = r /\ ctx.bitLen = 512 * n
    /\ \A i \in 0..63 : i < r => ctx.buffer[i] = Byte(64 * n + i + 1)

Taken(ctx, h) == \E n \in Nat : \E r \in 0..63 : Splits(ctx, h, n, r)

LEMMA AbsorbStep ==
    ASSUME NEW ctx \in Contexts, NEW h \in Nat, NEW byte \in Bytes
    PROVE  /\ Absorb(ctx, byte) \in Contexts
           /\ Taken(ctx, h) /\ byte = Byte(h + 1) => Taken(Absorb(ctx, byte), h + 1)
<1> DEFINE buffer == [ctx.buffer EXCEPT ![ctx.bufLen] = byte]
           next == Absorb(ctx, byte)
<1>1. /\ ctx.state \in Seq(Buffers) /\ ctx.buffer \in Buffers
      /\ ctx.bufLen \in 0..63 /\ ctx.bitLen \in Nat
  BY DEF Contexts
<1>2. /\ buffer \in Buffers /\ buffer[ctx.bufLen] = byte
      /\ \A i \in 0..63 : i # ctx.bufLen => buffer[i] = ctx.buffer[i]
  BY <1>1 DEF Buffers
<1>3. next = IF ctx.bufLen + 1 = 64
             THEN [state |-> Append(ctx.state, buffer), buffer |-> buffer, bufLen |-> 0,
                   bitLen |-> ctx.bitLen + 512]
             ELSE [ctx EXCEPT !.buffer = buffer, !.bufLen = @ + 1]
  BY DEF Absorb
<1> HIDE DEF buffer, next
<1>4. CASE ctx.bufLen + 1 = 64
  <2>1. /\ next.state = Append(ctx.state, buffer) /\ next.buffer = buffer
        /\ next.bufLen = 0 /\ next.bitLen = ctx.bitLen + 512
    BY <1>3, <1>4
  <2>2. next \in Contexts
    <3>1. Append(ctx.state, buffer) \in Seq(Buffers)
      BY <1>1, <1>2, AppendProperties
    <3>2. 0 \in 0..63
      OBVIOUS
    <3>3. ctx.bitLen + 512 \in Nat
      BY <1>1
    <3> QED
      BY <1>2, <1>3, <1>4, <3>1, <3>2, <3>3 DEF Contexts
  <2>3. ASSUME Taken(ctx, h), byte = Byte(h + 1)
        PROVE  Taken(next, h + 1)
    <3>0. PICK n \in Nat, r \in 0..63 : Splits(ctx, h, n, r)
      BY <2>3 DEF Taken
    <3>1. /\ h = 64 * n + r
          /\ ctx.state = [k \in 1..n |-> Block(k)]
          /\ ctx.bufLen = r /\ ctx.bitLen = 512 * n
          /\ \A i \in 0..63 : i < r => ctx.buffer[i] = Byte(64 * n + i + 1)
      BY <3>0 DEF Splits
    <3>2. r = 63 /\ h + 1 = 64 * (n + 1) + 0 /\ n + 1 \in Nat
      BY <1>4, <3>1
    <3>3. buffer = Block(n + 1)
      <4>1. 64 * ((n + 1) - 1) = 64 * n
        OBVIOUS
      <4>2. ASSUME NEW i \in 0..63
            PROVE  buffer[i] = Byte(64 * n + i + 1)
        <5>1. CASE i = 63
          <6>1. h + 1 = 64 * n + i + 1
            BY <3>1, <3>2, <5>1
          <6> QED
            BY <1>2, <2>3, <3>1, <3>2, <5>1, <6>1
        <5>2. CASE i # 63
          <6>1. i < r /\ i # ctx.bufLen
            BY <3>1, <3>2, <5>2
          <6> QED
            BY <1>2, <3>1, <6>1
        <5> QED
          BY <5>1, <5>2
      <4> QED
        BY <1>2, <4>1, <4>2 DEF Block, Buffers
    <3>4. Append(ctx.state, buffer) = [k \in 1..(n + 1) |-> Block(k)]
      <4> DEFINE old == ctx.state
      <4>1. old \in Seq(Buffers) /\ Len(old) = n /\ \A k \in 1..n : old[k] = Block(k)
        <5> HIDE DEF old
        <5>1. old \in Seq(Buffers) /\ old = [k \in 1..n |-> Block(k)]
          BY <1>1, <3>1 DEF old
        <5> QED
          BY <5>1
      <4> HIDE DEF old
      <4> DEFINE new == Append(old, buffer)
      <4>2. /\ new \in Seq(Buffers) /\ Len(new) = n + 1
            /\ \A k \in 1..n : new[k] = Block(k)
            /\ new[n + 1] = Block(n + 1)
        <5>1. /\ new \in Seq(Buffers) /\ Len(new) = Len(old) + 1
              /\ \A k \in 1..Len(old) : new[k] = old[k]
              /\ new[Len(old) + 1] = buffer
          BY <1>2, <4>1, AppendProperties
        <5> QED
          BY <3>3, <4>1, <5>1
      <4> HIDE DEF new
      <4>3. \A k \in 1..(n + 1) : k \in 1..n \/ k = n + 1
        OBVIOUS
      <4>4. \A k \in 1..(n + 1) : new[k] = Block(k)
        BY <4>2, <4>3
      <4>5. new = [k \in 1..(n + 1) |-> Block(k)]
        BY <4>2, <4>4
      <4> QED
        BY <4>5 DEF old, new
    <3>5. next.bitLen = 512 * (n + 1)
      BY <2>1, <3>1
    <3>6. \A i \in 0..63 : ~(i < 0)
      OBVIOUS
    <3>7. 0 \in 0..63
      OBVIOUS
    <3>8. Splits(next, h + 1, n + 1, 0)
      BY <2>1, <3>2, <3>4, <3>5, <3>6 DEF Splits
    <3> QED
      BY <3>2, <3>7, <3>8 DEF Taken
  <2> QED
    BY <2>2, <2>3 DEF next
<1>5. CASE ctx.bufLen + 1 # 64
  <2>1. next = [ctx EXCEPT !.buffer = buffer, !.bufLen = ctx.bufLen + 1]
    BY <1>1, <1>3, <1>5 DEF Contexts
  <2>2. /\ next.state = ctx.state /\ next.buffer = buffer
        /\ next.bufLen = ctx.bufLen + 1 /\ next.bitLen = ctx.bitLen
    BY <2>1 DEF Contexts
  <2>3. next \in Contexts
    <3>1. ctx.bufLen + 1 \in 0..63
      <4>1. \A l \in 0..63 : l + 1 # 64 => l + 1 \in 0..63
        OBVIOUS
      <4> QED
        BY <1>1, <1>5, <4>1
    <3> QED
      BY <1>2, <2>1, <3>1 DEF Contexts
  <2>4. ASSUME Taken(ctx, h), byte = Byte(h + 1)
        PROVE  Taken(next, h + 1)
    <3>0. PICK n \in Nat, r \in 0..63 : Splits(ctx, h, n, r)
      BY <2>4 DEF Taken
    <3>1. /\ h = 64 * n + r
          /\ ctx.state = [k \in 1..n |-> Block(k)]
          /\ ctx.bufLen = r /\ ctx.bitLen = 512 * n
          /\ \A i \in 0..63 : i < r => ctx.buffer[i] = Byte(64 * n + i + 1)
      BY <3>0 DEF Splits
    <3>2. r + 1 \in 0..63 /\ h + 1 = 64 * n + (r + 1)
      BY <1>5, <3>1
    <3>3. ASSUME NEW i \in 0..63, i < r + 1
          PROVE  buffer[i] = Byte(64 * n + i + 1)
      <4>1. CASE i = r
        <5>1. h + 1 = 64 * n + i + 1
          BY <3>1, <4>1
        <5> QED
          BY <1>2, <2>4, <3>1, <4>1, <5>1
      <4>2. CASE i # r
        <5>1. i < r
          BY <3>3, <4>2
        <5> QED
          BY <1>2, <3>1, <4>2, <5>1
      <4> QED
        BY <4>1, <4>2
    <3>4. \A i \in 0..63 : i < r + 1 => next.buffer[i] = Byte(64 * n + i + 1)
      BY <2>2, <3>3
    <3>5. next.state = [k \in 1..n |-> Block(k)] /\ next.bufLen = r + 1 /\ next.bitLen = 512 * n
      BY <2>2, <3>1
    <3> DEFINE q == r + 1
    <3>6. /\ q \in 0..63 /\ h + 1 = 64 * n + q
          /\ next.state = [k \in 1..n |-> Block(k)] /\ next.bufLen = q /\ next.bitLen = 512 * n
          /\ \A i \in 0..63 : i < q => next.buffer[i] = Byte(64 * n + i + 1)
      BY <3>2, <3>4, <3>5
    <3> HIDE DEF q
    <3>7. Splits(next, h + 1, n, q)
      BY <3>6 DEF Splits
    <3> QED
      BY <3>6, <3>7 DEF Taken
  <2> QED
    BY <2>3, <2>4 DEF next
<1> QED
  BY <1>4, <1>5


(* The loop of update() over len bytes. *)
LEMMA AbsorbingTakes ==
    ASSUME NEW ctx \in Contexts, NEW from \in Nat, NEW len \in Nat, Taken(ctx, from)
    PROVE  /\ Absorbing(ctx, from, len)[len] \in Contexts
           /\ Taken(Absorbing(ctx, from, len)[len], from + len)
<1> DEFINE S == Contexts
           g == [i \in 1..len |-> [c \in S |-> Absorb(c, Byte(from + i))]]
           Loop(f) == f = [i \in 0..len |->
                             IF i = 0 THEN ctx ELSE Absorb(f[i - 1], Byte(from + i))]
<1>1. \A i \in Nat : Byte(i) \in Bytes
  BY DEF Bytes
<1>2. ASSUME NEW i \in 1..len, NEW c \in S
      PROVE  Absorb(c, Byte(from + i)) \in S
  <2>1. from + i \in Nat
    OBVIOUS
  <2>2. Byte(from + i) \in Bytes
    BY <1>1, <2>1
  <2> QED
    BY <2>2, AbsorbStep
<1>3. Absorbing(ctx, from, len) = CHOOSE f : Loop(f)
  BY DEF Absorbing
<1>4. \E f : Loop(f)
  <2>1. g \in [1..len -> [S -> S]]
    BY <1>2
  <2>2. g \in Turns(S, 0, len)
    <3>1. 0 + 1 = 1
      OBVIOUS
    <3> QED
      BY <2>1, <3>1 DEF Turns
  <2>3. 0 \in Nat /\ 0 <= len
    OBVIOUS
  <2> HIDE DEF g, S
  <2>4. ctx \in S
    BY DEF S
  <2>5. Runs(S, ctx, 0, len, g) # {}
    BY <2>2, <2>3, <2>4, IterationExists
  <2>6. PICK h : h \in Runs(S, ctx, 0, len, g)
    BY <2>5
  <2>7. /\ h \in [0..len -> S] /\ h[0] = ctx
        /\ \A i \in 1..len : h[i] = g[i][h[i - 1]]
    <3>1. 0 + 1 = 1
      OBVIOUS
    <3> QED
      BY <2>6, <3>1 DEF Runs
  <2>8. ASSUME NEW i \in 0..len
        PROVE  h[i] = IF i = 0 THEN ctx ELSE Absorb(h[i - 1], Byte(from + i))
    <3>1. CASE i = 0
      BY <2>7, <3>1
    <3>2. CASE i # 0
      <4>1. i \in 1..len /\ i - 1 \in 0..len
        BY <3>2
      <4>2. h[i] = g[i][h[i - 1]] /\ h[i - 1] \in S
        BY <2>7, <4>1
      <4>3. g[i][h[i - 1]] = Absorb(h[i - 1], Byte(from + i))
        BY <4>1, <4>2 DEF g
      <4> QED
        BY <3>2, <4>2, <4>3
    <3> QED
      BY <3>1, <3>2
  <2>9. Loop(h)
    BY <2>7, <2>8
  <2> QED
    BY <2>9
<1> DEFINE f == CHOOSE k : Loop(k)
<1>5. Loop(f)
  BY <1>4
<1> HIDE DEF f
<1>6. f[0] = ctx /\ \A i \in 1..len : f[i] = Absorb(f[i - 1], Byte(from + i))
  BY <1>5
<1> DEFINE P == {i \in 0..len : f[i] \in Contexts /\ Taken(f[i], from + i)}
<1>7. 0 \in P
  <2>1. from + 0 = from /\ 0 \in 0..len
    OBVIOUS
  <2> QED
    BY <1>6, <2>1
<1>8. ASSUME NEW i \in 0..len, i \in P, i < len
      PROVE  i + 1 \in P
  <2>1. /\ i + 1 \in 1..len /\ i + 1 \in 0..len /\ (i + 1) - 1 = i
        /\ from + (i + 1) = (from + i) + 1 /\ from + i \in Nat /\ (from + i) + 1 \in Nat
    BY <1>8
  <2>2. f[i + 1] = Absorb(f[i], Byte((from + i) + 1))
    BY <1>6, <2>1
  <2>3. f[i] \in Contexts /\ Taken(f[i], from + i)
    BY <1>8
  <2>4. Byte((from + i) + 1) \in Bytes
    BY <1>1, <2>1
  <2>5. /\ Absorb(f[i], Byte((from + i) + 1)) \in Contexts
        /\ Taken(Absorb(f[i], Byte((from + i) + 1)), (from + i) + 1)
    BY <2>1, <2>3, <2>4, AbsorbStep
  <2> QED
    BY <2>1, <2>2, <2>5
<1> HIDE DEF P
<1>9. 0..len \subseteq P
  <2>1. 0 \in Nat
    OBVIOUS
  <2> QED
    BY <1>7, <1>8, <2>1, IntervalInduction
<1>10. len \in P
  BY <1>9
<1> QED
  BY <1>3, <1>10 DEF P, f

(* The members of the object, as one context. *)
Context == [state |-> m_state, buffer |-> m_buffer, bufLen |-> m_bufLen, bitLen |-> m_bitLen]

SHAInv == hashed \in Nat /\ Context \in Contexts /\ Taken(Context, hashed)

LEMMA SHAInvInit ==
    SHAInit => SHAInv
<1> SUFFICES ASSUME SHAInit
             PROVE  SHAInv
  OBVIOUS
<1> DEFINE c == Context
<1>1. /\ m_state = <<>> /\ m_bufLen = 0 /\ m_bitLen = 0
      /\ m_buffer = [i \in 0..63 |-> 0] /\ hashed = 0
  BY DEF SHAInit
<1>2. m_buffer \in Buffers
  BY <1>1 DEF Buffers, Bytes
<1>3. c.state = m_state /\ c.bufLen = m_bufLen /\ c.bitLen = m_bitLen /\ c.buffer = m_buffer
  BY DEF Context
<1>4. m_state \in Seq(Buffers)
  BY <1>1
<1>5. 0 \in 0..63 /\ 0 \in Nat /\ 0 = 64 * 0 + 0 /\ 0 = 512 * 0 /\ \A i \in 0..63 : ~(i < 0)
  OBVIOUS
<1>6. c \in Contexts
  BY <1>1, <1>2, <1>4, <1>5 DEF Contexts, Context
<1>7. m_state = [k \in 1..0 |-> Block(k)]
  BY <1>1
<1> HIDE DEF c
<1>8. Splits(c, 0, 0, 0)
  BY <1>1, <1>3, <1>5, <1>7 DEF Splits
<1>9. Taken(c, 0)
  BY <1>5, <1>8 DEF Taken
<1> QED
  BY <1>1, <1>5, <1>6, <1>9 DEF SHAInv, c

LEMMA SHAInvStep ==
    ASSUME SHAInv, [SHANext]_shaVars
    PROVE  SHAInv'
<1>1. CASE SHANext
  <2>1. PICK len \in Chunks : update(len)
    BY <1>1 DEF SHANext
  <2>2. len \in Nat /\ hashed \in Nat /\ Context \in Contexts /\ Taken(Context, hashed)
    BY HashAssumption DEF SHAInv
  <2> DEFINE new == Absorbing(Context, hashed, len)[len]
  <2>3. /\ hashed' = hashed + len
        /\ m_state' = new.state /\ m_buffer' = new.buffer
        /\ m_bufLen' = new.bufLen /\ m_bitLen' = new.bitLen
    BY <2>1 DEF update, Context
  <2>4. new \in Contexts /\ Taken(new, hashed + len)
    BY <2>2, AbsorbingTakes
  <2> HIDE DEF new
  <2>5. Context' = new
    <3>1. Context' = [state |-> new.state, buffer |-> new.buffer,
                      bufLen |-> new.bufLen, bitLen |-> new.bitLen]
      BY <2>3 DEF Context
    <3> QED
      BY <2>4, <3>1 DEF Contexts
  <2>6. hashed + len \in Nat
    BY <2>2
  <2> QED
    BY <2>3, <2>4, <2>5, <2>6 DEF SHAInv
<1>2. CASE UNCHANGED shaVars
  <2>1. Context' = Context /\ hashed' = hashed
    BY <1>2 DEF shaVars, members, Context
  <2> QED
    BY <2>1 DEF SHAInv
<1> QED
  BY <1>1, <1>2


-----------------------------------------------------------------------------
(* The padding of digest(). *)

(* The zeros that a message needs which ends r bytes into a block. *)
Zeros(r) == IF r <= 55 THEN 55 - r ELSE 119 - r

Chosen(h) == CHOOSE k \in 0..63 : (h + 1 + k + 8) % 64 = 0

LEMMA ZerosChosen ==
    ASSUME NEW n \in Nat, NEW r \in 0..63, NEW h \in Nat, h = 64 * n + r
    PROVE  /\ Chosen(h) = Zeros(r)
           /\ Zeros(r) \in 0..63
<1> DEFINE z == Zeros(r)
<1>1. z \in 0..63
  BY DEF Zeros
<1>2. (h + 1 + z + 8) % 64 = 0
  <2>1. CASE r <= 55
    <3>1. h + 1 + z + 8 = 64 * (n + 1)
      BY <2>1 DEF Zeros
    <3> QED
      BY <3>1
  <2>2. CASE ~(r <= 55)
    <3>1. h + 1 + z + 8 = 64 * (n + 2)
      BY <2>2 DEF Zeros
    <3> QED
      BY <3>1
  <2> QED
    BY <2>1, <2>2
<1> HIDE DEF z
<1>3. ASSUME NEW k \in 0..63, (h + 1 + k + 8) % 64 = 0
      PROVE  k = z
  <2> DEFINE a == h + 1 + z + 8
             b == h + 1 + k + 8
  <2>1. /\ a \in Nat /\ b \in Nat /\ a % 64 = 0 /\ b % 64 = 0
        /\ a - b = z - k
    BY <1>1, <1>2, <1>3
  <2>2. z - k \in (-63)..63
    BY <1>1
  <2> HIDE DEF a, b
  <2>3. a = 64 * (a \div 64) /\ b = 64 * (b \div 64)
    BY <2>1
  <2>4. z - k = 0
    BY <2>1, <2>2, <2>3
  <2> QED
    BY <1>1, <2>4
<1> DEFINE Fits(k) == (h + 1 + k + 8) % 64 = 0
<1>4. Fits(z) /\ \A k \in 0..63 : Fits(k) => k = z
  BY <1>2, <1>3
<1> HIDE DEF Fits
<1>5. (CHOOSE k \in 0..63 : Fits(k)) = z
  BY <1>1, <1>4
<1> QED
  BY <1>1, <1>5 DEF Fits, z, Chosen

(* Two sequences, one after the other. *)
IsConcat(c, s, t) == c = s \o t

LEMMA JoinedType ==
    ASSUME NEW S, NEW s \in Seq(S), NEW t \in Seq(S), NEW c, IsConcat(c, s, t)
    PROVE  c \in Seq(S) /\ Len(c) = Len(s) + Len(t)
BY DEF IsConcat

LEMMA JoinedLeft ==
    ASSUME NEW S, NEW s \in Seq(S), NEW t \in Seq(S), NEW c, IsConcat(c, s, t),
           NEW a \in Nat, Len(s) = a, NEW x \in 1..a
    PROVE  c[x] = s[x]
BY DEF IsConcat

LEMMA JoinedRight ==
    ASSUME NEW S, NEW s \in Seq(S), NEW t \in Seq(S), NEW c, IsConcat(c, s, t),
           NEW a \in Nat, Len(s) = a, NEW b \in Nat, Len(t) = b, NEW x \in (a + 1)..(a + b)
    PROVE  c[x] = t[x - a]
BY DEF IsConcat

(* The bytes of the padded message. *)
LEMMA PaddedBytes ==
    ASSUME NEW h \in Nat, NEW z \in Nat,
           Chosen(h) = z
    PROVE  /\ Len(Padded(h)) = h + 9 + z
           /\ \A x \in 1..(h + 9 + z) :
                Padded(h)[x] = IF x <= h THEN Byte(x)
                               ELSE IF x = h + 1 THEN 128
                               ELSE IF x <= h + 1 + z THEN 0
                               ELSE ByteAt(8 * h, 8 - (x - (h + 1 + z)))
<1> DEFINE W == Bytes \cup {ByteAt(8 * h, k) : k \in Int}
           s1 == Message(h)
           s2 == <<128>>
           s3 == [i \in 1..z |-> 0]
           s4 == [i \in 1..8 |-> ByteAt(8 * h, 8 - i)]
<1>1. z \in Nat
  OBVIOUS
<1>2. Padded(h) = ((s1 \o s2) \o s3) \o s4
  BY DEF Padded, Chosen
<1>3. s1 \in Seq(W) /\ Len(s1) = h /\ \A x \in 1..h : s1[x] = Byte(x)
  <2>1. \A x \in 1..h : Byte(x) \in W
    BY DEF Bytes
  <2> HIDE DEF W
  <2>2. s1 \in [1..h -> W]
    BY <2>1 DEF Message
  <2> QED
    BY <2>2 DEF Message
<1>4. s2 \in Seq(W) /\ Len(s2) = 1 /\ s2[1] = 128
  BY DEF Bytes
<1>5. s3 \in Seq(W) /\ Len(s3) = z /\ \A x \in 1..z : s3[x] = 0
  <2>1. 0 \in W
    BY DEF Bytes
  <2> HIDE DEF W
  <2> QED
    BY <1>1, <2>1
<1>6. s4 \in Seq(W) /\ Len(s4) = 8 /\ \A x \in 1..8 : s4[x] = ByteAt(8 * h, 8 - x)
  <2>1. \A x \in 1..8 : 8 - x \in Int
    OBVIOUS
  <2>2. \A x \in 1..8 : ByteAt(8 * h, 8 - x) \in W
    BY <2>1
  <2> HIDE DEF W
  <2> QED
    BY <2>2
<1> HIDE DEF W, s1, s2, s3, s4
<1> DEFINE t1 == s1 \o s2
           t2 == t1 \o s3
           p == Padded(h)
<1>7. IsConcat(t1, s1, s2) /\ IsConcat(t2, t1, s3) /\ IsConcat(p, t2, s4)
  BY <1>2 DEF IsConcat
<1> HIDE DEF t1, t2, p
<1>8. /\ Len(p) = h + 9 + z
      /\ \A x \in 1..h : p[x] = s1[x]
      /\ p[h + 1] = s2[1]
      /\ \A x \in (h + 2)..(h + 1 + z) : p[x] = s3[x - (h + 1)]
      /\ \A x \in (h + 2 + z)..(h + 9 + z) : p[x] = s4[x - (h + 1 + z)]
  <2> DEFINE one == 1
             eight == 8
             b == h + 1
             c == h + 1 + z
             d == h + 9 + z
  <2>1. /\ one \in Nat /\ eight \in Nat /\ b \in Nat /\ c \in Nat /\ d \in Nat
        /\ b = h + one /\ c = b + z /\ d = c + eight
    BY <1>1
  <2>2. Len(s2) = one /\ Len(s4) = eight
    BY <1>4, <1>6
  <2>3. s1 \in Seq(W) /\ s2 \in Seq(W) /\ s3 \in Seq(W) /\ s4 \in Seq(W)
    BY <1>3, <1>4, <1>5, <1>6
  <2>4. Len(s1) = h /\ Len(s3) = z
    BY <1>3, <1>5
  <2> HIDE DEF one, eight, b, c, d
  <2>5. /\ Len(p) = d
        /\ \A x \in 1..h : p[x] = s1[x]
        /\ \A x \in (h + 1)..b : p[x] = s2[x - h]
        /\ \A x \in (b + 1)..c : p[x] = s3[x - b]
        /\ \A x \in (c + 1)..d : p[x] = s4[x - c]
    <3>1. /\ t1 \in Seq(W) /\ Len(t1) = h + one
          /\ \A x \in 1..h : t1[x] = s1[x]
          /\ \A x \in (h + 1)..(h + one) : t1[x] = s2[x - h]
      <4>1. /\ s1 \in Seq(W) /\ s2 \in Seq(W) /\ h \in Nat /\ one \in Nat
            /\ Len(s1) = h /\ Len(s2) = one /\ IsConcat(t1, s1, s2)
        BY <1>7, <2>1, <2>2, <2>3, <2>4
      <4>2. t1 \in Seq(W)
        BY <4>1, JoinedType
      <4>3. Len(t1) = h + one
        BY <4>1, JoinedType
      <4>4. ASSUME NEW x \in 1..h
            PROVE  t1[x] = s1[x]
        BY <4>1, JoinedLeft
      <4>5. ASSUME NEW x \in (h + 1)..(h + one)
            PROVE  t1[x] = s2[x - h]
        BY <4>1, JoinedRight
      <4> QED
        BY <4>2, <4>3, <4>4, <4>5
    <3>2. /\ t1 \in Seq(W) /\ Len(t1) = b
          /\ \A x \in 1..h : t1[x] = s1[x]
          /\ \A x \in (h + 1)..b : t1[x] = s2[x - h]
      BY <2>1, <3>1
    <3>3. /\ t2 \in Seq(W) /\ Len(t2) = b + z
          /\ \A x \in 1..b : t2[x] = t1[x]
          /\ \A x \in (b + 1)..(b + z) : t2[x] = s3[x - b]
      <4>1. /\ t1 \in Seq(W) /\ s3 \in Seq(W) /\ b \in Nat /\ z \in Nat
            /\ Len(t1) = b /\ Len(s3) = z /\ IsConcat(t2, t1, s3)
        BY <1>1, <1>7, <2>1, <2>3, <2>4, <3>2
      <4>2. t2 \in Seq(W)
        BY <4>1, JoinedType
      <4>3. Len(t2) = b + z
        BY <4>1, JoinedType
      <4>4. ASSUME NEW x \in 1..b
            PROVE  t2[x] = t1[x]
        BY <4>1, JoinedLeft
      <4>5. ASSUME NEW x \in (b + 1)..(b + z)
            PROVE  t2[x] = s3[x - b]
        BY <4>1, JoinedRight
      <4> QED
        BY <4>2, <4>3, <4>4, <4>5
    <3>4. /\ t2 \in Seq(W) /\ Len(t2) = c
          /\ \A x \in 1..b : t2[x] = t1[x]
          /\ \A x \in (b + 1)..c : t2[x] = s3[x - b]
      BY <2>1, <3>3
    <3>5. /\ p \in Seq(W) /\ Len(p) = c + eight
          /\ \A x \in 1..c : p[x] = t2[x]
          /\ \A x \in (c + 1)..(c + eight) : p[x] = s4[x - c]
      <4>1. /\ t2 \in Seq(W) /\ s4 \in Seq(W) /\ c \in Nat /\ eight \in Nat
            /\ Len(t2) = c /\ Len(s4) = eight /\ IsConcat(p, t2, s4)
        BY <1>7, <2>1, <2>2, <2>3, <3>4
      <4>2. p \in Seq(W)
        BY <4>1, JoinedType
      <4>3. Len(p) = c + eight
        BY <4>1, JoinedType
      <4>4. ASSUME NEW x \in 1..c
            PROVE  p[x] = t2[x]
        BY <4>1, JoinedLeft
      <4>5. ASSUME NEW x \in (c + 1)..(c + eight)
            PROVE  p[x] = s4[x - c]
        BY <4>1, JoinedRight
      <4> QED
        BY <4>2, <4>3, <4>4, <4>5
    <3>6. \A x \in 1..h : x \in 1..b /\ x \in 1..c
      BY <2>1
    <3>7. \A x \in (h + 1)..b : x \in 1..b /\ x \in 1..c
      BY <2>1
    <3>8. \A x \in (b + 1)..c : x \in 1..c
      BY <2>1
    <3> QED
      BY <2>1, <3>2, <3>4, <3>5, <3>6, <3>7, <3>8
  <2>6. b \in (h + 1)..b /\ b - h = 1 /\ b + 1 = h + 2 /\ c + 1 = h + 2 + z
    BY <1>1 DEF b, c
  <2>7. p[b] = s2[1]
    BY <2>5, <2>6
  <2> QED
    BY <2>5, <2>6, <2>7 DEF b, c, d
<1>9. ASSUME NEW x \in 1..(h + 9 + z)
      PROVE  p[x] = IF x <= h THEN Byte(x)
                    ELSE IF x = h + 1 THEN 128
                    ELSE IF x <= h + 1 + z THEN 0
                    ELSE ByteAt(8 * h, 8 - (x - (h + 1 + z)))
  <2>1. CASE x <= h
    <3>1. x \in 1..h
      BY <2>1
    <3> QED
      BY <1>3, <1>8, <2>1, <3>1
  <2>2. CASE x = h + 1
    <3>1. ~(x <= h)
      BY <2>2
    <3> QED
      BY <1>4, <1>8, <2>2, <3>1
  <2>3. CASE x > h + 1 /\ x <= h + 1 + z
    <3>1. x \in (h + 2)..(h + 1 + z) /\ x - (h + 1) \in 1..z /\ ~(x <= h) /\ x # h + 1
      BY <1>1, <2>3
    <3> QED
      BY <1>5, <1>8, <2>3, <3>1
  <2>4. CASE x > h + 1 + z
    <3>1. /\ x \in (h + 2 + z)..(h + 9 + z) /\ x - (h + 1 + z) \in 1..8
          /\ ~(x <= h) /\ x # h + 1 /\ ~(x <= h + 1 + z)
      BY <1>1, <2>4
    <3> QED
      BY <1>6, <1>8, <3>1
  <2> QED
    BY <1>1, <2>1, <2>2, <2>3, <2>4
<1> QED
  BY <1>8, <1>9 DEF p


(* The blocks of the message, with one or two more. *)
LEMMA AddedBlock ==
    ASSUME NEW F, NEW st \in Seq(F), NEW last \in F, NEW n \in Nat, Len(st) = n
    PROVE  /\ Append(st, last) \in Seq(F)
           /\ Append(st, last) = [k \in 1..(n + 1) |-> IF k <= n THEN st[k] ELSE last]
<1> DEFINE a == Append(st, last)
<1>1. /\ a \in Seq(F) /\ Len(a) = n + 1
      /\ \A k \in 1..n : a[k] = st[k]
      /\ a[n + 1] = last
  BY AppendProperties
<1> HIDE DEF a
<1>2. ASSUME NEW k \in 1..(n + 1)
      PROVE  a[k] = IF k <= n THEN st[k] ELSE last
  <2>1. CASE k <= n
    <3>1. k \in 1..n
      BY <2>1
    <3> QED
      BY <1>1, <2>1, <3>1
  <2>2. CASE ~(k <= n)
    <3>1. k = n + 1
      BY <2>2
    <3> QED
      BY <1>1, <2>2, <3>1
  <2> QED
    BY <2>1, <2>2
<1>3. a = [k \in 1..(n + 1) |-> IF k <= n THEN st[k] ELSE last]
  BY <1>1, <1>2
<1> QED
  BY <1>1, <1>3 DEF a

(* The buffers that digest() gives to transform(), by position. *)
FullAt(n, r, i) ==
    IF i < r THEN Byte(64 * n + i + 1) ELSE IF i = r THEN 128 ELSE 0
LastAt(n, r, i) ==
    IF i >= 56 THEN ByteAt(8 * (64 * n + r), 63 - i)
    ELSE IF r <= 55 THEN FullAt(n, r, i) ELSE 0

Full(n, r) == [i \in 0..63 |-> FullAt(n, r, i)]
Last(n, r) == [i \in 0..63 |-> LastAt(n, r, i)]

(* All the blocks. *)
Given(n, r) ==
    IF r <= 55
    THEN [k \in 1..(n + 1) |-> IF k <= n THEN Block(k) ELSE Last(n, r)]
    ELSE [k \in 1..(n + 2) |-> IF k <= n THEN Block(k)
                               ELSE IF k = n + 1 THEN Full(n, r) ELSE Last(n, r)]

LEMMA PaddedBlocks ==
    ASSUME NEW n \in Nat, NEW r \in 0..63, NEW h \in Nat, h = 64 * n + r
    PROVE  Blocks(Padded(h)) = Given(n, r)
<1> DEFINE z == Zeros(r)
           P == Padded(h)
           N == IF r <= 55 THEN n + 1 ELSE n + 2
           B(k) == [i \in 0..63 |-> P[64 * (k - 1) + i + 1]]
           C == [k \in 1..N |-> B(k)]
<1>1. Chosen(h) = z /\ z \in Nat
  <2>1. Chosen(h) = z /\ z \in 0..63
    BY ZerosChosen
  <2> HIDE DEF z
  <2> QED
    BY <2>1
<1>2. z = IF r <= 55 THEN 55 - r ELSE 119 - r
  BY DEF Zeros
<1> HIDE DEF z
<1>3. /\ Len(P) = h + 9 + z
      /\ \A x \in 1..(h + 9 + z) :
           P[x] = IF x <= h THEN Byte(x)
                  ELSE IF x = h + 1 THEN 128
                  ELSE IF x <= h + 1 + z THEN 0
                  ELSE ByteAt(8 * h, 8 - (x - (h + 1 + z)))
  BY <1>1, PaddedBytes
<1>4. h + 9 + z = 64 * N /\ N \in Nat
  BY <1>2
<1>5. Blocks(P) = [k \in 1..(Len(P) \div 64) |-> [i \in 0..63 |-> P[64 * (k - 1) + i + 1]]]
  BY DEF Blocks
<1> HIDE DEF P
<1>6. Len(P) \div 64 = N
  <2>1. \A a \in Nat : (64 * a) \div 64 = a
    OBVIOUS
  <2> QED
    BY <1>3, <1>4, <2>1
<1>7. Blocks(P) = C
  BY <1>5, <1>6
<1>8. ASSUME NEW k \in 1..n
      PROVE  B(k) = Block(k)
  <2>1. ASSUME NEW i \in 0..63
        PROVE  P[64 * (k - 1) + i + 1] = Byte(64 * (k - 1) + i + 1)
    <3> DEFINE x == 64 * (k - 1) + i + 1
    <3>1. x \in 1..(h + 9 + z) /\ x <= h
      BY <1>1
    <3> HIDE DEF x
    <3>2. P[x] = Byte(x)
      BY <1>3, <3>1
    <3> QED
      BY <3>2 DEF x
  <2> QED
    BY <2>1 DEF Block
<1>9. ASSUME NEW i \in 0..63, r <= 55
      PROVE  P[64 * ((n + 1) - 1) + i + 1] = LastAt(n, r, i)
  <2> DEFINE x == 64 * ((n + 1) - 1) + i + 1
  <2>1. /\ x \in 1..(h + 9 + z) /\ x = 64 * n + i + 1
        /\ (x <= h <=> i < r) /\ (x = h + 1 <=> i = r)
        /\ (x <= h + 1 + z <=> i < 56)
        /\ 8 - (x - (h + 1 + z)) = 63 - i
    BY <1>1, <1>2, <1>9
  <2> HIDE DEF x
  <2>2. P[x] = IF i < r THEN Byte(64 * n + i + 1) ELSE IF i = r THEN 128
               ELSE IF i < 56 THEN 0 ELSE ByteAt(8 * h, 63 - i)
    BY <1>3, <2>1
  <2>3. i >= 56 => ~(i < r) /\ i # r /\ ~(i < 56)
    BY <1>9
  <2>4. P[x] = LastAt(n, r, i)
    BY <1>9, <2>2, <2>3 DEF LastAt, FullAt
  <2> QED
    BY <2>4 DEF x
<1>10. ASSUME NEW i \in 0..63, ~(r <= 55)
       PROVE  P[64 * ((n + 1) - 1) + i + 1] = FullAt(n, r, i)
  <2> DEFINE x == 64 * ((n + 1) - 1) + i + 1
  <2>1. /\ x \in 1..(h + 9 + z) /\ x = 64 * n + i + 1
        /\ (x <= h <=> i < r) /\ (x = h + 1 <=> i = r)
        /\ x <= h + 1 + z
    BY <1>1, <1>2, <1>10
  <2> HIDE DEF x
  <2>2. P[x] = IF i < r THEN Byte(64 * n + i + 1) ELSE IF i = r THEN 128 ELSE 0
    BY <1>3, <2>1
  <2> QED
    BY <2>2 DEF x, FullAt
<1>11. ASSUME NEW i \in 0..63, ~(r <= 55)
       PROVE  P[64 * ((n + 2) - 1) + i + 1] = LastAt(n, r, i)
  <2> DEFINE x == 64 * ((n + 2) - 1) + i + 1
  <2>1. /\ x \in 1..(h + 9 + z)
        /\ ~(x <= h) /\ x # h + 1
        /\ (x <= h + 1 + z <=> i < 56)
        /\ 8 - (x - (h + 1 + z)) = 63 - i
    BY <1>1, <1>2, <1>11
  <2> HIDE DEF x
  <2>2. P[x] = IF i < 56 THEN 0 ELSE ByteAt(8 * h, 63 - i)
    BY <1>3, <2>1
  <2>3. P[x] = LastAt(n, r, i)
    BY <1>11, <2>2 DEF LastAt
  <2> QED
    BY <2>3 DEF x
<1>12. CASE r <= 55
  <2>1. B(n + 1) = Last(n, r)
    BY <1>9, <1>12 DEF Last
  <2>2. \A k \in 1..(n + 1) : k \in 1..n \/ (k = n + 1 /\ ~(k <= n))
    OBVIOUS
  <2>3. C = [k \in 1..(n + 1) |-> IF k <= n THEN Block(k) ELSE Last(n, r)]
    <3> HIDE DEF B
    <3>1. \A k \in 1..(n + 1) : B(k) = IF k <= n THEN Block(k) ELSE Last(n, r)
      BY <1>8, <2>1, <2>2
    <3> QED
      BY <1>12, <3>1
  <2> QED
    BY <1>7, <1>12, <2>3 DEF Given, P
<1>13. CASE ~(r <= 55)
  <2>1. B(n + 1) = Full(n, r)
    BY <1>10, <1>13 DEF Full
  <2>2. B(n + 2) = Last(n, r)
    BY <1>11, <1>13 DEF Last
  <2>3. \A k \in 1..(n + 2) : \/ k \in 1..n
                              \/ k = n + 1 /\ ~(k <= n)
                              \/ k = n + 2 /\ ~(k <= n) /\ k # n + 1
    OBVIOUS
  <2>4. C = [k \in 1..(n + 2) |-> IF k <= n THEN Block(k)
                                  ELSE IF k = n + 1 THEN Full(n, r) ELSE Last(n, r)]
    <3> HIDE DEF B
    <3>1. \A k \in 1..(n + 2) : B(k) = IF k <= n THEN Block(k)
                                       ELSE IF k = n + 1 THEN Full(n, r) ELSE Last(n, r)
      BY <1>8, <2>1, <2>2, <2>3
    <3> QED
      BY <1>13, <3>1
  <2> QED
    BY <1>7, <1>13, <2>4 DEF Given, P
<1> QED
  BY <1>12, <1>13


(* What digest() gives to transform(). *)
LEMMA DigestBlocks ==
    ASSUME NEW n \in Nat, NEW r \in 0..63, NEW h \in Nat, h = 64 * n + r,
           Context \in Contexts, Splits(Context, h, n, r)
    PROVE  digest = Given(n, r)
<1>1. /\ m_state = [k \in 1..n |-> Block(k)]
      /\ m_bufLen = r /\ m_bitLen = 512 * n
      /\ \A i \in 0..63 : i < r => m_buffer[i] = Byte(64 * n + i + 1)
  BY DEF Splits, Context
<1>2. m_buffer \in Buffers
  <2>1. Context.buffer \in Buffers
    BY DEF Contexts
  <2> QED
    BY <2>1 DEF Context
<1> DEFINE total == m_bitLen + m_bufLen * 8
           marked == [m_buffer EXCEPT ![m_bufLen] = 128]
           zeroed(buffer, from, to) ==
             [i \in 0..63 |-> IF i \in from..(to - 1) THEN 0 ELSE buffer[i]]
           full == zeroed(marked, m_bufLen + 1, 64)
           spills == Overflows(m_bufLen + 1)
           rest == IF spills THEN zeroed(full, 0, 56) ELSE zeroed(marked, m_bufLen + 1, 56)
           last == [i \in 0..63 |-> IF i < 56 THEN rest[i] ELSE ByteAt(total, 63 - i)]
<1>3. digest = m_state \o (IF spills THEN <<full>> ELSE <<>>) \o <<last>>
  BY DEF digest
<1>4. total = 8 * (64 * n + r)
  BY <1>1
<1>5. spills <=> ~(r <= 55)
  BY <1>1 DEF Overflows
<1>6. ASSUME NEW i \in 0..63
      PROVE  marked[i] = IF i = r THEN 128 ELSE m_buffer[i]
  BY <1>1, <1>2 DEF Buffers
<1> HIDE DEF marked
<1>7. ASSUME NEW i \in 0..63
      PROVE  full[i] = FullAt(n, r, i)
  <2>1. full[i] = IF i \in (r + 1)..(64 - 1) THEN 0 ELSE marked[i]
    BY <1>1
  <2>2. i \in (r + 1)..(64 - 1) <=> ~(i < r) /\ i # r
    OBVIOUS
  <2>3. i < r => i # r
    OBVIOUS
  <2> HIDE DEF full
  <2> QED
    BY <1>1, <1>6, <2>1, <2>2, <2>3 DEF FullAt
<1>8. full = Full(n, r)
  BY <1>7 DEF Full
<1>9. ASSUME NEW i \in 0..63, i < 56
      PROVE  rest[i] = IF r <= 55 THEN FullAt(n, r, i) ELSE 0
  <2>1. CASE r <= 55
    <3>1. rest[i] = IF i \in (r + 1)..(56 - 1) THEN 0 ELSE marked[i]
      BY <1>1, <1>5, <2>1
    <3>2. i \in (r + 1)..(56 - 1) <=> ~(i < r) /\ i # r
      BY <1>9
    <3>3. i < r => i # r
      OBVIOUS
    <3> HIDE DEF rest
    <3> QED
      BY <1>1, <1>6, <2>1, <3>1, <3>2, <3>3 DEF FullAt
  <2>2. CASE ~(r <= 55)
    <3> HIDE DEF full
    <3>1. rest[i] = IF i \in 0..(56 - 1) THEN 0 ELSE full[i]
      BY <1>5, <2>2
    <3>2. i \in 0..(56 - 1)
      BY <1>9
    <3> QED
      BY <2>2, <3>1, <3>2
  <2> QED
    BY <2>1, <2>2
<1> HIDE DEF rest, total, full, spills
<1>10. ASSUME NEW i \in 0..63
       PROVE  last[i] = LastAt(n, r, i)
  <2>1. last[i] = IF i < 56 THEN rest[i] ELSE ByteAt(total, 63 - i)
    OBVIOUS
  <2>2. ~(i < 56) <=> i >= 56
    OBVIOUS
  <2> HIDE DEF last
  <2> QED
    BY <1>4, <1>9, <2>1, <2>2 DEF LastAt
<1>11. last = Last(n, r)
  <2>1. last = [i \in 0..63 |-> last[i]]
    OBVIOUS
  <2> HIDE DEF last
  <2> QED
    BY <1>10, <2>1 DEF Last
<1> HIDE DEF last
<1> DEFINE F == {Block(k) : k \in Nat} \cup {full, last}
           st == m_state
<1>12. st \in Seq(F) /\ Len(st) = n /\ (\A k \in 1..n : st[k] = Block(k)) /\ full \in F /\ last \in F
  <2>1. full \in F /\ last \in F /\ \A k \in 1..n : Block(k) \in F
    OBVIOUS
  <2> HIDE DEF F
  <2>2. st = [k \in 1..n |-> Block(k)]
    BY <1>1
  <2> HIDE DEF st
  <2>3. st \in [1..n -> F]
    BY <2>1, <2>2
  <2>4. st \in Seq(F) /\ Len(st) = n
    BY <2>2, <2>3
  <2> QED
    BY <2>1, <2>2, <2>4
<1>13. digest = st \o (IF spills THEN <<full>> ELSE <<>>) \o <<last>>
  BY <1>3
<1> HIDE DEF F, st
<1>14. CASE r <= 55
  <2>1. digest = (st \o <<>>) \o <<last>>
    BY <1>5, <1>13, <1>14
  <2>2. st \o <<>> = st
    BY <1>12, ConcatEmptySeq
  <2>3. digest = Append(st, last)
    BY <1>12, <2>1, <2>2, AppendIsConcat
  <2>4. Append(st, last) = [k \in 1..(n + 1) |-> IF k <= n THEN st[k] ELSE last]
    BY <1>12, AddedBlock
  <2>5. \A k \in 1..(n + 1) : k <= n => st[k] = Block(k)
    BY <1>12
  <2>6. Append(st, last) = [k \in 1..(n + 1) |-> IF k <= n THEN Block(k) ELSE Last(n, r)]
    BY <1>11, <2>4, <2>5
  <2> QED
    BY <1>14, <2>3, <2>6 DEF Given
<1>15. CASE ~(r <= 55)
  <2> DEFINE s2 == Append(st, full)
  <2>1. digest = (st \o <<full>>) \o <<last>>
    BY <1>5, <1>13, <1>15
  <2>2. s2 = st \o <<full>>
    BY <1>12, AppendIsConcat
  <2>3. s2 \in Seq(F) /\ s2 = [k \in 1..(n + 1) |-> IF k <= n THEN st[k] ELSE full]
    BY <1>12, AddedBlock
  <2> HIDE DEF s2
  <2>4. Len(s2) = n + 1
    BY <2>3
  <2>5. digest = Append(s2, last)
    BY <1>12, <2>1, <2>2, <2>3, AppendIsConcat
  <2>6. Append(s2, last) = [k \in 1..((n + 1) + 1) |-> IF k <= n + 1 THEN s2[k] ELSE last]
    <3> DEFINE l == n + 1
    <3>1. l \in Nat /\ Len(s2) = l
      BY <2>4
    <3> HIDE DEF l
    <3>2. Append(s2, last) = [k \in 1..(l + 1) |-> IF k <= l THEN s2[k] ELSE last]
      BY <1>12, <2>3, <3>1, AddedBlock
    <3> QED
      BY <3>2 DEF l
  <2>7. (n + 1) + 1 = n + 2
    OBVIOUS
  <2>8. ASSUME NEW k \in 1..(n + 2)
        PROVE  (IF k <= n + 1 THEN s2[k] ELSE last)
                 = IF k <= n THEN Block(k) ELSE IF k = n + 1 THEN Full(n, r) ELSE Last(n, r)
    <3>1. CASE k <= n
      <4>1. k <= n + 1 /\ k \in 1..n /\ k \in 1..(n + 1)
        BY <3>1
      <4> QED
        BY <1>12, <2>3, <3>1, <4>1
    <3>2. CASE k = n + 1
      <4>1. k <= n + 1 /\ ~(k <= n) /\ k \in 1..(n + 1)
        BY <3>2
      <4> QED
        BY <1>8, <2>3, <3>2, <4>1
    <3>3. CASE k > n + 1
      <4>1. ~(k <= n + 1) /\ ~(k <= n) /\ k # n + 1
        BY <3>3
      <4> QED
        BY <1>11, <4>1
    <3> QED
      BY <3>1, <3>2, <3>3
  <2>9. Append(s2, last) = [k \in 1..(n + 2) |->
          IF k <= n THEN Block(k) ELSE IF k = n + 1 THEN Full(n, r) ELSE Last(n, r)]
    BY <2>6, <2>7, <2>8
  <2> QED
    BY <1>15, <2>5, <2>9 DEF Given
<1> QED
  BY <1>14, <1>15

(* For every message, however it is cut into update() calls and wherever   *)
(* its end lies in a block, SHA256::digest() has given transform() the     *)
(* blocks of the message padded as FIPS 180-4 says.                        *)
THEOREM PaddingSafe ==
    SHASpec => []PaddingIsStandard
<1>1. SHAInit => SHAInv
  BY SHAInvInit
<1>2. SHAInv /\ [SHANext]_shaVars => SHAInv'
  BY SHAInvStep
<1>3. SHAInv => PaddingIsStandard
  <2> SUFFICES ASSUME SHAInv
               PROVE  PaddingIsStandard
    OBVIOUS
  <2>1. hashed \in Nat /\ Context \in Contexts /\ Taken(Context, hashed)
    BY DEF SHAInv
  <2>2. PICK n \in Nat, r \in 0..63 : Splits(Context, hashed, n, r)
    BY <2>1 DEF Taken
  <2>3. hashed = 64 * n + r
    BY <2>2 DEF Splits
  <2>4. digest = Given(n, r)
    BY <2>1, <2>2, <2>3, DigestBlocks
  <2>5. Blocks(Padded(hashed)) = Given(n, r)
    BY <2>1, <2>3, PaddedBlocks
  <2> QED
    BY <2>4, <2>5 DEF PaddingIsStandard
<1> QED
  BY <1>1, <1>2, <1>3, PTL DEF SHASpec
=============================================================================
