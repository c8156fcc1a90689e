------------------------ MODULE StorageEngine_proofs ------------------------
(***************************************************************************)
(* Proofs about the engine over its log and its snapshot, for every set of *)
(* keys, values and durations, every history cap and every syncEveryN: the *)
(* types, what recovery rebuilds, and that neither the end of the process  *)
(* nor of the power takes back what was promised.                          *)
(***************************************************************************)
EXTENDS StorageEngine, WAL_proofs, Histories_proofs

-----------------------------------------------------------------------------
(* Logs and images from which recover() can rebuild the contents. *)

(* What the engine logs: a PUT carries a record. *)
LogFile(f) ==
    f \in Seq(Cell) /\ \A i \in 1..Len(f) : f[i].kind = "entry" => Loggable(f[i].body)

(* What load() returns. *)
Image(snap) == snap.epoch \in Nat \cup {-1} /\ snap.state \in Contents

(* One turn of the recovery. *)
Turn(snap, data, cell) ==
    IF cell.kind = "entry" /\ cell.body.epoch > snap.epoch THEN Replay(data, cell.body) ELSE data

(* A turn on a cell of a log gives contents. *)
LEMMA TurnType ==
    ASSUME NEW snap, NEW f, LogFile(f), NEW i \in 1..Len(f), NEW data \in Contents
    PROVE  Turn(snap, data, f[i]) \in Contents
<1>1. CASE f[i].kind = "entry"
  BY <1>1, ReplayFacts DEF LogFile, Turn
<1>2. CASE f[i].kind # "entry"
  BY <1>2 DEF Turn
<1> QED
  BY <1>1, <1>2

(* The recovery starts with the image and takes one turn for each cell. *)
LEMMA RecoveringFacts ==
    ASSUME NEW snap, Image(snap), NEW f, LogFile(f)
    PROVE  /\ Len(f) \in Nat
           /\ Recovering(snap, f) \in [0..Len(f) -> Contents]
           /\ Recovering(snap, f)[0] = snap.state
           /\ \A i \in 1..Len(f) :
                Recovering(snap, f)[i] = Turn(snap, Recovering(snap, f)[i - 1], f[i])
<1> DEFINE n == Len(f)
           g == [i \in (0 + 1)..n |-> [d \in Contents |-> Turn(snap, d, f[i])]]
<1>1. n \in Nat /\ 0 <= n /\ snap.state \in Contents
  BY LenProperties DEF LogFile, Image
<1>2. g \in Turns(Contents, 0, n)
  <2>1. ASSUME NEW i \in (0 + 1)..n, NEW d \in Contents
        PROVE  Turn(snap, d, f[i]) \in Contents
    <3>1. i \in 1..Len(f)
      BY <1>1
    <3> QED
      BY <3>1, TurnType
  <2> QED
    BY <2>1 DEF Turns
<1> HIDE DEF g, n
<1>3. Runs(Contents, snap.state, 0, n, g) # {}
  BY <1>1, <1>2, IterationExists
<1>4. PICK h \in [0..n -> Contents] :
        h[0] = snap.state /\ \A i \in (0 + 1)..n : h[i] = g[i][h[i - 1]]
  BY <1>3 DEF Runs
<1>5. ASSUME NEW i \in 1..n
      PROVE  h[i - 1] \in Contents /\ h[i] = Turn(snap, h[i - 1], f[i])
  <2>1. i - 1 \in 0..n /\ i \in (0 + 1)..n
    BY <1>1
  <2>2. h[i - 1] \in Contents /\ h[i] = g[i][h[i - 1]]
    BY <1>4, <2>1
  <2>3. g[i] = [d \in Contents |-> Turn(snap, d, f[i])]
    BY <2>1 DEF g
  <2> QED
    BY <2>2, <2>3
<1>6. h = [i \in 0..n |-> IF i = 0 THEN snap.state ELSE Turn(snap, h[i - 1], f[i])]
  BY <1>1, <1>4, <1>5
<1> DEFINE r == Recovering(snap, f)
<1>7. r = [i \in 0..n |-> IF i = 0 THEN snap.state ELSE Turn(snap, r[i - 1], f[i])]
  BY <1>6 DEF Recovering, Turn, n
<1> HIDE DEF r
<1>8. \A i \in 0..n : r[i] = IF i = 0 THEN snap.state ELSE Turn(snap, r[i - 1], f[i])
  BY <1>7
<1> DEFINE P == {i \in 0..n : r[i] = h[i]}
<1>9. 0 \in P
  BY <1>1, <1>4, <1>8
<1>10. ASSUME NEW i \in 0..n, i \in P, i < n
       PROVE  i + 1 \in P
  <2>1. /\ i + 1 \in 1..n /\ i + 1 \in 0..n /\ i + 1 # 0 /\ (i + 1) - 1 = i
        /\ r[i] = h[i]
    BY <1>1, <1>10
  <2>2. r[i + 1] = Turn(snap, r[i], f[i + 1]) /\ h[i + 1] = Turn(snap, h[i], f[i + 1])
    BY <1>5, <1>8, <2>1
  <2> QED
    BY <2>1, <2>2
<1> HIDE DEF P
<1>11. 0..n \subseteq P
  BY <1>1, <1>9, <1>10, IntervalInduction
<1>12. r = h
  <2>1. \A i \in 0..n : r[i] = h[i]
    BY <1>11 DEF P
  <2> QED
    BY <1>4, <1>7, <2>1
<1> QED
  BY <1>1, <1>4, <1>5, <1>12 DEF r, n

(* It depends on the cells before it only. *)
LEMMA RecoveringPrefix ==
    ASSUME NEW snap, Image(snap), NEW f, LogFile(f), NEW g, LogFile(g),
           NEW n \in Nat, n <= Len(f), n <= Len(g), \A i \in 1..n : f[i] = g[i]
    PROVE  Recovering(snap, f)[n] = Recovering(snap, g)[n]
<1> DEFINE r == Recovering(snap, f)
           q == Recovering(snap, g)
<1>1. /\ Len(f) \in Nat /\ r[0] = snap.state
      /\ \A i \in 1..Len(f) : r[i] = Turn(snap, r[i - 1], f[i])
  BY RecoveringFacts
<1>2. /\ Len(g) \in Nat /\ q[0] = snap.state
      /\ \A i \in 1..Len(g) : q[i] = Turn(snap, q[i - 1], g[i])
  BY RecoveringFacts
<1> HIDE DEF r, q
<1> DEFINE P == {i \in 0..n : r[i] = q[i]}
<1>3. 0 \in P
  BY <1>1, <1>2
<1>4. ASSUME NEW i \in 0..n, i \in P, i < n
      PROVE  i + 1 \in P
  <2>1. /\ i + 1 \in 1..n /\ i + 1 \in 1..Len(f) /\ i + 1 \in 1..Len(g) /\ i + 1 \in 0..n
        /\ (i + 1) - 1 = i /\ r[i] = q[i]
    BY <1>1, <1>2, <1>4
  <2>2. r[i + 1] = Turn(snap, r[i], f[i + 1]) /\ q[i + 1] = Turn(snap, q[i], g[i + 1])
    BY <1>1, <1>2, <2>1
  <2> QED
    BY <2>1, <2>2
<1> HIDE DEF P
<1>5. 0..n \subseteq P
  BY <1>3, <1>4, IntervalInduction
<1> QED
  BY <1>5 DEF P, r, q

(* Recovery gives contents; from an empty log those of the image. *)
LEMMA RecoverableType ==
    ASSUME NEW snap, Image(snap), NEW f, LogFile(f)
    PROVE  Recoverable(snap, f) \in Contents
<1>1. Len(f) \in Nat /\ Recovering(snap, f) \in [0..Len(f) -> Contents]
  BY RecoveringFacts
<1> QED
  BY <1>1 DEF Recoverable

(* A prefix of a log is a log, and recovery stops where it ends. *)
LEMMA RecoverablePrefix ==
    ASSUME NEW snap, Image(snap), NEW f, LogFile(f), NEW i \in 0..Len(f)
    PROVE  /\ LogFile(SubSeq(f, 1, i))
           /\ Recoverable(snap, SubSeq(f, 1, i)) = Recovering(snap, f)[i]
<1> DEFINE g == SubSeq(f, 1, i)
<1>1. g \in Seq(Cell) /\ Len(g) = i /\ (\A j \in 1..i : g[j] = f[j]) /\ Len(f) \in Nat
  BY PrefixFacts, LenProperties DEF LogFile
<1> HIDE DEF g
<1>2. LogFile(g)
  BY <1>1 DEF LogFile
<1>3. Recovering(snap, g)[i] = Recovering(snap, f)[i]
  BY <1>1, <1>2, RecoveringPrefix
<1> QED
  BY <1>1, <1>2, <1>3 DEF Recoverable, g

(* A cell behind the log adds its turn. *)
LEMMA RecoverableAppend ==
    ASSUME NEW snap, Image(snap), NEW f, LogFile(f),
           NEW c \in Cell, c.kind = "entry" => Loggable(c.body)
    PROVE  /\ LogFile(Append(f, c))
           /\ Recoverable(snap, Append(f, c)) = Turn(snap, Recoverable(snap, f), c)
<1> DEFINE g == Append(f, c)
           n == Len(f)
<1>1. /\ n \in Nat /\ g \in Seq(Cell) /\ Len(g) = n + 1 /\ g[n + 1] = c
      /\ \A j \in 1..n : g[j] = f[j]
  BY AppendProperties, LenProperties DEF LogFile
<1> HIDE DEF g, n
<1>2. LogFile(g)
  BY <1>1 DEF LogFile, n
<1>3. Recovering(snap, g)[n] = Recovering(snap, f)[n]
  BY <1>1, <1>2, RecoveringPrefix DEF n
<1>4. n + 1 \in 1..Len(g) /\ (n + 1) - 1 = n
  BY <1>1
<1>5. Recovering(snap, g)[n + 1] = Turn(snap, Recovering(snap, g)[n], g[n + 1])
  BY <1>2, <1>4, RecoveringFacts
<1> QED
  BY <1>1, <1>2, <1>3, <1>5 DEF Recoverable, g, n

(* A header or a torn cell behind the log changes nothing. *)
LEMMA RecoverableBlank ==
    ASSUME NEW snap, Image(snap), NEW f, LogFile(f), NEW c \in {Header, Part}
    PROVE  LogFile(Append(f, c)) /\ Recoverable(snap, Append(f, c)) = Recoverable(snap, f)
<1>1. c \in Cell /\ c.kind # "entry"
  BY CellFacts
<1> QED
  BY <1>1, RecoverableAppend DEF Turn

(* A log without entries after the image's epoch gives back the image. *)
LEMMA RecoverableFenced ==
    ASSUME NEW snap, Image(snap), NEW f, LogFile(f),
           \A i \in 1..Len(f) : f[i].kind = "entry" => f[i].body.epoch <= snap.epoch
    PROVE  Recoverable(snap, f) = snap.state
<1> DEFINE r == Recovering(snap, f)
           n == Len(f)
<1>1. /\ n \in Nat /\ r[0] = snap.state
      /\ \A i \in 1..n : r[i] = Turn(snap, r[i - 1], f[i])
  BY RecoveringFacts
<1>2. ASSUME NEW i \in 1..n
      PROVE  ~(f[i].kind = "entry" /\ f[i].body.epoch > snap.epoch)
  <2>1. f[i] \in Cell
    BY ElementOfSeq DEF LogFile
  <2>2. f[i].kind = "entry" => f[i].body.epoch \in Nat
    BY <2>1, CellFacts DEF Body
  <2> QED
    BY <2>2 DEF Image
<1> HIDE DEF r
<1> DEFINE P == {i \in 0..n : r[i] = snap.state}
<1>3. 0 \in P
  BY <1>1
<1>4. ASSUME NEW i \in 0..n, i \in P, i < n
      PROVE  i + 1 \in P
  <2>1. i + 1 \in 1..n /\ i + 1 \in 0..n /\ (i + 1) - 1 = i /\ r[i] = snap.state
    BY <1>1, <1>4
  <2>2. r[i + 1] = Turn(snap, r[i], f[i + 1])
    BY <1>1, <2>1
  <2>3. ~(f[i + 1].kind = "entry" /\ f[i + 1].body.epoch > snap.epoch)
    BY <1>2, <2>1
  <2> QED
    BY <2>1, <2>2, <2>3 DEF Turn
<1> HIDE DEF P
<1>5. 0..n \subseteq P
  BY <1>1, <1>3, <1>4, IntervalInduction
<1>6. n \in 0..n
  BY <1>1
<1> QED
  BY <1>5, <1>6 DEF P, r, Recoverable, n

-----------------------------------------------------------------------------
(* What a power loss may leave, and how the file's calls change it. *)

(* A torn file is a prefix with or without a part of the next cell. *)
LEMMA PrefixesCases ==
    ASSUME NEW f \in Seq(Cell), NEW n \in 0..Len(f), NEW g \in Prefixes(f, n)
    PROVE  \E i \in n..Len(f) : g = SubSeq(f, 1, i) \/ g = Append(SubSeq(f, 1, i), Part)
<1>1. Len(f) \in Nat
  BY LenProperties
<1>2. \A i \in n..(Len(f) - 1) : i \in n..Len(f)
  BY <1>1
<1>3. \/ \E i \in n..Len(f) : g = SubSeq(f, 1, i)
      \/ \E i \in n..(Len(f) - 1) : g = Append(SubSeq(f, 1, i), Part)
  BY Zenon DEF Prefixes
<1> QED
  BY <1>2, <1>3, Zenon

(* Recovery from it stops in the part that may be lost. *)
LEMMA PrefixRecovers ==
    ASSUME NEW snap, Image(snap), NEW f, LogFile(f), NEW n \in 0..Len(f),
           NEW g \in Prefixes(f, n)
    PROVE  /\ LogFile(g)
           /\ \E i \in n..Len(f) : Recoverable(snap, g) = Recovering(snap, f)[i]
<1>1. f \in Seq(Cell) /\ Len(f) \in Nat
  BY LenProperties DEF LogFile
<1>2. PICK i \in n..Len(f) : g = SubSeq(f, 1, i) \/ g = Append(SubSeq(f, 1, i), Part)
  BY <1>1, PrefixesCases
<1>3. i \in 0..Len(f)
  BY <1>1
<1> DEFINE p == SubSeq(f, 1, i)
<1>4. LogFile(p) /\ Recoverable(snap, p) = Recovering(snap, f)[i]
  BY <1>3, RecoverablePrefix
<1> HIDE DEF p
<1>5. LogFile(Append(p, Part)) /\ Recoverable(snap, Append(p, Part)) = Recoverable(snap, p)
  BY <1>4, RecoverableBlank
<1> QED
  BY <1>2, <1>4, <1>5 DEF p

(* Entries of a file with one more cell, of a prefix and of a torn file. *)
LEMMA EntriesAppend ==
    ASSUME NEW f \in Seq(Cell), NEW c \in Cell
    PROVE  /\ Entries(Append(f, c)) \subseteq Entries(f) \cup {c}
           /\ c.kind # "entry" => Entries(Append(f, c)) \subseteq Entries(f)
<1>1. /\ Len(f) \in Nat /\ Len(Append(f, c)) = Len(f) + 1
      /\ Append(f, c)[Len(f) + 1] = c
      /\ \A i \in 1..Len(f) : Append(f, c)[i] = f[i]
  BY AppendProperties, LenProperties
<1>2. ASSUME NEW i \in 1..Len(Append(f, c))
      PROVE  \/ i \in 1..Len(f) /\ Append(f, c)[i] = f[i]
             \/ Append(f, c)[i] = c
  BY <1>1
<1> QED
  BY <1>2 DEF Entries

(* See above. *)
LEMMA EntriesPrefix ==
    ASSUME NEW f \in Seq(Cell), NEW i \in 0..Len(f)
    PROVE  Entries(SubSeq(f, 1, i)) \subseteq Entries(f)
<1>1. /\ Len(f) \in Nat /\ Len(SubSeq(f, 1, i)) = i
      /\ \A j \in 1..i : SubSeq(f, 1, i)[j] = f[j]
  BY PrefixFacts, LenProperties
<1> QED
  BY <1>1 DEF Entries

(* See above. *)
LEMMA EntriesTorn ==
    ASSUME NEW f \in Seq(Cell), NEW n \in 0..Len(f), NEW g \in Prefixes(f, n)
    PROVE  Entries(g) \subseteq Entries(f)
<1>1. PICK i \in n..Len(f) : g = SubSeq(f, 1, i) \/ g = Append(SubSeq(f, 1, i), Part)
  BY PrefixesCases
<1>2. i \in 0..Len(f)
  BY LenProperties
<1> DEFINE p == SubSeq(f, 1, i)
<1>3. p \in Seq(Cell) /\ Entries(p) \subseteq Entries(f)
  BY <1>2, PrefixFacts, EntriesPrefix
<1> HIDE DEF p
<1>4. Entries(Append(p, Part)) \subseteq Entries(p)
  BY <1>3, CellFacts, EntriesAppend
<1> QED
  BY <1>1, <1>3, <1>4 DEF p

(* A power loss leaves no entry that was not in a file before. *)
LEMMA SurvivorEntries ==
    ASSUME DiskTypeOK, NEW f \in Survivors
    PROVE  f \in Seq(Cell) /\ Entries(f) \subseteq OnDisk
<1>1. CASE f \in walOld
  BY <1>1 DEF OnDisk, DiskTypeOK
<1>2. CASE f \in Prefixes(walFile, walFloor)
  <2>1. f \in Seq(Cell) /\ Entries(f) \subseteq Entries(walFile)
    BY <1>2, EntriesTorn, PrefixesType DEF DiskTypeOK
  <2> QED
    BY <2>1 DEF OnDisk
<1> QED
  BY <1>1, <1>2 DEF Survivors

(* The entries on the disk after a write(), *)
LEMMA AppendOnDisk ==
    ASSUME DiskTypeOK, NEW c \in Cell, FileAppend(c)
    PROVE  /\ OnDisk' \subseteq OnDisk \cup {c}
           /\ c.kind # "entry" => OnDisk' \subseteq OnDisk
<1>1. walFile' = Append(walFile, c) /\ walOld' = walOld /\ walFile \in Seq(Cell)
  BY DEF FileAppend, DiskTypeOK
<1>2. /\ Entries(walFile') \subseteq Entries(walFile) \cup {c}
      /\ c.kind # "entry" => Entries(walFile') \subseteq Entries(walFile)
  BY <1>1, EntriesAppend
<1>3. OnDisk' = (UNION {Entries(f) : f \in walOld}) \cup Entries(walFile')
  BY <1>1 DEF OnDisk
<1>4. OnDisk = (UNION {Entries(f) : f \in walOld}) \cup Entries(walFile)
  BY DEF OnDisk
<1> QED
  BY <1>2, <1>3, <1>4

(* an fsync() or none, *)
LEMMA SyncOnDisk ==
    ASSUME FileSync \/ UNCHANGED diskVars
    PROVE  OnDisk' \subseteq OnDisk
BY DEF FileSync, diskVars, OnDisk

(* and an ftruncate(). *)
LEMMA TruncateOnDisk ==
    ASSUME DiskTypeOK, NEW k \in 0..Len(walFile), FileTruncateTo(SubSeq(walFile, 1, k))
    PROVE  OnDisk' \subseteq OnDisk
<1>1. walFile' = SubSeq(walFile, 1, k) /\ walOld' \subseteq Survivors
  BY DEF FileTruncateTo
<1>2. Entries(walFile') \subseteq OnDisk
  <2>1. Entries(walFile') \subseteq Entries(walFile)
    BY <1>1, EntriesPrefix DEF DiskTypeOK
  <2> QED
    BY <2>1 DEF OnDisk
<1>3. \A f \in walOld' : Entries(f) \subseteq OnDisk
  BY <1>1, SurvivorEntries
<1>4. OnDisk' = (UNION {Entries(f) : f \in walOld'}) \cup Entries(walFile')
  BY DEF OnDisk
<1> QED
  BY <1>2, <1>3, <1>4

(* The logs on the disk are such that recovery can read them. *)
DiskLogs == DiskTypeOK /\ \A f \in walOld \cup {walFile} : LogFile(f)

(* What recovery may find after a power loss, for one image. *)
Outcomes(snap) == {Recoverable(snap, f) : f \in Survivors}

(* The whole file may survive, and every prefix that keeps what is synced. *)
LEMMA WholeSurvives ==
    ASSUME DiskTypeOK
    PROVE  /\ walFile \in Survivors
           /\ \A i \in walFloor..Len(walFile) : SubSeq(walFile, 1, i) \in Survivors
<1>1. Len(walFile) \in Nat /\ walFloor \in Nat /\ walFloor <= Len(walFile)
  BY LenProperties DEF DiskTypeOK
<1>2. \A i \in walFloor..Len(walFile) : SubSeq(walFile, 1, i) \in Survivors
  BY DEF Survivors, Prefixes
<1>3. SubSeq(walFile, 1, Len(walFile)) = walFile
  BY SubSeqFull DEF DiskTypeOK
<1>4. Len(walFile) \in walFloor..Len(walFile)
  BY <1>1
<1>5. SubSeq(walFile, 1, Len(walFile)) \in Survivors
  BY <1>2, <1>4
<1> QED
  BY <1>2, <1>3, <1>5

(* Recovery from a survivor is defined. *)
LEMMA SurvivorLogs ==
    ASSUME DiskLogs, NEW f \in Survivors
    PROVE  LogFile(f)
<1>1. CASE f \in walOld
  BY <1>1 DEF DiskLogs
<1>2. CASE f \in Prefixes(walFile, walFloor)
  <2>1. NoSnapshot.epoch \in Nat \cup {-1} /\ NoSnapshot.state \in Contents
    BY NoDataFacts DEF NoSnapshot
  <2> QED
    BY <1>2, <2>1, PrefixRecovers DEF DiskLogs, DiskTypeOK, Image
<1> QED
  BY <1>1, <1>2 DEF Survivors

(* Of a file that is synced up to its end the whole survives. *)
LEMMA WholeIsPrefix ==
    ASSUME NEW f \in Seq(Cell)
    PROVE  Prefixes(f, Len(f)) = {f}
<1>1. Len(f) \in Nat /\ SubSeq(f, 1, Len(f)) = f
  BY LenProperties, SubSeqFull
<1>2. Len(f)..Len(f) = {Len(f)} /\ Len(f)..(Len(f) - 1) = {}
  BY <1>1
<1> QED
  BY <1>1, <1>2 DEF Prefixes

(* The outcomes after a write(), *)
LEMMA AppendOutcomes ==
    ASSUME DiskLogs, NEW snap, Image(snap), NEW c \in Cell, FileAppend(c),
           c.kind = "entry" => Loggable(c.body),
           NEW g \in Survivors'
    PROVE  /\ LogFile(g)
           /\ \/ Recoverable(snap, g) \in Outcomes(snap)
              \/ Recoverable(snap, g) = Turn(snap, Recoverable(snap, walFile), c)
<1> DEFINE f == walFile
           h == Append(walFile, c)
<1>1. /\ f \in Seq(Cell) /\ Len(f) \in Nat /\ walFloor \in 0..Len(f) /\ LogFile(f)
      /\ walFile' = h /\ walOld' = walOld /\ walFloor' = walFloor
  BY LenProperties DEF DiskLogs, DiskTypeOK, FileAppend
<1>2. Len(h) = Len(f) + 1 /\ \A i \in 1..Len(f) : h[i] = f[i]
  BY <1>1, AppendProperties
<1>3. LogFile(h) /\ Recoverable(snap, h) = Turn(snap, Recoverable(snap, f), c)
  BY <1>1, RecoverableAppend
<1>4. CASE g \in walOld
  <2>1. g \in Survivors
    BY <1>4 DEF Survivors
  <2> QED
    BY <2>1, SurvivorLogs DEF Outcomes
<1>5. CASE g \in Prefixes(h, walFloor)
  <2> HIDE DEF f, h
  <2>1. walFloor \in 0..Len(h)
    BY <1>1, <1>2
  <2>2. LogFile(g)
    BY <1>3, <1>5, <2>1, PrefixRecovers
  <2>3. \E i \in walFloor..Len(h) : Recoverable(snap, g) = Recovering(snap, h)[i]
    BY <1>3, <1>5, <2>1, PrefixRecovers
  <2>4. PICK i \in walFloor..Len(h) : Recoverable(snap, g) = Recovering(snap, h)[i]
    BY <2>3
  <2>5. CASE i = Len(h)
    BY <1>3, <2>2, <2>4, <2>5 DEF Recoverable, f
  <2>6. CASE i # Len(h)
    <3>1. i \in 0..Len(f) /\ i \in Nat /\ i <= Len(f) /\ i <= Len(h) /\ i \in walFloor..Len(f)
      BY <1>1, <1>2, <2>1, <2>6
    <3>2. Recovering(snap, h)[i] = Recovering(snap, f)[i]
      BY <1>1, <1>2, <1>3, <3>1, RecoveringPrefix
    <3>3. Recoverable(snap, SubSeq(f, 1, i)) = Recovering(snap, f)[i]
      BY <1>1, <3>1, RecoverablePrefix
    <3>4. SubSeq(f, 1, i) \in Survivors
      BY <3>1, WholeSurvives DEF f, DiskLogs
    <3> QED
      BY <2>2, <2>4, <3>2, <3>3, <3>4 DEF Outcomes
  <2> QED
    BY <2>5, <2>6
<1>6. g \in walOld \/ g \in Prefixes(h, walFloor)
  BY <1>1 DEF Survivors
<1> QED
  BY <1>4, <1>5, <1>6

(* an fsync(), *)
LEMMA SyncSurvivors ==
    ASSUME DiskTypeOK, FileSync
    PROVE  Survivors' = {walFile}
<1>1. walFile' = walFile /\ walFloor' = Len(walFile) /\ walOld' = {} /\ walFile \in Seq(Cell)
  BY DEF FileSync, DiskTypeOK
<1> QED
  BY <1>1, WholeIsPrefix DEF Survivors

(* and an ftruncate(). *)
LEMMA TruncateOutcomes ==
    ASSUME DiskLogs, NEW snap, Image(snap), NEW k \in 0..Len(walFile),
           FileTruncateTo(SubSeq(walFile, 1, k)), NEW g \in Survivors'
    PROVE  /\ LogFile(g)
           /\ \/ Recoverable(snap, g) \in Outcomes(snap)
              \/ Recoverable(snap, g) = Recoverable(snap, SubSeq(walFile, 1, k))
<1> DEFINE f == walFile
           h == SubSeq(walFile, 1, k)
           n == IF walFloor < Len(h) THEN walFloor ELSE Len(h)
<1>1. /\ f \in Seq(Cell) /\ Len(f) \in Nat /\ walFloor \in 0..Len(f) /\ LogFile(f)
      /\ walFile' = h /\ walOld' \subseteq Survivors /\ walFloor' = n
  BY LenProperties DEF DiskLogs, DiskTypeOK, FileTruncateTo
<1>2. Len(h) = k /\ \A i \in 1..k : h[i] = f[i]
  BY <1>1, PrefixFacts
<1>3. LogFile(h)
  BY <1>1, RecoverablePrefix
<1>4. CASE g \in Survivors
  BY <1>4, SurvivorLogs DEF Outcomes
<1>5. CASE g \in Prefixes(h, n)
  <2> HIDE DEF f, h
  <2>1. n \in 0..Len(h) /\ k \in Nat /\ k <= Len(f)
    BY <1>1, <1>2 DEF f
  <2> HIDE DEF n
  <2>2. LogFile(g)
    BY <1>3, <1>5, <2>1, PrefixRecovers
  <2>3. \E i \in n..Len(h) : Recoverable(snap, g) = Recovering(snap, h)[i]
    BY <1>3, <1>5, <2>1, PrefixRecovers
  <2>4. PICK i \in n..Len(h) : Recoverable(snap, g) = Recovering(snap, h)[i]
    BY <2>3
  <2>5. CASE i = Len(h)
    BY <2>2, <2>4, <2>5 DEF Recoverable, h
  <2>6. CASE i # Len(h)
    <3>1. /\ i \in 0..Len(f) /\ i \in Nat /\ i <= Len(f) /\ i <= Len(h)
          /\ i \in walFloor..Len(f) /\ i <= k
      BY <1>1, <1>2, <2>1, <2>6 DEF n
    <3>2. Recovering(snap, h)[i] = Recovering(snap, f)[i]
      BY <1>1, <1>2, <1>3, <3>1, RecoveringPrefix
    <3>3. Recoverable(snap, SubSeq(f, 1, i)) = Recovering(snap, f)[i]
      BY <1>1, <3>1, RecoverablePrefix
    <3>4. SubSeq(f, 1, i) \in Survivors
      BY <3>1, WholeSurvives DEF f, DiskLogs
    <3> QED
      BY <2>2, <2>4, <3>2, <3>3, <3>4 DEF Outcomes
  <2> QED
    BY <2>5, <2>6
<1>6. g \in Survivors \/ g \in Prefixes(h, n)
  BY <1>1 DEF Survivors
<1> QED
  BY <1>4, <1>5, <1>6

-----------------------------------------------------------------------------
(* Type correctness, for every kind of failure. *)

(* A PUT that is on the disk carries a record. *)
LogsCarryRecords == \A c \in OnDisk : c.body.type = "PUT" => c.body.blob # EmptyBlob

(* The arguments that set() and remove() keep across append(). *)
ArgumentsTyped ==
    /\ op.call = "set" => op.key \in Keys /\ op.record \in Record
    /\ op.call = "remove" => op.key \in Keys

(* The parts of EngineTypeOK about the snapshot and about the engine. *)
SnapTyped == \A snap \in SnapSurvivors \cup {image} : Image(snap)
EngineTyped ==
    /\ m_data \in Contents
    /\ m_snapshotEpoch \in Nat \cup {-1}
    /\ op.call \in {"none", "construct", "recover", "unwind", "set", "remove", "snapshot"}
    /\ clock \in 0..MaxOps
    /\ journal \in Seq(Contents) /\ journal # <<>>

(* The inductive invariant: recovery needs entries that carry records to   *)
(* give contents, and set() the record it was called with.                 *)
Typed == WALTypeOK /\ LogsCarryRecords /\ SnapTyped /\ EngineTyped /\ ArgumentsTyped

(* It is EngineTypeOK and those two. *)
LEMMA TypedParts ==
    Typed <=> EngineTypeOK /\ LogsCarryRecords /\ ArgumentsTyped
BY DEF Typed, EngineTypeOK, SnapTyped, EngineTyped, Image

(* A body that is in the log can be replayed. *)
LEMMA BodyLoggable ==
    ASSUME NEW body \in Body, body.type = "PUT" => body.blob # EmptyBlob
    PROVE  Loggable(body)
<1>1. body.key \in Keys /\ body.timestamp \in Nat /\ body.blob \in Blobs
  BY DEF Body
<1>2. body.type = "PUT"
        => \E d \in Durations, v \in Values : body.blob = serialize(d, v)
  BY <1>1 DEF Blobs
<1> QED
  BY <1>1, <1>2 DEF Loggable

(* Recovery can read what is on the disk. *)
LEMMA LogsReadable ==
    ASSUME WALTypeOK, LogsCarryRecords
    PROVE  DiskLogs
<1>1. DiskTypeOK
  BY TypeParts
<1>2. ASSUME NEW f \in walOld \cup {walFile}
      PROVE  LogFile(f)
  <2>1. f \in Seq(Cell)
    BY <1>1 DEF DiskTypeOK
  <2>2. ASSUME NEW i \in 1..Len(f), f[i].kind = "entry"
        PROVE  Loggable(f[i].body)
    <3>1. f[i] \in Cell
      BY <2>1, ElementOfSeq
    <3>2. f[i].body \in Body
      BY <2>2, <3>1, CellFacts
    <3>3. f[i] \in Entries(f)
      BY <2>2 DEF Entries
    <3>4. f[i] \in OnDisk
      BY <3>3 DEF OnDisk
    <3>5. f[i].body.type = "PUT" => f[i].body.blob # EmptyBlob
      BY <3>4 DEF LogsCarryRecords
    <3> QED
      BY <3>2, <3>5, BodyLoggable
  <2> QED
    BY <2>1, <2>2 DEF LogFile
<1> QED
  BY <1>1, <1>2 DEF DiskLogs

(* The journal's last contents, and what Promise and Logged make of it.    *)
LEMMA JournalFacts ==
    ASSUME journal \in Seq(Contents), journal # <<>>
    PROVE  /\ Len(journal) \in Nat \ {0} /\ Last(journal) \in Contents
           /\ \A i \in 1..Len(journal) : journal[i] \in Contents
<1>1. Len(journal) \in Nat \ {0}
  BY EmptySeq, LenProperties
<1>2. \A i \in 1..Len(journal) : journal[i] \in Contents
  BY ElementOfSeq
<1> QED
  BY <1>1, <1>2 DEF Last

(* A journal of one is one. *)
LEMMA JournalOfOne ==
    ASSUME NEW d \in Contents, journal' = <<d>>
    PROVE  /\ journal' \in Seq(Contents) /\ journal' # <<>>
           /\ Len(journal') = 1 /\ journal'[1] = d /\ Last(journal)' = d
BY DEF Last

(* See above. *)
LEMMA JournalLonger ==
    ASSUME journal \in Seq(Contents), journal # <<>>, NEW d \in Contents, Logged(d)
    PROVE  /\ journal' \in Seq(Contents) /\ journal' # <<>>
           /\ Len(journal') = Len(journal) + 1 /\ Last(journal)' = d
           /\ \A i \in 1..Len(journal) : journal'[i] = journal[i]
<1>1. /\ journal' \in Seq(Contents) /\ journal' # <<>>
      /\ Len(journal') = Len(journal) + 1 /\ journal'[Len(journal) + 1] = d
      /\ \A i \in 1..Len(journal) : journal'[i] = journal[i]
  BY AppendProperties DEF Logged
<1> QED
  BY <1>1 DEF Last

(* The contents after an operation are contents. *)
LEMMA OperationTypes ==
    ASSUME NEW data \in Contents, NEW key \in Keys
    PROVE  /\ \A record \in Record : [data EXCEPT ![key] = Append(@, record)] \in Contents
           /\ [data EXCEPT ![key] = <<>>] \in Contents
<1>1. \A record \in Record : [data EXCEPT ![key] = Append(@, record)] \in Contents
  BY WithRecordFacts DEF WithRecord
<1> QED
  BY <1>1, EraseFacts DEF erase

(* The invariant holds in the beginning. *)
LEMMA TypedInit == EngineInit => Typed
<1> SUFFICES ASSUME EngineInit PROVE Typed
  OBVIOUS
<1>1. WALTypeOK
  BY InitType DEF EngineInit
<1>2. OnDisk = {}
  <2>1. walOld \cup {walFile} = {<<>>} /\ Entries(<<>>) = {}
    BY DEF EngineInit, WALInit, Entries
  <2> QED
    BY <2>1 DEF OnDisk
<1>3. SnapTyped
  BY NoDataFacts DEF EngineInit, SnapInit, SnapTyped, SnapSurvivors, Image, NoSnapshot
<1>4. EngineTyped /\ ArgumentsTyped
  BY NoDataFacts, EngineAssumption DEF EngineInit, EngineTyped, ArgumentsTyped, NoOp
<1> QED
  BY <1>1, <1>2, <1>3, <1>4 DEF Typed, LogsCarryRecords

(* The types of the engine that is not there. *)
LEMMA GoneTyped ==
    ASSUME EngineTyped, EngineGone, UNCHANGED clock,
           journal' \in Seq(Contents), journal' # <<>>
    PROVE  EngineTyped' /\ ArgumentsTyped'
BY NoDataFacts DEF EngineTyped, ArgumentsTyped, EngineGone, NoOp

(* A process that ends in save() leaves the files of the snapshot. *)
LEMMA SnapEndTyped ==
    ASSUME SnapTyped, SnapKill \/ SaveFails \/ SaveDone
    PROVE  SnapTyped'
BY NoDataFacts DEF SnapTyped, SnapKill, SaveFails, SaveDone, SnapSurvivors, Image, NoSnapshot

(* Steps that add no entry to the disk: blanks, fsync() or nothing, *)
LEMMA BlankOnDisk ==
    ASSUME DiskTypeOK,
           FileAppend(Header) \/ FileAppend(Part) \/ FileSync \/ UNCHANGED diskVars
    PROVE  OnDisk' \subseteq OnDisk
BY AppendOnDisk, SyncOnDisk, CellFacts

(* and what walkChain() and reset() cut the file to. *)
LEMMA CutOnDisk ==
    ASSUME WALTypeOK,
           (~WalkAtEnd /\ FileTruncateTo(VerifiedPrefix)) \/ FileTruncateTo(<<>>)
    PROVE  OnDisk' \subseteq OnDisk
<1>1. DiskTypeOK /\ walFile \in Seq(Cell) /\ Len(walFile) \in Nat
  BY TypeParts, LenProperties DEF DiskTypeOK
<1>2. /\ walOld' \subseteq Survivors
      /\ \/ walFile' = <<>> \/ walFile' = <<Part>>
         \/ \E k \in 0..Len(walFile) : walFile' = SubSeq(walFile, 1, k)
  <2>1. CASE FileTruncateTo(<<>>)
    BY <2>1 DEF FileTruncateTo
  <2>2. CASE ~WalkAtEnd /\ FileTruncateTo(VerifiedPrefix)
    <3>1. walk.pos \in 1..Len(walFile)
      BY <2>2, WalkReads
    <3>2. walk.pos - 1 \in 0..Len(walFile)
      BY <1>1, <3>1
    <3> QED
      BY <2>2, <3>2 DEF FileTruncateTo, VerifiedPrefix
  <2> QED
    BY <2>1, <2>2
<1>3. Entries(<<>>) = {} /\ Entries(<<Part>>) = {}
  BY CellFacts DEF Entries
<1>4. \A k \in 0..Len(walFile) : Entries(SubSeq(walFile, 1, k)) \subseteq Entries(walFile)
  BY <1>1, EntriesPrefix
<1>5. Entries(walFile') \subseteq Entries(walFile)
  BY <1>2, <1>3, <1>4
<1>6. \A f \in walOld' : Entries(f) \subseteq OnDisk
  BY <1>1, <1>2, SurvivorEntries
<1>7. OnDisk' = (UNION {Entries(f) : f \in walOld'}) \cup Entries(walFile')
  BY DEF OnDisk
<1>8. Entries(walFile) \subseteq OnDisk
  BY DEF OnDisk
<1> QED
  BY <1>5, <1>6, <1>7, <1>8

(* Every call on the log but append() adds no entry. *)
LEMMA NoNewEntries ==
    ASSUME WALTypeOK,
           \/ WALOpen \/ WALWalk \/ WalkFails \/ WALRotate \/ ResetSync
           \/ AppendReturn \/ AppendSyncFails \/ Close \/ Kill
           \/ \E key \in Keys, blob \in Blobs : AppendWriteFails(key, blob) \/ AppendKilled(key, blob)
    PROVE  OnDisk' \subseteq OnDisk
<1>0. DiskTypeOK
  BY TypeParts
<1>1. CASE WALOpen
  <2>1. FileAppend(Header) \/ FileAppend(Part) \/ FileSync \/ UNCHANGED diskVars
    BY <1>1, Zenon DEF WALOpen, OpenEmpty, OpenCreate, OpenCreateFails, OpenSync, OpenSyncFails,
                       OpenExisting, OpenRefused
  <2> QED
    BY <1>0, <2>1, BlankOnDisk
<1>2. CASE WALWalk \/ WalkFails
  <2>1. UNCHANGED diskVars \/ (~WalkAtEnd /\ FileTruncateTo(VerifiedPrefix))
    BY <1>2, Zenon DEF WALWalk, WalkFails, WalkEntry, WalkEnd, WalkTorn, WalkRefused,
                       WalkStatFails, WalkReadFails, ReturnTorn
  <2> QED
    BY <1>0, <2>1, BlankOnDisk, CutOnDisk
<1>3. CASE WALRotate \/ ResetSync
  <2>1. \/ FileAppend(Header) \/ FileAppend(Part) \/ FileSync \/ UNCHANGED diskVars
        \/ FileTruncateTo(<<>>)
    BY <1>3, Zenon DEF WALRotate, ResetSync, ResetTruncate, ResetHeader, ResetReturn, ResetFails
  <2> QED
    BY <1>0, <2>1, BlankOnDisk, CutOnDisk
<1>4. CASE AppendReturn \/ AppendSyncFails \/ Close \/ Kill
  <2>1. FileSync \/ UNCHANGED diskVars
    BY <1>4 DEF AppendReturn, AppendSyncFails, Close, CloseFlush, Kill, diskVars
  <2> QED
    BY <1>0, <2>1, BlankOnDisk
<1>5. ASSUME NEW key \in Keys, NEW blob \in Blobs,
             AppendWriteFails(key, blob) \/ AppendKilled(key, blob)
      PROVE  OnDisk' \subseteq OnDisk
  <2>1. FileAppend(Part) \/ UNCHANGED diskVars
    BY <1>5, Zenon DEF AppendWriteFails, AppendKilled
  <2> QED
    BY <1>0, <2>1, BlankOnDisk
<1> QED
  BY <1>1, <1>2, <1>3, <1>4, <1>5

(* A power loss adds none either. *)
LEMMA PowerOnDisk ==
    ASSUME WALTypeOK, NEW f \in Survivors, PowerLoss(f)
    PROVE  OnDisk' \subseteq OnDisk
<1>1. DiskTypeOK
  BY TypeParts
<1>2. Entries(f) \subseteq OnDisk
  BY <1>1, SurvivorEntries
<1>3. walFile' = f /\ walOld' = {}
  BY DEF PowerLoss
<1> QED
  BY <1>2, <1>3 DEF OnDisk

(* append() adds one entry, that of its arguments. *)
LEMMA AppendedEntry ==
    ASSUME WALTypeOK, NEW type \in RecordType, NEW key \in Keys, NEW blob \in Blobs,
           NEW timestamp \in Nat, AppendWrite(type, key, blob, timestamp),
           type = "PUT" => blob # EmptyBlob
    PROVE  \E c \in Cell : /\ FileAppend(c)
                           /\ c.kind = "entry" /\ c.body = NewBody(type, key, blob, timestamp)
                           /\ c.body \in Body /\ Loggable(c.body)
                           /\ c.body.type = type /\ c.body.key = key /\ c.body.blob = blob
                           /\ c.body.timestamp = timestamp /\ c.body.epoch = m_epoch
<1> DEFINE body == NewBody(type, key, blob, timestamp)
           hash == ChainHash(m_headHash, body)
           c == [kind |-> "entry", body |-> body, hash |-> hash]
<1>1. body \in Body /\ c \in Cell
  BY NewEntryType
<1>2. FileAppend(c)
  BY DEF AppendWrite
<1>3. /\ body.type = type /\ body.key = key /\ body.blob = blob
      /\ body.timestamp = timestamp /\ body.epoch = m_epoch
  BY DEF NewBody
<1> HIDE DEF body, hash
<1>4. Loggable(body)
  BY <1>1, <1>3, BodyLoggable
<1>5. c.kind = "entry" /\ c.body = body
  OBVIOUS
<1> HIDE DEF c
<1> QED
  BY <1>1, <1>2, <1>3, <1>4, <1>5 DEF body

(* So what is on the disk goes on to carry records. *)
LEMMA AppendedLogs ==
    ASSUME WALTypeOK, LogsCarryRecords, NEW type \in RecordType, NEW key \in Keys,
           NEW blob \in Blobs, NEW timestamp \in Nat,
           AppendWrite(type, key, blob, timestamp), type = "PUT" => blob # EmptyBlob
    PROVE  LogsCarryRecords'
<1>1. PICK c \in Cell : FileAppend(c) /\ c.body.type = type /\ c.body.blob = blob
  BY AppendedEntry
<1>2. OnDisk' \subseteq OnDisk \cup {c}
  BY <1>1, AppendOnDisk, TypeParts
<1> QED
  BY <1>1, <1>2 DEF LogsCarryRecords

(* The start of recover() keeps the types of the log's variables. *)
LEMMA RecoverStartType ==
    ASSUME WALTypeOK, NEW img, Image(img), m_epoch' = FenceEpoch(img),
           WalkStart(img.epoch, TRUE),
           UNCHANGED <<diskVars, m_seq, m_headHash, m_pendingWrites, status>>
    PROVE  WALTypeOK'
<1> USE TypeParts
<1>1. DiskTypeOK'
  BY DiskSameType
<1>2. walk' \in WalkLocals /\ wal_pc' = "walking"
  BY ZeroHashType DEF WalkStart, WalkLocals, Image
<1>3. m_epoch' \in Nat
  BY DEF FenceEpoch, Image
<1>4. HandleTypeOK'
  BY <1>2, <1>3 DEF HandleTypeOK
<1> QED
  BY <1>1, <1>4

(* And so does the start of the rotation. *)
LEMMA RotateStartType ==
    ASSUME WALTypeOK, Image(image), m_epoch' = FenceEpoch(image), ResetSync,
           UNCHANGED <<m_seq, m_headHash, m_pendingWrites, walk, status>>
    PROVE  WALTypeOK'
<1> USE TypeParts
<1>1. DiskTypeOK'
  <2>1. FileSync \/ UNCHANGED diskVars
    BY DEF ResetSync
  <2> QED
    BY <2>1, FileSyncType, DiskSameType
<1>2. m_epoch' \in Nat
  BY DEF FenceEpoch, Image
<1>3. wal_pc' = "resetting"
  BY Zenon DEF ResetSync
<1>4. HandleTypeOK'
  BY <1>2, <1>3 DEF HandleTypeOK
<1> QED
  BY <1>1, <1>4

(* The constructor and recover() keep the types, *)
LEMMA RecoveryTyped ==
    ASSUME Typed, ConstructWAL \/ recover \/ EngineRecovery \/ RecoverMisled
    PROVE  Typed'
<1> USE DEF Typed
<1>1. CASE ConstructWAL
  <2>1. WALTypeOK' /\ OnDisk' \subseteq OnDisk
    BY <1>1, OpenType, NoNewEntries DEF ConstructWAL
  <2>2. SnapTyped' /\ EngineTyped' /\ ArgumentsTyped'
    BY <1>1 DEF ConstructWAL, snapVars, engineVars, ghostVars, SnapTyped, SnapSurvivors,
                EngineTyped, ArgumentsTyped
  <2> QED
    BY <2>1, <2>2 DEF LogsCarryRecords
<1>2. CASE recover
  <2>1. PICK img \in LoadResults :
          /\ m_data' = Capped(img.state)
          /\ m_snapshotEpoch' = img.epoch
          /\ m_epoch' = FenceEpoch(img)
          /\ WalkStart(img.epoch, TRUE)
    BY <1>2 DEF recover
  <2>2. Image(img)
    <3>1. Image(NoSnapshot)
      BY NoDataFacts DEF Image, NoSnapshot
    <3> QED
      BY <3>1 DEF LoadResults, SnapTyped, SnapSurvivors
  <2>3. /\ UNCHANGED <<diskVars, m_seq, m_headHash, m_pendingWrites, status>>
        /\ UNCHANGED snapVars /\ UNCHANGED ghostVars
        /\ op'.call \in {"construct", "recover"}
    BY <1>2 DEF recover
  <2>4. WALTypeOK' /\ OnDisk' \subseteq OnDisk
    BY <2>1, <2>2, <2>3, RecoverStartType, SyncOnDisk
  <2>5. m_data' \in Contents /\ m_snapshotEpoch' \in Nat \cup {-1}
    BY <2>1, <2>2, CappedFacts DEF Image
  <2>6. SnapTyped' /\ EngineTyped' /\ ArgumentsTyped'
    BY <2>3, <2>5 DEF snapVars, ghostVars, SnapTyped, SnapSurvivors, EngineTyped, ArgumentsTyped
  <2> QED
    BY <2>4, <2>6 DEF LogsCarryRecords
<1>3. CASE RecoverEntry
  <2>1. /\ WalkEntry /\ UNCHANGED <<m_snapshotEpoch, op>> /\ UNCHANGED snapVars /\ UNCHANGED ghostVars
        /\ m_data' = IF Visited THEN Replay(m_data, walFile[walk.pos].body) ELSE m_data
    BY <1>3 DEF RecoverEntry
  <2>2. WALTypeOK' /\ OnDisk' \subseteq OnDisk
    BY <2>1, WalkEntryType, NoNewEntries DEF WALWalk
  <2>3. Loggable(walFile[walk.pos].body)
    <3>1. walk.pos \in 1..Len(walFile) /\ walFile[walk.pos].kind = "entry"
      BY <2>1, WalkReads DEF WalkEntry
    <3> QED
      BY <3>1, LogsReadable DEF DiskLogs, LogFile
  <2>4. m_data' \in Contents
    BY <2>1, <2>3, ReplayFacts DEF EngineTyped
  <2>5. SnapTyped' /\ EngineTyped' /\ ArgumentsTyped'
    BY <2>1, <2>4 DEF snapVars, ghostVars, SnapTyped, SnapSurvivors, EngineTyped, ArgumentsTyped
  <2> QED
    BY <2>2, <2>5 DEF LogsCarryRecords
<1>4. CASE RecoverReturn \/ RecoverMisled \/ RecoverThrows
  <2>1. /\ WALWalk \/ WalkFails
        /\ ~WalkEntry
        /\ UNCHANGED <<m_data, m_snapshotEpoch>> /\ UNCHANGED snapVars /\ UNCHANGED ghostVars
        /\ op'.call \in {"none", "unwind"}
    <3>1. CASE RecoverReturn
      <4>1. (WalkEnd \/ WalkTorn) /\ op' = NoOp
        BY <3>1 DEF RecoverReturn
      <4>2. ~WalkEntry
        <5>1. WalkEnd => ~WalkEntry
          BY DEF WalkEnd, WalkEntry
        <5>2. WalkTorn => ~WalkEntry
          <6>1. WalkTorn => wal_pc' # "walking"
            BY AdoptType DEF WalkTorn, ReturnTorn
          <6> QED
            BY <6>1 DEF WalkEntry
        <5> QED
          BY <4>1, <5>1, <5>2
      <4> QED
        BY <3>1, <4>1, <4>2 DEF RecoverReturn, WALWalk, NoOp
    <3>2. CASE RecoverMisled
      <4>1. WalkFails /\ op' = NoOp
        BY <3>2 DEF RecoverMisled
      <4>2. wal_pc' # "walking"
        BY <4>1, AdoptType DEF WalkFails, WalkStatFails, WalkReadFails, ReturnTorn
      <4>3. ~WalkEntry
        BY <4>1, <4>2 DEF WalkFails, WalkStatFails, WalkReadFails, WalkEntry
      <4> QED
        BY <3>2, <4>1, <4>3 DEF RecoverMisled, NoOp
    <3>3. CASE RecoverThrows
      <4>1. WalkRefused /\ op'.call \in {"none", "unwind"}
        BY <3>3 DEF RecoverThrows, NoOp
      <4>2. walk.back \in {"closed", "open", "ready"}
        BY DEF WALTypeOK, WalkLocals
      <4>3. ~WalkEntry
        BY <4>1, <4>2 DEF WalkRefused, WalkEntry
      <4> QED
        BY <3>3, <4>1, <4>3 DEF RecoverThrows, WALWalk
    <3> QED
      BY <1>4, <3>1, <3>2, <3>3
  <2>2. WALTypeOK' /\ OnDisk' \subseteq OnDisk
    BY <2>1, WalkReturnsType, NoNewEntries
  <2>3. SnapTyped' /\ EngineTyped' /\ ArgumentsTyped'
    BY <2>1 DEF snapVars, ghostVars, SnapTyped, SnapSurvivors, EngineTyped, ArgumentsTyped
  <2> QED
    BY <2>2, <2>3 DEF LogsCarryRecords
<1>5. CASE Unwind
  <2>1. WALTypeOK' /\ OnDisk' \subseteq OnDisk
    BY <1>5, CloseType, NoNewEntries DEF Unwind
  <2>2. EngineTyped' /\ ArgumentsTyped'
    BY <1>5, GoneTyped DEF Unwind, ghostVars, EngineTyped
  <2>3. SnapTyped'
    BY <1>5 DEF Unwind, snapVars, SnapTyped, SnapSurvivors
  <2> QED
    BY <2>1, <2>2, <2>3 DEF LogsCarryRecords
<1> QED
  BY <1>1, <1>2, <1>3, <1>4, <1>5 DEF EngineRecovery

(* the writes, *)
LEMMA WritesTyped ==
    ASSUME Typed, NEW key \in Keys,
           \/ \E value \in Values, duration \in Durations : set(key, value, duration)
           \/ remove(key)
           \/ \E blob \in Blobs : WriteThrows(key, blob) \/ WriteKilled(key, blob)
    PROVE  Typed'
<1> USE DEF Typed
<1>0. /\ clock \in Nat /\ MaxOps \in Nat
      /\ journal \in Seq(Contents) /\ journal # <<>> /\ Last(journal) \in Contents
  BY JournalFacts, EngineAssumption DEF EngineTyped
<1>1. ASSUME NEW value \in Values, NEW duration \in Durations, set(key, value, duration)
      PROVE  Typed'
  <2> DEFINE record == [value |-> value, duration |-> duration, timestamp |-> clock + 1]
             blob == serialize(duration, value)
             data == [Last(journal) EXCEPT ![key] = Append(@, record)]
  <2>1. /\ clock < MaxOps /\ AppendWrite("PUT", key, blob, clock + 1)
        /\ op' = [call |-> "set", key |-> key, record |-> record]
        /\ clock' = clock + 1 /\ Logged(data)
        /\ UNCHANGED <<m_data, m_snapshotEpoch>> /\ UNCHANGED snapVars
    BY <1>1 DEF set, MayWrite
  <2>2. /\ record \in Record /\ blob \in Blobs /\ blob # EmptyBlob
        /\ "PUT" \in RecordType /\ clock + 1 \in Nat
    <3>1. blob.size = DoubleSize + ValueSize[value] /\ EmptyBlob.size = 0
      BY DEF serialize, EmptyBlob
    <3>2. blob.size # 0
      BY <3>1, SizeAssumption
    <3> QED
      BY <1>0, <3>1, <3>2 DEF Record, Blobs, RecordType
  <2>3. data \in Contents
    BY <1>0, <2>2, OperationTypes
  <2> HIDE DEF record, blob, data
  <2>4. WALTypeOK' /\ LogsCarryRecords'
    BY <2>1, <2>2, AppendWriteType, AppendedLogs
  <2>5. journal' \in Seq(Contents) /\ journal' # <<>>
    BY <1>0, <2>1, <2>3, JournalLonger
  <2>6. op'.call = "set" /\ op'.key = key /\ op'.record = record
    BY <2>1
  <2>7. clock' \in 0..MaxOps
    BY <1>0, <2>1
  <2>8. SnapTyped' /\ EngineTyped' /\ ArgumentsTyped'
    BY <2>1, <2>2, <2>5, <2>6, <2>7
    DEF snapVars, SnapTyped, SnapSurvivors, EngineTyped, ArgumentsTyped
  <2> QED
    BY <2>4, <2>8
<1>2. CASE remove(key)
  <2> DEFINE data == [Last(journal) EXCEPT ![key] = <<>>]
  <2>1. /\ clock < MaxOps /\ AppendWrite("DELETE", key, EmptyBlob, clock + 1)
        /\ op' = [call |-> "remove", key |-> key]
        /\ clock' = clock + 1 /\ Logged(data)
        /\ UNCHANGED <<m_data, m_snapshotEpoch>> /\ UNCHANGED snapVars
    BY <1>2 DEF remove, MayWrite
  <2>2. EmptyBlob \in Blobs /\ "DELETE" \in RecordType /\ clock + 1 \in Nat
    BY <1>0 DEF Blobs, RecordType
  <2>3. data \in Contents
    BY <1>0, OperationTypes
  <2> HIDE DEF data
  <2>4. WALTypeOK' /\ LogsCarryRecords'
    BY <2>1, <2>2, AppendWriteType, AppendedLogs
  <2>5. journal' \in Seq(Contents) /\ journal' # <<>>
    BY <1>0, <2>1, <2>3, JournalLonger
  <2>6. op'.call = "remove" /\ op'.key = key
    BY <2>1
  <2>7. clock' \in 0..MaxOps
    BY <1>0, <2>1
  <2>8. SnapTyped' /\ EngineTyped' /\ ArgumentsTyped'
    BY <2>1, <2>5, <2>6, <2>7
    DEF snapVars, SnapTyped, SnapSurvivors, EngineTyped, ArgumentsTyped
  <2> QED
    BY <2>4, <2>8
<1>3. ASSUME NEW blob \in Blobs, WriteThrows(key, blob)
      PROVE  Typed'
  <2>1. WALTypeOK' /\ OnDisk' \subseteq OnDisk
    BY <1>3, AppendFailsType, NoNewEntries DEF WriteThrows
  <2>2. SnapTyped' /\ EngineTyped' /\ ArgumentsTyped'
    BY <1>3 DEF WriteThrows, snapVars, engineVars, ghostVars, SnapTyped, SnapSurvivors,
                EngineTyped, ArgumentsTyped
  <2> QED
    BY <2>1, <2>2 DEF LogsCarryRecords
<1>4. ASSUME NEW blob \in Blobs, WriteKilled(key, blob)
      PROVE  Typed'
  <2>1. WALTypeOK' /\ OnDisk' \subseteq OnDisk
    BY <1>4, AppendFailsType, NoNewEntries DEF WriteKilled
  <2>2. SnapTyped'
    BY <1>4, SnapEndTyped DEF WriteKilled
  <2>3. EngineTyped' /\ ArgumentsTyped'
    BY <1>0, <1>4, GoneTyped DEF WriteKilled, ghostVars
  <2> QED
    BY <2>1, <2>2, <2>3 DEF LogsCarryRecords
<1> QED
  BY <1>1, <1>2, <1>3, <1>4

(* the end of a write, *)
LEMMA AcknowledgeTyped ==
    ASSUME Typed, Acknowledge \/ SyncThrows
    PROVE  Typed'
<1> USE DEF Typed
<1>0. /\ journal \in Seq(Contents) /\ journal # <<>> /\ Last(journal) \in Contents
  BY JournalFacts DEF EngineTyped
<1>1. WALTypeOK' /\ OnDisk' \subseteq OnDisk
  BY AppendReturnType, NoNewEntries DEF Acknowledge, SyncThrows
<1>2. CASE Acknowledge
  <2>1. journal' \in Seq(Contents) /\ journal' # <<>>
    <3>1. journal' = <<Last(journal)>> \/ journal' = journal
      BY <1>2 DEF Acknowledge, Promise
    <3> QED
      BY <1>0, <3>1, JournalOfOne
  <2>2. m_data' \in Contents
    <3>1. CASE op.call = "set"
      BY <1>2, <3>1, AppendCappedFacts DEF Acknowledge, ArgumentsTyped, EngineTyped
    <3>2. CASE op.call = "remove"
      BY <1>2, <3>2, EraseFacts DEF Acknowledge, ArgumentsTyped, EngineTyped
    <3> QED
      BY <1>2, <3>1, <3>2 DEF Acknowledge
  <2>3. SnapTyped' /\ EngineTyped' /\ ArgumentsTyped'
    BY <1>2, <2>1, <2>2
    DEF Acknowledge, NoOp, snapVars, SnapTyped, SnapSurvivors, EngineTyped, ArgumentsTyped
  <2> QED
    BY <1>1, <2>3 DEF LogsCarryRecords
<1>3. CASE SyncThrows
  <2>1. SnapTyped' /\ EngineTyped' /\ ArgumentsTyped'
    BY <1>3 DEF SyncThrows, NoOp, snapVars, ghostVars, SnapTyped, SnapSurvivors,
                EngineTyped, ArgumentsTyped
  <2> QED
    BY <1>1, <2>1 DEF LogsCarryRecords
<1> QED
  BY <1>2, <1>3

(* snapshot(), *)
LEMMA SnapshotTyped ==
    ASSUME Typed, snapshot \/ EngineSnapshot \/ SnapshotThrows \/ RotationThrows
    PROVE  Typed'
<1> USE DEF Typed
<1>0. /\ journal \in Seq(Contents) /\ journal # <<>> /\ Last(journal) \in Contents
      /\ Image(image) /\ Image(NoSnapshot)
  BY JournalFacts, NoDataFacts DEF EngineTyped, SnapTyped, NoSnapshot, Image
<1>1. CASE snapshot
  <2>1. /\ UNCHANGED walVars /\ op'.call = "snapshot"
        /\ image' = [epoch |-> m_epoch, state |-> m_data]
        /\ UNCHANGED <<snapFile, snapOld, m_data, m_snapshotEpoch>> /\ UNCHANGED ghostVars
    BY <1>1 DEF snapshot, save
  <2>2. Image(image')
    BY <2>1 DEF Image, WALTypeOK, EngineTyped
  <2>3. SnapTyped' /\ EngineTyped' /\ ArgumentsTyped'
    BY <2>1, <2>2 DEF ghostVars, SnapTyped, SnapSurvivors, EngineTyped, ArgumentsTyped
  <2>4. WALTypeOK' /\ OnDisk' = OnDisk
    BY <2>1 DEF walVars, diskVars, handleVars, WALTypeOK, OnDisk
  <2> QED
    BY <2>3, <2>4 DEF LogsCarryRecords
<1>2. CASE SnapshotSaving \/ SnapshotSaved
  <2>1. SnapTyped'
    <3>1. /\ image' = image /\ snapFile' \in {snapFile, image}
          /\ snapOld' \subseteq snapOld \cup {snapFile, NoSnapshot}
      BY <1>2, Zenon DEF SnapshotSaving, SnapshotSaved, SaveWrite, SaveSync, SaveRename, SaveDirSync,
                  Unreadable
    <3> QED
      BY <1>0, <3>1 DEF SnapTyped, SnapSurvivors
  <2>2. /\ UNCHANGED walVars /\ UNCHANGED engineVars /\ UNCHANGED clock
        /\ journal' = journal \/ journal' = <<Last(journal)>>
    BY <1>2 DEF SnapshotSaving, SnapshotSaved, Promise, ghostVars
  <2>3. journal' \in Seq(Contents) /\ journal' # <<>>
    BY <1>0, <2>2, JournalOfOne
  <2>4. EngineTyped' /\ ArgumentsTyped'
    BY <2>2, <2>3 DEF engineVars, EngineTyped, ArgumentsTyped
  <2>5. WALTypeOK' /\ OnDisk' = OnDisk
    BY <2>2 DEF walVars, diskVars, handleVars, WALTypeOK, OnDisk
  <2> QED
    BY <2>1, <2>4, <2>5 DEF LogsCarryRecords
<1>3. CASE SnapshotThrows
  <2>1. SnapTyped'
    BY <1>3, SnapEndTyped DEF SnapshotThrows
  <2>2. EngineTyped' /\ ArgumentsTyped'
    BY <1>3 DEF SnapshotThrows, NoOp, ghostVars, EngineTyped, ArgumentsTyped
  <2>3. WALTypeOK' /\ OnDisk' = OnDisk
    BY <1>3 DEF SnapshotThrows, walVars, diskVars, handleVars, WALTypeOK, OnDisk
  <2> QED
    BY <2>1, <2>2, <2>3 DEF LogsCarryRecords
<1>4. CASE SnapshotRotate
  <2>1. SnapTyped'
    BY <1>4, SnapEndTyped DEF SnapshotRotate
  <2>2. m_snapshotEpoch' \in Nat \cup {-1}
    BY <1>0, <1>4 DEF SnapshotRotate, Image
  <2>3. EngineTyped' /\ ArgumentsTyped'
    BY <1>4, <2>2 DEF SnapshotRotate, ghostVars, EngineTyped, ArgumentsTyped
  <2>4. WALTypeOK'
    BY <1>0, <1>4, RotateStartType DEF SnapshotRotate
  <2>5. OnDisk' \subseteq OnDisk
    BY <1>4, NoNewEntries DEF SnapshotRotate
  <2> QED
    BY <2>1, <2>3, <2>4, <2>5 DEF LogsCarryRecords
<1>5. CASE SnapshotRotating \/ SnapshotReturn \/ RotationThrows
  <2>1. /\ WALRotate /\ UNCHANGED <<m_data, m_snapshotEpoch>>
        /\ UNCHANGED snapVars /\ UNCHANGED ghostVars
        /\ op' = op \/ op' = NoOp
    BY <1>5 DEF SnapshotRotating, SnapshotReturn, RotationThrows, WALRotate, engineVars
  <2>2. WALTypeOK' /\ OnDisk' \subseteq OnDisk
    BY <2>1, ResetType, NoNewEntries
  <2>3. SnapTyped' /\ EngineTyped' /\ ArgumentsTyped'
    BY <2>1 DEF NoOp, snapVars, ghostVars, SnapTyped, SnapSurvivors, EngineTyped, ArgumentsTyped
  <2> QED
    BY <2>2, <2>3 DEF LogsCarryRecords
<1> QED
  BY <1>1, <1>2, <1>3, <1>4, <1>5 DEF EngineSnapshot

(* the end of the process, *)
LEMMA EndTyped ==
    ASSUME Typed, Shutdown \/ EngineKill
    PROVE  Typed'
<1> USE DEF Typed
<1>0. /\ journal \in Seq(Contents) /\ journal # <<>> /\ Last(journal) \in Contents
  BY JournalFacts DEF EngineTyped
<1>1. WALTypeOK' /\ OnDisk' \subseteq OnDisk
  BY CloseType, EndType, NoNewEntries DEF Shutdown, EngineKill
<1>2. journal' \in Seq(Contents) /\ journal' # <<>> /\ UNCHANGED clock /\ EngineGone
  <2>1. journal' = journal \/ journal' = <<Last(journal)>>
    BY Zenon DEF Shutdown, EngineKill, Promise, ghostVars
  <2>2. UNCHANGED clock /\ EngineGone
    BY DEF Shutdown, EngineKill, ghostVars
  <2> QED
    BY <1>0, <2>1, <2>2, JournalOfOne
<1>3. EngineTyped' /\ ArgumentsTyped'
  BY <1>2, GoneTyped
<1>4. SnapTyped'
  BY SnapEndTyped DEF Shutdown, EngineKill, snapVars, SnapTyped, SnapSurvivors
<1> QED
  BY <1>1, <1>3, <1>4 DEF LogsCarryRecords

(* What the journal goes on with after a power loss. *)
LEMMA PowerJournal ==
    ASSUME Typed, NEW snap \in SnapSurvivors, NEW f \in Survivors, EnginePowerLoss(snap, f)
    PROVE  /\ Recoverable(snap, f) \in Contents
           /\ \/ journal' = <<Recoverable(snap, f)>>
              \/ \E i \in 1..Len(journal) : journal' = <<journal[i]>>
           /\ (\E i \in 1..Len(journal) : Recoverable(snap, f) = Capped(journal[i]))
                => \E i \in 1..Len(journal) : /\ journal' = <<journal[i]>>
                                              /\ Capped(journal[i]) = Recoverable(snap, f)
<1> DEFINE left == {i \in 1..Len(journal) : Capped(journal[i]) = Recoverable(snap, f)}
<1>1. journal' = <<IF left = {} THEN Recoverable(snap, f)
                   ELSE journal[CHOOSE i \in left : TRUE]>>
  BY DEF EnginePowerLoss
<1>2. left # {} => (CHOOSE i \in left : TRUE) \in left
  OBVIOUS
<1>3. Image(snap) /\ LogFile(f)
  BY LogsReadable, SurvivorLogs DEF Typed, SnapTyped
<1>4. Recoverable(snap, f) \in Contents
  BY <1>3, RecoverableType
<1>5. (\E i \in 1..Len(journal) : Recoverable(snap, f) = Capped(journal[i])) => left # {}
  OBVIOUS
<1> HIDE DEF left
<1>6. left # {} => \E i \in left : journal' = <<journal[i]>>
  BY <1>1, <1>2
<1>7. left = {} => journal' = <<Recoverable(snap, f)>>
  BY <1>1
<1> QED
  BY <1>4, <1>5, <1>6, <1>7 DEF left

(* and the end of the power. *)
LEMMA PowerTyped ==
    ASSUME Typed, NEW snap \in SnapSurvivors, NEW f \in Survivors, EnginePowerLoss(snap, f)
    PROVE  Typed'
<1> USE DEF Typed
<1>1. WALTypeOK' /\ OnDisk' \subseteq OnDisk
  BY EndType, PowerOnDisk DEF EnginePowerLoss
<1>2. SnapTyped'
  BY NoDataFacts DEF EnginePowerLoss, SnapPowerLoss, SnapTyped, SnapSurvivors, Image, NoSnapshot
<1>3. journal' \in Seq(Contents) /\ journal' # <<>>
  <2>1. \A i \in 1..Len(journal) : journal[i] \in Contents
    BY JournalFacts DEF EngineTyped
  <2> QED
    BY <2>1, PowerJournal, JournalOfOne
<1>4. EngineTyped' /\ ArgumentsTyped'
  BY <1>3, GoneTyped DEF EnginePowerLoss
<1> QED
  BY <1>1, <1>2, <1>4 DEF LogsCarryRecords

(* Every step keeps the types. *)
LEMMA TypedStep ==
    ASSUME Typed, [EngineNext]_vars
    PROVE  Typed'
<1>1. CASE UNCHANGED vars
  BY <1>1 DEF vars, walVars, diskVars, handleVars, snapVars, engineVars, ghostVars, Typed,
              WALTypeOK, LogsCarryRecords, OnDisk, SnapTyped, SnapSurvivors, EngineTyped,
              ArgumentsTyped
<1> QED
  BY <1>1, RecoveryTyped, WritesTyped, AcknowledgeTyped, SnapshotTyped, EndTyped, PowerTyped
  DEF EngineNext

(* Whatever fails and whenever the process or the power ends, the map, the *)
(* snapshots and the log keep their types: what recovery makes of any file *)
(* that is left is a map of histories of records.                          *)
THEOREM EngineTypes == EngineSpec => []EngineTypeOK
<1>1. EngineInit => Typed
  BY TypedInit
<1>2. Typed /\ [EngineNext]_vars => Typed'
  BY TypedStep
<1>3. Typed => EngineTypeOK
  BY TypedParts
<1> QED
  BY <1>1, <1>2, <1>3, PTL DEF EngineSpec

-----------------------------------------------------------------------------
(* The chain under the engine. *)

(* The engine keeps the invariant of the log's chain. *)
LEMMA EngineChain ==
    ASSUME Typed, LogInv, ChainSafe, [EngineNext]_vars
    PROVE  LogInv'
<1> USE DEF Typed
<1>1. CASE ConstructWAL
  BY <1>1, OpenChain DEF ConstructWAL
<1>2. CASE recover
  BY <1>2, WalkStartChain DEF recover
<1>3. CASE EngineRecovery \/ RecoverMisled
  <2>1. WalkEntry \/ WalkEnd \/ WalkTorn \/ WalkRefused \/ WalkFails \/ Close
    BY <1>3 DEF EngineRecovery, RecoverEntry, RecoverReturn, RecoverMisled, RecoverThrows, Unwind
  <2> QED
    BY <2>1, WalkEntryChain, WalkEndChain, WalkTornChain, NeverRefused, WalkNeverFails, EndChain
<1>4. ASSUME NEW key \in Keys, NEW value \in Values, NEW duration \in Durations,
             set(key, value, duration)
      PROVE  LogInv'
  <2>1. AppendWrite("PUT", key, serialize(duration, value), clock + 1)
    BY <1>4 DEF set
  <2>2. "PUT" \in RecordType /\ serialize(duration, value) \in Blobs /\ clock + 1 \in Nat
    BY EngineAssumption DEF RecordType, Blobs, EngineTyped
  <2> QED
    BY <2>1, <2>2, AppendWriteChain
<1>5. ASSUME NEW key \in Keys, remove(key)
      PROVE  LogInv'
  <2>1. AppendWrite("DELETE", key, EmptyBlob, clock + 1)
    BY <1>5 DEF remove
  <2>2. "DELETE" \in RecordType /\ EmptyBlob \in Blobs /\ clock + 1 \in Nat
    BY EngineAssumption DEF RecordType, Blobs, EngineTyped
  <2> QED
    BY <2>1, <2>2, AppendWriteChain
<1>6. ASSUME NEW key \in Keys, NEW blob \in Blobs, WriteThrows(key, blob) \/ WriteKilled(key, blob)
      PROVE  LogInv'
  BY <1>6, AppendFailsChain DEF WriteThrows, WriteKilled
<1>7. CASE Acknowledge \/ SyncThrows
  BY <1>7, AppendReturnChain DEF Acknowledge, SyncThrows
<1>8. CASE SnapshotRotate
  BY <1>8, ResetSyncChain DEF SnapshotRotate
<1>9. CASE SnapshotRotating \/ SnapshotReturn \/ RotationThrows
  <2>1. WALRotate
    BY <1>9 DEF SnapshotRotating, SnapshotReturn, RotationThrows, WALRotate
  <2> QED
    BY <2>1, ResetChain
<1>10. CASE Shutdown \/ EngineKill
  BY <1>10, EndChain DEF Shutdown, EngineKill
<1>11. ASSUME NEW snap \in SnapSurvivors, NEW f \in Survivors, EnginePowerLoss(snap, f)
       PROVE  LogInv'
  BY <1>11, EndChain DEF EnginePowerLoss
<1>12. CASE snapshot \/ SnapshotSaving \/ SnapshotSaved \/ SnapshotThrows \/ UNCHANGED vars
  <2>1. UNCHANGED walVars
    BY <1>12 DEF snapshot, SnapshotSaving, SnapshotSaved, SnapshotThrows, vars
  <2> QED
    BY <2>1 DEF walVars, diskVars, handleVars, LogInv, AtHead, WalkVerified
<1> QED
  BY <1>1, <1>2, <1>3, <1>4, <1>5, <1>6, <1>7, <1>8, <1>9, <1>10, <1>11, <1>12
  DEF EngineNext, EngineSnapshot

-----------------------------------------------------------------------------
(* Durability: DurabilityInv is kept by every step when only the failures  *)
(* of DurabilitySafe happen.                                               *)

(* What DurabilitySafe rules out. *)
LEMMA SafeFacts ==
    ASSUME DurabilitySafe
    PROVE  /\ ChainSafe
           /\ "append fsync" \notin Failures /\ "partial write" \notin Failures
           /\ "recover ftruncate" \notin Failures /\ "torn header" \notin Failures
           /\ "reset header" \notin Failures /\ "reset header fsync" \notin Failures
           /\ "kill" \notin Failures \/ "power" \notin Failures
           /\ "load" \notin SnapFailures /\ "dirfsync" \notin SnapFailures
           /\ "saved" \notin SnapFailures /\ "none" \notin SnapFailures
<1>1. ChainSafe
  BY DEF DurabilitySafe, ChainSafe
<1>2. /\ "append fsync" \notin Failures
      /\ "kill" \notin Failures \/ "power" \notin Failures
      /\ "load" \notin SnapFailures /\ "dirfsync" \notin SnapFailures
      /\ "saved" \notin SnapFailures /\ "none" \notin SnapFailures
  BY DEF DurabilitySafe
<1> QED
  BY <1>1, <1>2, SafeFailures

(* Every snapshot that may be found gives the last contents with the log. *)
DiskCurrent ==
    \A snap \in SnapSurvivors : Recoverable(snap, walFile) = Capped(Last(journal))

(* The inductive invariant. *)
Inv == Typed /\ LogInv /\ DurabilityInv

(* Its parts by name. *)
LEMMA InvParts ==
    /\ Inv <=> /\ Typed /\ LogInv /\ CallsInProgress /\ EpochsFence /\ ImageInPlace
               /\ MapInStep /\ DiskCurrent /\ PowerCutKeepsPromise
    /\ Inv' <=> /\ Typed' /\ LogInv' /\ CallsInProgress' /\ EpochsFence' /\ ImageInPlace'
                /\ MapInStep' /\ DiskCurrent' /\ PowerCutKeepsPromise'
BY DEF Inv, DurabilityInv, DiskCurrent, Typed, LogsCarryRecords

(* What the call in progress tells of the log and of save(). *)
LEMMA CallFacts ==
    ASSUME CallsInProgress
    PROVE  /\ op.call = "none" <=> op = NoOp
           /\ op = NoOp => wal_pc \in {"closed", "creating", "opening", "open", "ready"} /\ save_pc = "none"
           /\ op.call \notin {"none", "snapshot"} => save_pc = "none"
           /\ wal_pc = "walking" <=> op.call \in {"construct", "recover"}
           /\ wal_pc = "appended" <=> op.call \in {"set", "remove"}
           /\ wal_pc \in {"closed", "creating", "opening", "open"} => op = NoOp
           /\ op.call # "unwind"
           /\ save_pc # "none" => op.call = "snapshot" /\ wal_pc = "ready"
           /\ Rotating => op.call = "snapshot" /\ save_pc = "none"
           /\ save_pc \in {"none", "write", "fsync", "rename", "dirfsync", "saved"}
BY DEF CallsInProgress, NoOp, Rotating

(* Images and logs that are on the disk are such. *)
LEMMA DiskFacts ==
    ASSUME Typed
    PROVE  /\ DiskLogs /\ DiskTypeOK /\ LogFile(walFile) /\ Len(walFile) \in Nat
           /\ \A snap \in SnapSurvivors : Image(snap)
           /\ Len(journal) \in Nat \ {0} /\ Last(journal) \in Contents
           /\ \A i \in 1..Len(journal) : journal[i] \in Contents
           /\ \A f \in Survivors : LogFile(f)
<1>1. DiskLogs /\ DiskTypeOK /\ LogFile(walFile) /\ Len(walFile) \in Nat
  BY LogsReadable, LenProperties DEF Typed, DiskLogs, LogFile
<1>2. \A snap \in SnapSurvivors : Image(snap)
  BY DEF Typed, SnapTyped
<1>3. /\ Len(journal) \in Nat \ {0} /\ Last(journal) \in Contents
      /\ \A i \in 1..Len(journal) : journal[i] \in Contents
  BY JournalFacts DEF Typed, EngineTyped
<1>4. \A f \in Survivors : LogFile(f)
  BY <1>1, SurvivorLogs
<1> QED
  BY <1>1, <1>2, <1>3, <1>4

(* The last contents are one of the journal's. *)
LEMMA LastIsThere ==
    ASSUME Typed
    PROVE  Len(journal) \in 1..Len(journal) /\ journal[Len(journal)] = Last(journal)
BY DiskFacts DEF Last

(* A promise that a power cut keeps: the outcomes are contents of the      *)
(* journal.                                                                *)
LEMMA PromiseByOutcome ==
    ASSUME PowerCutKeepsPromise, NEW snap \in SnapSurvivors, NEW x \in Outcomes(snap)
    PROVE  \E i \in 1..Len(journal) : x = Capped(journal[i])
BY DEF PowerCutKeepsPromise, Outcomes

(* Steps that write no entry and leave the snapshot alone, or let fewer of *)
(* them come back, keep the disk current and the promise.                  *)
LEMMA BlankDisk ==
    ASSUME Typed, DiskCurrent, PowerCutKeepsPromise, SnapSurvivors' \subseteq SnapSurvivors,
           FileAppend(Header) \/ FileAppend(Part) \/ FileSync \/ UNCHANGED diskVars,
           journal' = journal
    PROVE  DiskCurrent' /\ PowerCutKeepsPromise'
<1>0. /\ DiskLogs /\ DiskTypeOK /\ LogFile(walFile) /\ Last(journal)' = Last(journal)
      /\ \A snap \in SnapSurvivors : Image(snap)
  BY DiskFacts DEF Last
<1>1. ASSUME NEW c \in {Header, Part}, FileAppend(c)
      PROVE  DiskCurrent' /\ PowerCutKeepsPromise'
  <2>1. c \in Cell /\ c.kind # "entry" /\ walFile' = Append(walFile, c)
    BY <1>1, CellFacts DEF FileAppend
  <2>2. DiskCurrent'
    <3>1. ASSUME NEW snap \in SnapSurvivors'
          PROVE  Recoverable(snap, walFile') = Capped(Last(journal)')
      <4>1. snap \in SnapSurvivors /\ Image(snap)
        BY <1>0, <3>1
      <4>2. Recoverable(snap, walFile') = Recoverable(snap, walFile)
        BY <1>0, <2>1, <4>1, RecoverableBlank
      <4> QED
        BY <1>0, <4>1, <4>2 DEF DiskCurrent
    <3> QED
      BY <3>1 DEF DiskCurrent
  <2>3. ASSUME NEW snap \in SnapSurvivors', NEW g \in Survivors'
        PROVE  \E i \in 1..Len(journal') : Recoverable(snap, g) = Capped(journal'[i])
    <3>1. snap \in SnapSurvivors /\ Image(snap)
      BY <1>0, <2>3
    <3>2. \/ Recoverable(snap, g) \in Outcomes(snap)
          \/ Recoverable(snap, g) = Turn(snap, Recoverable(snap, walFile), c)
      BY <1>0, <1>1, <2>1, <3>1, AppendOutcomes
    <3>3. Turn(snap, Recoverable(snap, walFile), c) = Recoverable(snap, walFile)
      BY <2>1 DEF Turn
    <3>4. Recoverable(snap, walFile) \in Outcomes(snap)
      BY <1>0, WholeSurvives DEF Outcomes
    <3> QED
      BY <3>1, <3>2, <3>3, <3>4, PromiseByOutcome
  <2> QED
    BY <2>2, <2>3 DEF PowerCutKeepsPromise
<1>2. CASE FileSync
  <2>1. walFile' = walFile /\ Survivors' = {walFile}
    BY <1>0, <1>2, SyncSurvivors DEF FileSync
  <2>2. DiskCurrent'
    BY <1>0, <2>1 DEF DiskCurrent
  <2>3. walFile \in Survivors
    BY <1>0, WholeSurvives
  <2> QED
    BY <2>1, <2>2, <2>3 DEF PowerCutKeepsPromise
<1>3. CASE UNCHANGED diskVars
  <2>1. walFile' = walFile /\ Survivors' = Survivors
    BY <1>3 DEF diskVars, Survivors
  <2> QED
    BY <1>0, <2>1 DEF DiskCurrent, PowerCutKeepsPromise
<1> QED
  BY <1>1, <1>2, <1>3

(* When everything that a power loss leaves gives the last contents, these *)
(* may become the promised ones.                                           *)
LEMMA PromiseDisk ==
    ASSUME Typed, Promise, walFile' = walFile,
           \A snap \in SnapSurvivors', f \in Survivors' :
             Recoverable(snap, f) = Capped(Last(journal)),
           walFile' \in Survivors'
    PROVE  DiskCurrent' /\ PowerCutKeepsPromise'
<1>1. Last(journal) \in Contents
  BY DiskFacts
<1>2. Len(journal') = 1 /\ journal'[1] = Last(journal) /\ Last(journal)' = Last(journal)
  BY <1>1, JournalOfOne DEF Promise
<1>3. DiskCurrent'
  BY <1>2 DEF DiskCurrent
<1>4. 1 \in 1..Len(journal')
  BY <1>2
<1> QED
  BY <1>2, <1>3, <1>4 DEF PowerCutKeepsPromise

(* An fsync() of the log with a current disk is such a moment. *)
LEMMA SyncPromise ==
    ASSUME Typed, DiskCurrent, FileSync, Promise, SnapSurvivors' = SnapSurvivors
    PROVE  DiskCurrent' /\ PowerCutKeepsPromise'
<1>1. walFile' = walFile /\ Survivors' = {walFile}
  BY DiskFacts, SyncSurvivors DEF FileSync
<1> QED
  BY <1>1, PromiseDisk DEF DiskCurrent

(* Steps that add no entry, keep the snapshots and begin no cover keep the *)
(* epochs.                                                                 *)
LEMMA FenceKept ==
    ASSUME Typed, EpochsFence, OnDisk' \subseteq OnDisk, UNCHANGED <<snapFile, snapOld>>,
           wal_pc' \notin {"closed", "creating", "opening", "open"} =>
             m_epoch' = IF save_pc' \in {"dirfsync", "saved"} THEN snapFile.epoch
                                                               ELSE snapFile.epoch + 1,
           Covered' => Covered
    PROVE  EpochsFence'
BY DEF EpochsFence

(* Outside every call the image and the map are not asked for. *)
LEMMA ImageAtRest ==
    ASSUME Typed, ImageInPlace, UNCHANGED <<snapFile, snapOld>>, save_pc' = "none",
           ~Rotating', save_pc # "dirfsync" \/ "kill" \in Failures
    PROVE  ImageInPlace'
BY DEF ImageInPlace, SnapSurvivors

(* The parts of the invariant that the steps are shown to keep. *)
Kept ==
    CallsInProgress /\ EpochsFence /\ ImageInPlace /\ MapInStep /\ DiskCurrent
      /\ PowerCutKeepsPromise

(* Without an engine, or with one under construction, little is asked. *)
LEMMA AtRest ==
    ASSUME op' = NoOp, save_pc' = "none", wal_pc' \in {"closed", "creating", "opening", "open"}
    PROVE  CallsInProgress' /\ MapInStep' /\ ~Rotating' /\ ~Covered'
BY DEF CallsInProgress, MapInStep, Rotating, Covered, NoOp, Idle

(* The constructor's initialisation of m_wal: *)
LEMMA ConstructKeeps ==
    ASSUME Inv, DurabilitySafe, ConstructWAL
    PROVE  Kept'
<1> USE InvParts
<1>1. /\ op = NoOp /\ WALOpen /\ UNCHANGED <<snapFile, snapOld, save_pc, op, journal>>
  BY DEF ConstructWAL, snapVars, engineVars, ghostVars
<1>2. op' = NoOp /\ save_pc' = "none" /\ save_pc = "none"
  BY <1>1, CallFacts
<1>3. wal_pc' \in {"closed", "creating", "opening", "open"}
  BY <1>1, Zenon DEF WALOpen, OpenEmpty, OpenCreate, OpenCreateFails, OpenSync, OpenSyncFails, OpenExisting,
              OpenRefused
<1>4. CallsInProgress' /\ MapInStep' /\ ~Rotating' /\ ~Covered'
  BY <1>2, <1>3, AtRest
<1>5. OnDisk' \subseteq OnDisk
  BY <1>1, NoNewEntries DEF Typed
<1>6. EpochsFence'
  BY <1>1, <1>3, <1>4, <1>5, FenceKept
<1>7. ImageInPlace'
  BY <1>1, <1>2, <1>4, ImageAtRest
<1>8. FileAppend(Header) \/ FileAppend(Part) \/ FileSync \/ UNCHANGED diskVars
  BY <1>1, Zenon DEF WALOpen, OpenEmpty, OpenCreate, OpenCreateFails, OpenSync, OpenSyncFails,
                     OpenExisting, OpenRefused
<1>9. DiskCurrent' /\ PowerCutKeepsPromise'
  BY <1>1, <1>8, BlankDisk DEF SnapSurvivors
<1> QED
  BY <1>4, <1>6, <1>7, <1>9 DEF Kept

(* The walk of recover() begins behind the header with the image's         *)
(* contents.                                                               *)
LEMMA RecoverKeeps ==
    ASSUME Inv, DurabilitySafe, recover
    PROVE  Kept'
<1> USE InvParts
<1>1. LoadResults = {snapFile}
  BY SafeFacts DEF LoadResults
<1>2. /\ op = NoOp /\ m_data' = Capped(snapFile.state) /\ m_epoch' = FenceEpoch(snapFile)
      /\ WalkStart(snapFile.epoch, TRUE) /\ op'.call \in {"construct", "recover"}
      /\ UNCHANGED diskVars
      /\ UNCHANGED <<snapFile, snapOld, tmpSynced, save_pc, image, journal>>
  BY <1>1 DEF recover, snapVars, ghostVars
<1>3. /\ save_pc = "none" /\ wal_pc' = "walking" /\ wal_pc \in {"open", "ready"}
  BY <1>2, CallFacts DEF WalkStart
<1>4. walFile # <<>> /\ walFile[1] = Header /\ Len(walFile) \in Nat \ {0}
  BY <1>3, EmptySeq DEF LogInv, AtHead, WholeLog, GoodLog, Typed, WALTypeOK
<1>5. walk'.pos = 2 /\ walk'.minEpoch = snapFile.epoch /\ walk'.truncate = TRUE
  BY <1>2, <1>4 DEF WalkStart
<1>6. CallsInProgress'
  BY <1>2, <1>3 DEF CallsInProgress
<1>7. ~Rotating' /\ ~Covered'
  BY <1>2, <1>3 DEF Rotating, Covered
<1>8. OnDisk' \subseteq OnDisk
  BY <1>2, SyncOnDisk
<1>9. EpochsFence'
  <2>1. m_epoch' = snapFile.epoch + 1
    BY <1>2 DEF FenceEpoch
  <2> QED
    BY <1>2, <1>3, <1>7, <1>8, <2>1, FenceKept
<1>10. ImageInPlace'
  BY <1>2, <1>3, <1>7, ImageAtRest
<1>11. MapInStep'
  <2>1. snapFile \in SnapSurvivors /\ Image(snapFile) /\ LogFile(walFile)
    BY DiskFacts DEF SnapSurvivors
  <2>2. m_data' = snapFile.state
    BY <1>2, <2>1 DEF ImageInPlace
  <2>3. Recovering(snapFile, walFile)[1] = snapFile.state
    <3>1. 1 \in 1..Len(walFile)
      BY <1>4
    <3>2. /\ Recovering(snapFile, walFile)[0] = snapFile.state
          /\ Recovering(snapFile, walFile)[1]
               = Turn(snapFile, Recovering(snapFile, walFile)[1 - 1], walFile[1])
      BY <2>1, <3>1, RecoveringFacts
    <3> QED
      BY <1>4, <3>2, CellFacts DEF Turn
  <2>4. walFile' = walFile /\ walk'.pos - 1 = 1
    BY <1>2, <1>5 DEF diskVars
  <2> QED
    BY <1>2, <1>3, <1>5, <2>2, <2>3, <2>4 DEF MapInStep, Idle, NoOp
<1>12. DiskCurrent' /\ PowerCutKeepsPromise'
  BY <1>2, BlankDisk DEF SnapSurvivors
<1> QED
  BY <1>6, <1>9, <1>10, <1>11, <1>12 DEF Kept

(* A verified entry of a later epoch than the image's is replayed. *)
LEMMA RecoverEntryKeeps ==
    ASSUME Inv, DurabilitySafe, RecoverEntry
    PROVE  Kept'
<1> USE InvParts
<1>0. ChainSafe
  BY SafeFacts
<1>1. /\ WalkEntry /\ UNCHANGED <<op, journal, snapFile, snapOld, tmpSynced, save_pc, image>>
      /\ m_data' = IF Visited THEN Replay(m_data, walFile[walk.pos].body) ELSE m_data
  BY DEF RecoverEntry, snapVars, ghostVars
<1>2. /\ wal_pc = "walking" /\ wal_pc' = "walking" /\ m_epoch' = m_epoch
      /\ UNCHANGED diskVars
      /\ walk'.pos = walk.pos + 1 /\ walk'.minEpoch = walk.minEpoch
      /\ walk'.truncate = walk.truncate
  BY <1>1 DEF WalkEntry, handleVars, Typed, WALTypeOK, WalkLocals
<1>3. walk.pos \in 2..Len(walFile) /\ walFile[walk.pos].kind = "entry" /\ Len(walFile) \in Nat
  BY <1>0, <1>1, WalkCell, DiskFacts DEF WalkEntry, Typed, GoodEntry
<1>4. save_pc = "none" /\ op.call \in {"construct", "recover"}
  BY <1>2, CallFacts
<1>5. CallsInProgress'
  BY <1>1, <1>2, <1>4 DEF CallsInProgress
<1>6. ~Rotating' /\ ~Covered'
  BY <1>1, <1>2, <1>4 DEF Rotating, Covered
<1>7. OnDisk' \subseteq OnDisk
  BY <1>2, SyncOnDisk
<1>8. EpochsFence'
  <2>1. m_epoch' = snapFile.epoch + 1
    BY <1>2, <1>4 DEF EpochsFence
  <2> QED
    BY <1>1, <1>4, <1>6, <1>7, <2>1, FenceKept
<1>9. ImageInPlace'
  BY <1>1, <1>4, <1>6, ImageAtRest
<1>10. MapInStep'
  <2>1. snapFile \in SnapSurvivors /\ Image(snapFile) /\ LogFile(walFile)
    BY DiskFacts DEF SnapSurvivors
  <2>2. walk.pos \in 1..Len(walFile) /\ (walk.pos + 1) - 1 = walk.pos
    BY <1>3
  <2>3. Recovering(snapFile, walFile)[walk.pos]
          = Turn(snapFile, Recovering(snapFile, walFile)[walk.pos - 1], walFile[walk.pos])
    BY <2>1, <2>2, RecoveringFacts
  <2>4. /\ walk.minEpoch = snapFile.epoch /\ walk.truncate
        /\ m_data = Recovering(snapFile, walFile)[walk.pos - 1]
    BY <1>2 DEF MapInStep
  <2>5. m_data' = Recovering(snapFile, walFile)[walk.pos]
    BY <1>1, <1>3, <2>3, <2>4 DEF Turn, Visited
  <2>6. walFile' = walFile
    BY <1>2 DEF diskVars
  <2> QED
    BY <1>1, <1>2, <1>4, <2>2, <2>4, <2>5, <2>6 DEF MapInStep, Idle, NoOp
<1>11. DiskCurrent' /\ PowerCutKeepsPromise'
  BY <1>1, <1>2, BlankDisk DEF SnapSurvivors
<1> QED
  BY <1>5, <1>8, <1>9, <1>10, <1>11 DEF Kept

(* recover() returns: the map is what the disk gives, torn bytes or none.  *)
LEMMA RecoverReturnKeeps ==
    ASSUME Inv, DurabilitySafe, RecoverReturn
    PROVE  Kept'
<1> USE InvParts
<1>0. /\ ChainSafe /\ DiskLogs /\ DiskTypeOK /\ LogFile(walFile) /\ Len(walFile) \in Nat
      /\ \A snap \in SnapSurvivors : Image(snap)
  BY SafeFacts, DiskFacts
<1>1. /\ WalkEnd \/ WalkTorn
      /\ op' = NoOp
      /\ UNCHANGED <<m_data, journal, snapFile, snapOld, tmpSynced, save_pc, image>>
  BY DEF RecoverReturn, snapVars, ghostVars
<1>2. wal_pc = "walking"
  BY <1>1 DEF WalkEnd, WalkTorn
<1>3. /\ save_pc = "none" /\ walk.truncate
      /\ m_data = Recovering(snapFile, walFile)[walk.pos - 1]
  BY <1>2, CallFacts DEF MapInStep
<1>4. wal_pc' = "ready" /\ m_epoch' = m_epoch
  BY <1>1, <1>3 DEF WalkEnd, WalkTorn, ReturnTorn, Adopt
<1>5. snapFile \in SnapSurvivors /\ Image(snapFile)
  BY <1>0 DEF SnapSurvivors
<1>6. /\ DiskCurrent' /\ PowerCutKeepsPromise' /\ OnDisk' \subseteq OnDisk
      /\ m_data = Recoverable(snapFile, walFile)
  <2>1. CASE WalkEnd
    <3>1. walk.pos = Len(walFile) + 1
      BY <1>0, <2>1 DEF WalkEnd, WalkAtEnd, LogInv, WalkVerified
    <3>2. walk.pos - 1 = Len(walFile)
      BY <1>0, <3>1
    <3>3. UNCHANGED diskVars
      BY <2>1 DEF WalkEnd
    <3>4. DiskCurrent' /\ PowerCutKeepsPromise' /\ OnDisk' \subseteq OnDisk
      BY <1>1, <3>3, BlankDisk, SyncOnDisk DEF SnapSurvivors
    <3> QED
      BY <1>3, <3>2, <3>4 DEF Recoverable
  <2>2. CASE WalkTorn
    <3>1. /\ walk.pos \in 2..Len(walFile) /\ walk.pos = Len(walFile) /\ walFile[walk.pos] = Part
      BY <1>0, <2>2, WalkCell DEF WalkTorn, Typed
    <3> DEFINE k == Len(walFile) - 1
    <3>2. k \in 0..Len(walFile) /\ k = walk.pos - 1 /\ Len(walFile) \in 1..Len(walFile)
      BY <1>0, <3>1
    <3>3. VerifiedPrefix = SubSeq(walFile, 1, k)
      BY <1>2, <3>1, <3>2, CutIsWhole DEF Typed
    <3>4. FileTruncateTo(SubSeq(walFile, 1, k))
      <4>1. FileTruncateTo(VerifiedPrefix)
        BY <1>3, <2>2, SafeFacts, Zenon DEF WalkTorn, ReturnTorn
      <4> QED
        BY <3>3, <4>1
    <3>5. walFile' = SubSeq(walFile, 1, k)
      BY <3>4 DEF FileTruncateTo
    <3> HIDE DEF k
    <3>6. ASSUME NEW snap \in SnapSurvivors
          PROVE  /\ Recoverable(snap, SubSeq(walFile, 1, k)) = Recovering(snap, walFile)[k]
                 /\ Recovering(snap, walFile)[k] = Recoverable(snap, walFile)
      <4>1. Image(snap)
        BY <1>0, <3>6
      <4>2. Recoverable(snap, SubSeq(walFile, 1, k)) = Recovering(snap, walFile)[k]
        BY <1>0, <3>2, <4>1, RecoverablePrefix
      <4>3. Recovering(snap, walFile)[Len(walFile)]
              = Turn(snap, Recovering(snap, walFile)[Len(walFile) - 1], walFile[Len(walFile)])
        BY <1>0, <3>2, <4>1, RecoveringFacts
      <4>4. Recovering(snap, walFile)[Len(walFile)] = Recovering(snap, walFile)[k]
        BY <3>1, <4>3, CellFacts DEF Turn, k
      <4> QED
        BY <4>2, <4>4 DEF Recoverable
    <3>7. SnapSurvivors' = SnapSurvivors /\ Last(journal)' = Last(journal)
      BY <1>1 DEF SnapSurvivors, Last
    <3>8. DiskCurrent'
      BY <3>5, <3>6, <3>7 DEF DiskCurrent
    <3>9. ASSUME NEW snap \in SnapSurvivors', NEW g \in Survivors'
          PROVE  \E i \in 1..Len(journal') : Recoverable(snap, g) = Capped(journal'[i])
      <4>1. snap \in SnapSurvivors /\ Image(snap)
        BY <1>0, <3>7, <3>9
      <4>2. \/ Recoverable(snap, g) \in Outcomes(snap)
            \/ Recoverable(snap, g) = Recoverable(snap, SubSeq(walFile, 1, k))
        BY <1>0, <3>2, <3>4, <4>1, TruncateOutcomes
      <4>3. Recoverable(snap, walFile) \in Outcomes(snap)
        BY <1>0, WholeSurvives DEF Outcomes
      <4> QED
        BY <1>1, <3>6, <4>1, <4>2, <4>3, PromiseByOutcome
    <3>10. PowerCutKeepsPromise'
      BY <3>9 DEF PowerCutKeepsPromise
    <3>11. OnDisk' \subseteq OnDisk
      BY <1>0, <3>2, <3>4, TruncateOnDisk
    <3>12. m_data = Recoverable(snapFile, walFile)
      BY <1>3, <1>5, <3>2, <3>6
    <3> QED
      BY <3>8, <3>10, <3>11, <3>12
  <2> QED
    BY <1>1, <2>1, <2>2
<1>7. CallsInProgress'
  BY <1>1, <1>3, <1>4 DEF CallsInProgress
<1>8. ~Rotating' /\ ~Covered'
  BY <1>1, <1>3, <1>4 DEF Rotating, Covered
<1>9. EpochsFence'
  <2>1. m_epoch' = snapFile.epoch + 1
    BY <1>2, <1>3, <1>4 DEF EpochsFence
  <2> QED
    BY <1>1, <1>3, <1>6, <1>8, <2>1, FenceKept
<1>10. ImageInPlace'
  BY <1>1, <1>3, <1>8, ImageAtRest
<1>11. MapInStep'
  <2>1. m_data = Capped(Last(journal))
    BY <1>5, <1>6 DEF DiskCurrent
  <2>2. m_data' = m_data /\ Last(journal)' = Last(journal)
    BY <1>1 DEF Last
  <2> QED
    BY <1>1, <1>4, <2>1, <2>2 DEF MapInStep, NoOp
<1> QED
  BY <1>6, <1>7, <1>9, <1>10, <1>11 DEF Kept

(* A write to the log on an idle engine: every snapshot that may be found  *)
(* is behind the entry, so that recovery replays it.                       *)
LEMMA AppendKeeps ==
    ASSUME Inv, DurabilitySafe, Idle,
           NEW type \in RecordType, NEW key \in Keys, NEW blob \in Blobs, NEW timestamp \in Nat,
           AppendWrite(type, key, blob, timestamp), type = "PUT" => blob # EmptyBlob,
           NEW data \in Contents, Logged(data),
           Capped(data) = Replay(Capped(Last(journal)), NewBody(type, key, blob, timestamp)),
           UNCHANGED snapVars
    PROVE  EpochsFence' /\ ImageInPlace' /\ DiskCurrent' /\ PowerCutKeepsPromise'
<1> USE InvParts
<1>0. /\ DiskLogs /\ DiskTypeOK /\ LogFile(walFile) /\ Len(walFile) \in Nat
      /\ \A snap \in SnapSurvivors : Image(snap)
  BY DiskFacts
<1>1. PICK c \in Cell : /\ FileAppend(c) /\ c.kind = "entry"
                        /\ c.body = NewBody(type, key, blob, timestamp)
                        /\ Loggable(c.body) /\ c.body.epoch = m_epoch
  BY AppendedEntry DEF Typed
<1>2. /\ wal_pc = "ready" /\ op = NoOp /\ save_pc = "none"
      /\ wal_pc' = "appended" /\ m_epoch' = m_epoch
  BY CallFacts DEF Idle, AppendWrite
<1>3. /\ UNCHANGED <<snapFile, snapOld, tmpSynced, save_pc, image>>
      /\ SnapSurvivors' = SnapSurvivors
  BY DEF snapVars, SnapSurvivors
<1>4. m_epoch = snapFile.epoch + 1 /\ m_epoch \in Nat
  BY <1>2 DEF EpochsFence, Typed, WALTypeOK
<1>5. ASSUME NEW snap \in SnapSurvivors
      PROVE  Image(snap) /\ Turn(snap, Recoverable(snap, walFile), c) = Capped(data)
  <2>1. Image(snap) /\ Image(snapFile)
    BY <1>0, <1>5 DEF SnapSurvivors
  <2>2. snap.epoch <= snapFile.epoch
    BY <1>5, <2>1 DEF SnapSurvivors, EpochsFence, Image
  <2>3. c.body.epoch > snap.epoch
    BY <1>1, <1>4, <2>1, <2>2 DEF Image
  <2>4. Recoverable(snap, walFile) = Capped(Last(journal))
    BY <1>5 DEF DiskCurrent
  <2> QED
    BY <1>1, <2>1, <2>3, <2>4 DEF Turn
<1>6. /\ Len(journal') = Len(journal) + 1 /\ Last(journal)' = data
      /\ journal'[Len(journal) + 1] = data
      /\ Len(journal) \in Nat /\ \A i \in 1..Len(journal) : journal'[i] = journal[i]
  <2>1. /\ journal \in Seq(Contents) /\ journal # <<>> /\ Len(journal) \in Nat
    BY DiskFacts DEF Typed, EngineTyped
  <2>2. /\ Len(journal') = Len(journal) + 1 /\ Last(journal)' = data
        /\ \A i \in 1..Len(journal) : journal'[i] = journal[i]
    BY <2>1, JournalLonger
  <2> QED
    BY <2>1, <2>2 DEF Last
<1>7. DiskCurrent'
  <2>1. ASSUME NEW snap \in SnapSurvivors
        PROVE  Recoverable(snap, walFile') = Capped(data)
    <3>1. Recoverable(snap, Append(walFile, c)) = Turn(snap, Recoverable(snap, walFile), c)
      BY <1>0, <1>1, <1>5, RecoverableAppend
    <3> QED
      BY <1>1, <1>5, <3>1 DEF FileAppend
  <2> QED
    BY <1>3, <1>6, <2>1 DEF DiskCurrent
<1>8. ASSUME NEW snap \in SnapSurvivors', NEW g \in Survivors'
      PROVE  \E i \in 1..Len(journal') : Recoverable(snap, g) = Capped(journal'[i])
  <2>1. snap \in SnapSurvivors /\ Image(snap)
    BY <1>0, <1>3
  <2>2. \/ Recoverable(snap, g) \in Outcomes(snap)
        \/ Recoverable(snap, g) = Turn(snap, Recoverable(snap, walFile), c)
    BY <1>0, <1>1, <2>1, AppendOutcomes
  <2>3. CASE Recoverable(snap, g) \in Outcomes(snap)
    <3>1. PICK i \in 1..Len(journal) : Recoverable(snap, g) = Capped(journal[i])
      BY <2>1, <2>3, PromiseByOutcome
    <3>2. i \in 1..Len(journal') /\ journal'[i] = journal[i]
      BY <1>6
    <3> QED
      BY <3>1, <3>2
  <2>4. CASE Recoverable(snap, g) = Turn(snap, Recoverable(snap, walFile), c)
    <3>1. Len(journal) + 1 \in 1..Len(journal')
      BY <1>6
    <3> QED
      BY <1>5, <1>6, <2>1, <2>4, <3>1
  <2> QED
    BY <2>2, <2>3, <2>4
<1>9. PowerCutKeepsPromise'
  BY <1>8 DEF PowerCutKeepsPromise
<1>10. ImageInPlace'
  <2>1. ~Rotating'
    BY <1>2 DEF Rotating
  <2> QED
    BY <1>2, <1>3, <2>1, ImageAtRest
<1>11. EpochsFence'
  <2>1. OnDisk' \subseteq OnDisk \cup {c}
    BY <1>0, <1>1, AppendOnDisk
  <2>2. \A d \in OnDisk' : d.body.epoch <= snapFile'.epoch + 1
    <3>1. \A d \in OnDisk : d.body.epoch <= snapFile.epoch + 1
      BY DEF EpochsFence
    <3>2. c.body.epoch <= snapFile.epoch + 1
      BY <1>1, <1>4
    <3> QED
      BY <1>3, <2>1, <3>1, <3>2
  <2>3. "power" \in Failures => snapOld = {}
    BY <1>2, SafeFacts DEF ImageInPlace
  <2>4. ~Covered'
    BY <1>2, <1>3 DEF Covered, Rotating
  <2>5. \A snap \in snapOld' : snap.epoch <= snapFile'.epoch
    BY <1>3 DEF EpochsFence
  <2> QED
    BY <1>2, <1>3, <1>4, <2>2, <2>3, <2>4, <2>5 DEF EpochsFence
<1> QED
  BY <1>7, <1>9, <1>10, <1>11

(* set(): the record is in the log before it is in the map. *)
LEMMA SetKeeps ==
    ASSUME Inv, DurabilitySafe, NEW key \in Keys, NEW value \in Values,
           NEW duration \in Durations, set(key, value, duration)
    PROVE  Kept'
<1> USE InvParts
<1> DEFINE record == [value |-> value, duration |-> duration, timestamp |-> clock + 1]
           blob == serialize(duration, value)
           data == [Last(journal) EXCEPT ![key] = Append(@, record)]
           body == NewBody("PUT", key, blob, clock + 1)
<1>1. /\ Idle /\ AppendWrite("PUT", key, blob, clock + 1)
      /\ op' = [call |-> "set", key |-> key, record |-> record]
      /\ Logged(data) /\ m_data' = m_data /\ UNCHANGED snapVars
  BY DEF set, MayWrite
<1>2. /\ Last(journal) \in Contents /\ clock + 1 \in Nat
      /\ journal \in Seq(Contents) /\ journal # <<>>
  BY DiskFacts, EngineAssumption DEF Typed, EngineTyped
<1>3. record \in Record /\ blob \in Blobs /\ blob # EmptyBlob /\ "PUT" \in RecordType
  <2>1. blob.size = DoubleSize + ValueSize[value] /\ EmptyBlob.size = 0
    BY DEF serialize, EmptyBlob
  <2>2. blob.size # 0
    BY <2>1, SizeAssumption
  <2> QED
    BY <1>2, <2>1, <2>2 DEF Record, Blobs, RecordType
<1>4. /\ body.type = "PUT" /\ body.key = key /\ body.timestamp = clock + 1
      /\ body.blob = serialize(duration, value)
  BY DEF NewBody
<1> HIDE DEF body
<1>5. Replay(Capped(Last(journal)), body) = appendCapped(Capped(Last(journal)), key, record)
  BY <1>4, ReplayPut
<1> HIDE DEF record
<1>6. Capped(data) = appendCapped(Capped(Last(journal)), key, record)
  BY <1>2, <1>3, CappedPut
<1>7. data \in Contents
  BY <1>2, <1>3, OperationTypes
<1> HIDE DEF blob, data
<1>8. EpochsFence' /\ ImageInPlace' /\ DiskCurrent' /\ PowerCutKeepsPromise'
  <2>1. Capped(data) = Replay(Capped(Last(journal)), NewBody("PUT", key, blob, clock + 1))
    BY <1>5, <1>6 DEF body
  <2> QED
    BY <1>1, <1>2, <1>3, <1>7, <2>1, AppendKeeps
<1>9. save_pc = "none" /\ save_pc' = "none" /\ wal_pc' = "appended"
  BY <1>1, CallFacts DEF Idle, AppendWrite, snapVars
<1>10. op'.call = "set" /\ op'.key = key /\ op'.record = record
  BY <1>1
<1>11. CallsInProgress'
  BY <1>9, <1>10 DEF CallsInProgress
<1>12. MapInStep'
  <2>1. m_data = Capped(Last(journal))
    BY <1>1 DEF MapInStep
  <2>2. Last(journal)' = data
    BY <1>1, <1>2, <1>7, JournalLonger
  <2> QED
    BY <1>1, <1>3, <1>6, <1>9, <1>10, <2>1, <2>2 DEF MapInStep, Idle, NoOp
<1> QED
  BY <1>8, <1>11, <1>12 DEF Kept

(* remove() *)
LEMMA RemoveKeeps ==
    ASSUME Inv, DurabilitySafe, NEW key \in Keys, remove(key)
    PROVE  Kept'
<1> USE InvParts
<1> DEFINE data == [Last(journal) EXCEPT ![key] = <<>>]
           body == NewBody("DELETE", key, EmptyBlob, clock + 1)
<1>1. /\ Idle /\ AppendWrite("DELETE", key, EmptyBlob, clock + 1)
      /\ op' = [call |-> "remove", key |-> key]
      /\ Logged(data) /\ m_data' = m_data /\ UNCHANGED snapVars
  BY DEF remove, MayWrite
<1>2. /\ Last(journal) \in Contents /\ clock + 1 \in Nat
      /\ journal \in Seq(Contents) /\ journal # <<>>
  BY DiskFacts, EngineAssumption DEF Typed, EngineTyped
<1>3. EmptyBlob \in Blobs /\ "DELETE" \in RecordType
  BY DEF Blobs, RecordType
<1>4. body.type # "PUT" /\ body.key = key
  BY DEF NewBody
<1> HIDE DEF body
<1>5. Replay(Capped(Last(journal)), body) = erase(Capped(Last(journal)), key)
  BY <1>4, ReplayDelete
<1>6. Capped(data) = erase(Capped(Last(journal)), key)
  BY <1>2, CappedErase
<1>7. data \in Contents
  BY <1>2, OperationTypes
<1> HIDE DEF data
<1>8. EpochsFence' /\ ImageInPlace' /\ DiskCurrent' /\ PowerCutKeepsPromise'
  <2>1. Capped(data) = Replay(Capped(Last(journal)), NewBody("DELETE", key, EmptyBlob, clock + 1))
    BY <1>5, <1>6 DEF body
  <2> QED
    BY <1>1, <1>2, <1>3, <1>7, <2>1, AppendKeeps
<1>9. save_pc = "none" /\ save_pc' = "none" /\ wal_pc' = "appended"
  BY <1>1, CallFacts DEF Idle, AppendWrite, snapVars
<1>10. op'.call = "remove" /\ op'.key = key
  BY <1>1
<1>11. CallsInProgress'
  BY <1>9, <1>10 DEF CallsInProgress
<1>12. MapInStep'
  <2>1. m_data = Capped(Last(journal))
    BY <1>1 DEF MapInStep
  <2>2. Last(journal)' = data
    BY <1>1, <1>2, <1>7, JournalLonger
  <2> QED
    BY <1>1, <1>6, <1>9, <1>10, <2>1, <2>2 DEF MapInStep, Idle, NoOp
<1> QED
  BY <1>8, <1>11, <1>12 DEF Kept

(* Nothing changes that the invariant is about. *)
LEMMA StillKeeps ==
    ASSUME Inv, UNCHANGED vars
    PROVE  Kept'
<1> USE InvParts
<1>1. /\ UNCHANGED diskVars
      /\ UNCHANGED <<wal_pc, m_epoch, walk, op, m_data, journal>>
      /\ UNCHANGED <<snapFile, snapOld, tmpSynced, save_pc, image>>
  BY DEF vars, walVars, handleVars, snapVars, engineVars, ghostVars
<1>2. OnDisk' = OnDisk /\ SnapSurvivors' = SnapSurvivors /\ walFile' = walFile
  BY <1>1 DEF OnDisk, SnapSurvivors, diskVars
<1>3. CallsInProgress' /\ (Rotating' <=> Rotating) /\ (Covered' <=> Covered)
  BY <1>1 DEF CallsInProgress, Rotating, Covered
<1>4. EpochsFence'
  BY <1>1, <1>2, <1>3 DEF EpochsFence
<1>5. ImageInPlace'
  BY <1>1, <1>2, <1>3 DEF ImageInPlace
<1>6. MapInStep'
  BY <1>1, <1>2 DEF MapInStep, Idle, Last
<1>7. DiskCurrent' /\ PowerCutKeepsPromise'
  BY <1>1, <1>2, BlankDisk
<1> QED
  BY <1>3, <1>4, <1>5, <1>6, <1>7 DEF Kept

(* append() throws before anything is written. *)
LEMMA WriteThrowsKeeps ==
    ASSUME Inv, DurabilitySafe, NEW key \in Keys, NEW blob \in Blobs, WriteThrows(key, blob)
    PROVE  Kept'
<1>1. UNCHANGED diskVars /\ UNCHANGED <<wal_pc, handleVars, walk, status>>
  BY SafeFacts, Zenon DEF WriteThrows, AppendWriteFails
<1>2. UNCHANGED <<snapVars, engineVars, ghostVars>>
  BY DEF WriteThrows
<1> QED
  BY <1>1, <1>2, StillKeeps DEF vars, walVars

(* The process ends, with a torn entry at the end of the log or none. *)
LEMMA GoneKeeps ==
    ASSUME Inv, "kill" \in Failures, wal_pc' = "closed", SnapKill, EngineGone,
           FileAppend(Part) \/ UNCHANGED diskVars, journal' = journal
    PROVE  Kept'
<1> USE InvParts
<1>1. op' = NoOp /\ save_pc' = "none" /\ UNCHANGED <<snapFile, snapOld, tmpSynced>>
  BY DEF EngineGone, SnapKill
<1>2. CallsInProgress' /\ MapInStep' /\ ~Rotating' /\ ~Covered'
  BY <1>1, AtRest
<1>3. OnDisk' \subseteq OnDisk
  BY DiskFacts, AppendOnDisk, SyncOnDisk, CellFacts
<1>4. EpochsFence'
  BY <1>1, <1>2, <1>3, FenceKept
<1>5. ImageInPlace'
  BY <1>1, <1>2, ImageAtRest
<1>6. DiskCurrent' /\ PowerCutKeepsPromise'
  BY <1>1, BlankDisk DEF SnapSurvivors
<1> QED
  BY <1>2, <1>4, <1>5, <1>6 DEF Kept

(* A kill inside append()'s write(), and one at any other moment. *)
LEMMA KillKeeps ==
    ASSUME Inv, EngineKill \/ \E key \in Keys, blob \in Blobs : WriteKilled(key, blob)
    PROVE  Kept'
<1>1. CASE EngineKill
  BY <1>1, GoneKeeps DEF EngineKill, Kill, ghostVars
<1>2. ASSUME NEW key \in Keys, NEW blob \in Blobs, WriteKilled(key, blob)
      PROVE  Kept'
  BY <1>2, GoneKeeps DEF WriteKilled, AppendKilled, ghostVars
<1> QED
  BY <1>1, <1>2

(* append() returned, with an fsync() that is a promise or without. *)
LEMMA AcknowledgeKeeps ==
    ASSUME Inv, DurabilitySafe, Acknowledge
    PROVE  Kept'
<1> USE InvParts
<1>1. /\ op.call \in {"set", "remove"} /\ AppendReturn /\ op' = NoOp
      /\ m_data' = IF op.call = "set" THEN appendCapped(m_data, op.key, op.record)
                                      ELSE erase(m_data, op.key)
      /\ UNCHANGED <<snapFile, snapOld, tmpSynced, save_pc, image>>
      /\ SnapSurvivors' = SnapSurvivors
  BY DEF Acknowledge, snapVars, SnapSurvivors
<1>2. wal_pc = "appended" /\ wal_pc' = "ready" /\ m_epoch' = m_epoch /\ save_pc = "none"
  BY <1>1, CallFacts DEF AppendReturn
<1>3. CallsInProgress' /\ ~Rotating' /\ ~Covered'
  BY <1>1, <1>2 DEF CallsInProgress, Rotating, Covered
<1>4. \/ FileSync /\ Promise
      \/ UNCHANGED diskVars /\ journal' = journal
  BY DEF Acknowledge, AppendReturn
<1>5. OnDisk' \subseteq OnDisk
  BY <1>4, SyncOnDisk
<1>6. EpochsFence'
  <2>1. m_epoch' = snapFile.epoch + 1
    BY <1>2 DEF EpochsFence
  <2> QED
    BY <1>1, <1>2, <1>3, <1>5, <2>1, FenceKept
<1>7. ImageInPlace'
  BY <1>1, <1>2, <1>3, ImageAtRest
<1>8. DiskCurrent' /\ PowerCutKeepsPromise'
  BY <1>1, <1>4, SyncPromise, BlankDisk
<1>9. MapInStep'
  <2>1. Last(journal)' = Last(journal)
    BY <1>4, DiskFacts, JournalOfOne DEF Promise, Last
  <2>2. m_data' = Capped(Last(journal))
    BY <1>1 DEF MapInStep
  <2> QED
    BY <1>1, <1>2, <2>1, <2>2 DEF MapInStep, NoOp
<1> QED
  BY <1>3, <1>6, <1>7, <1>8, <1>9 DEF Kept

-----------------------------------------------------------------------------
(* snapshot(): until the rename() everything is as before, *)
LEMMA SaveBeginsKeeps ==
    ASSUME Inv, DurabilitySafe,
           snapshot \/ (SnapshotSaving /\ (SaveWrite \/ SaveSync)) \/ SnapshotThrows
    PROVE  Kept'
<1> USE InvParts
<1>1. /\ UNCHANGED diskVars
      /\ UNCHANGED <<wal_pc, m_epoch, walk, m_data, journal, snapFile, snapOld>>
  <2>1. UNCHANGED walVars /\ m_data' = m_data /\ journal' = journal
    BY DEF snapshot, SnapshotSaving, SnapshotThrows, engineVars, ghostVars
  <2>2. UNCHANGED <<snapFile, snapOld>>
    BY DEF snapshot, save, SaveWrite, SaveSync, SnapshotThrows, SaveFails
  <2> QED
    BY <2>1, <2>2 DEF walVars, handleVars
<1>2. wal_pc = "ready" /\ save_pc \in {"none", "write", "fsync", "rename"}
  BY CallFacts, SafeFacts
  DEF snapshot, SaveWrite, SaveSync, SnapshotThrows, SaveFails, Idle, DurabilitySafe, save
<1>3. /\ save_pc' \in {"none", "write", "fsync", "rename"}
      /\ save_pc' = "rename" => tmpSynced'
      /\ save_pc' # "none" => image' = [epoch |-> m_epoch, state |-> m_data]
      /\ (op' = NoOp /\ save_pc' = "none") \/ (op'.call = "snapshot" /\ save_pc' # "none")
  <2>1. CASE snapshot
    BY <2>1 DEF snapshot, save
  <2>2. CASE SnapshotSaving /\ (SaveWrite \/ SaveSync)
    <3>1. op' = op /\ save_pc # "none"
      BY <2>2 DEF SnapshotSaving, engineVars, SaveWrite, SaveSync
    <3>2. op.call = "snapshot" /\ image = [epoch |-> m_epoch, state |-> m_data]
      BY <3>1, CallFacts DEF ImageInPlace
    <3> QED
      BY <2>2, <3>1, <3>2 DEF SaveWrite, SaveSync
  <2>3. CASE SnapshotThrows
    BY <2>3 DEF SnapshotThrows, SaveFails
  <2> QED
    BY <2>1, <2>2, <2>3
<1>4. m_data = Capped(Last(journal))
  <2>1. op = NoOp \/ op.call = "snapshot"
    BY <1>2 DEF CallsInProgress, Rotating
  <2> QED
    BY <1>2, <2>1 DEF MapInStep, Idle
<1>5. CallsInProgress' /\ ~Rotating' /\ ~Covered'
  BY <1>1, <1>2, <1>3 DEF CallsInProgress, Rotating, Covered
<1>6. EpochsFence'
  <2>1. m_epoch' = snapFile.epoch + 1 /\ OnDisk' \subseteq OnDisk
    BY <1>1, <1>2, SyncOnDisk DEF EpochsFence
  <2> QED
    BY <1>1, <1>3, <1>5, <2>1, FenceKept
<1>7. ImageInPlace'
  <2>1. SnapSurvivors' = SnapSurvivors
    BY <1>1 DEF SnapSurvivors
  <2>2. snapOld # {} => "kill" \in Failures
    BY <1>2 DEF ImageInPlace
  <2> QED
    BY <1>1, <1>3, <1>5, <2>1, <2>2 DEF ImageInPlace
<1>8. MapInStep'
  <2>1. op'.call \in {"none", "snapshot"} /\ wal_pc' = "ready"
    BY <1>1, <1>2, <1>3 DEF NoOp
  <2> QED
    BY <1>1, <1>4, <2>1 DEF MapInStep, Last
<1>9. DiskCurrent' /\ PowerCutKeepsPromise'
  BY <1>1, BlankDisk DEF SnapSurvivors
<1> QED
  BY <1>5, <1>6, <1>7, <1>8, <1>9 DEF Kept

(* An image whose epoch no entry on the disk has passed is what recovery   *)
(* gives, whatever the power loss leaves of the log.                       *)
LEMMA FencedSurvivors ==
    ASSUME Typed, NEW snap, Image(snap), \A c \in OnDisk : c.body.epoch <= snap.epoch,
           NEW f \in Survivors
    PROVE  Recoverable(snap, f) = snap.state
<1>1. LogFile(f) /\ Entries(f) \subseteq OnDisk
  BY DiskFacts, SurvivorEntries
<1>2. \A i \in 1..Len(f) : f[i].kind = "entry" => f[i].body.epoch <= snap.epoch
  BY <1>1 DEF Entries
<1> QED
  BY <1>1, <1>2, RecoverableFenced

(* The epochs of the entries on the disk are numbers. *)
LEMMA EpochsAreNumbers ==
    ASSUME Typed, NEW c \in OnDisk
    PROVE  c.body.epoch \in Nat
<1>1. PICK f \in walOld \cup {walFile} : c \in Entries(f)
  BY DEF OnDisk
<1>2. PICK i \in 1..Len(f) : c = f[i] /\ f[i].kind = "entry"
  BY <1>1 DEF Entries
<1>3. f \in Seq(Cell)
  BY DiskFacts DEF DiskLogs, LogFile
<1>4. c \in Cell
  BY <1>2, <1>3, ElementOfSeq
<1> QED
  BY <1>2, <1>4, CellFacts DEF Body

(* the rename() puts an image in place that fences every entry off,        *)
LEMMA RenameKeeps ==
    ASSUME Inv, DurabilitySafe, SnapshotSaving, SaveRename
    PROVE  Kept'
<1> USE InvParts
<1>1. /\ UNCHANGED diskVars
      /\ UNCHANGED <<wal_pc, m_epoch, walk, op, m_data, journal>>
  BY DEF SnapshotSaving, engineVars, ghostVars, walVars, handleVars
<1>2. /\ save_pc = "rename" /\ save_pc' = "dirfsync" /\ snapFile' = image
      /\ snapOld' = snapOld \cup {snapFile} /\ tmpSynced /\ UNCHANGED <<tmpSynced, image>>
  BY DEF SaveRename, Unreadable, ImageInPlace
<1>3. wal_pc = "ready" /\ op.call = "snapshot"
  BY <1>2, CallFacts
<1>4. /\ image = [epoch |-> m_epoch, state |-> m_data] /\ m_data = Capped(Last(journal))
      /\ m_epoch = snapFile.epoch + 1
  BY <1>2, <1>3 DEF ImageInPlace, MapInStep, EpochsFence
<1>5. /\ \A snap \in SnapSurvivors : Image(snap)
      /\ Image(snapFile) /\ Image(image)
      /\ SnapSurvivors' = SnapSurvivors \cup {image}
  BY <1>2 DEF SnapSurvivors, Typed, SnapTyped
<1>6. OnDisk' = OnDisk /\ Survivors' = Survivors /\ walFile' = walFile
  BY <1>1 DEF OnDisk, Survivors, diskVars
<1>7. CallsInProgress' /\ ~Rotating'
  BY <1>1, <1>2, <1>3 DEF CallsInProgress, Rotating
<1>8. \A c \in OnDisk : c.body.epoch <= image.epoch /\ c.body.epoch \in Nat
  BY <1>4, EpochsAreNumbers DEF EpochsFence
<1>9. EpochsFence'
  <2>1. \A c \in OnDisk' : c.body.epoch <= snapFile'.epoch /\ c.body.epoch <= snapFile'.epoch + 1
    BY <1>2, <1>5, <1>6, <1>8 DEF Image
  <2>2. \A snap \in snapOld' : snap.epoch <= snapFile'.epoch
    <3>1. \A snap \in snapOld : snap.epoch <= snapFile.epoch /\ Image(snap)
      BY <1>5 DEF EpochsFence, SnapSurvivors
    <3>2. image.epoch = snapFile.epoch + 1
      BY <1>4
    <3> QED
      BY <1>2, <1>5, <3>1, <3>2 DEF Image
  <2>3. "power" \in Failures => \A c \in OnDisk', snap \in snapOld' : c.body.epoch <= snap.epoch + 1
    BY <1>2, <1>6 DEF EpochsFence
  <2>4. m_epoch' = snapFile'.epoch
    BY <1>1, <1>2, <1>4
  <2> QED
    BY <1>2, <2>1, <2>2, <2>3, <2>4 DEF EpochsFence
<1>10. Capped(image.state) = image.state
  <2>1. Last(journal) \in Contents /\ m_data \in Contents
    BY DiskFacts DEF Typed, EngineTyped
  <2> QED
    BY <1>4, <2>1, CappedFacts
<1>11. ImageInPlace'
  <2>1. \A snap \in SnapSurvivors' : Capped(snap.state) = snap.state
    BY <1>5, <1>10 DEF ImageInPlace
  <2> QED
    BY <1>1, <1>2, <1>4, <1>7, <2>1 DEF ImageInPlace
<1>12. MapInStep'
  BY <1>1, <1>3, <1>4 DEF MapInStep, Last
<1>13. \A f \in Survivors : Recoverable(image, f) = Capped(Last(journal))
  BY <1>4, <1>5, <1>8, FencedSurvivors
<1>14. DiskCurrent'
  <2>1. walFile \in Survivors /\ Last(journal)' = Last(journal)
    BY <1>1, DiskFacts, WholeSurvives DEF Last
  <2> QED
    BY <1>5, <1>6, <1>13, <2>1 DEF DiskCurrent
<1>15. PowerCutKeepsPromise'
  BY <1>1, <1>5, <1>6, <1>13, LastIsThere DEF PowerCutKeepsPromise
<1> QED
  BY <1>7, <1>9, <1>11, <1>12, <1>14, <1>15 DEF Kept

(* From then on recovery from any log that may be left gives the live      *)
(* contents,                                                               *)
LEMMA CoveredDisk ==
    ASSUME Inv, Covered
    PROVE  /\ Image(snapFile) /\ snapFile.state = m_data /\ m_data = Capped(Last(journal))
           /\ op.call = "snapshot"
           /\ \A f \in Survivors : Recoverable(snapFile, f) = Capped(Last(journal))
<1> USE InvParts
<1>1. op.call = "snapshot"
  BY CallFacts DEF Covered
<1>2. m_data = Capped(Last(journal)) /\ Image(snapFile)
  BY <1>1, DiskFacts DEF MapInStep, SnapSurvivors
<1>3. snapFile.state = m_data
  <2>1. CASE Rotating
    BY <2>1 DEF ImageInPlace
  <2>2. CASE save_pc \in {"dirfsync", "saved"}
    BY <2>2 DEF ImageInPlace
  <2> QED
    BY <2>1, <2>2 DEF Covered
<1>4. \A c \in OnDisk : c.body.epoch <= snapFile.epoch
  BY DEF EpochsFence
<1> QED
  BY <1>1, <1>2, <1>3, <1>4, FencedSurvivors

(* which the fsync() of the directory promises.                            *)
LEMMA SavedKeeps ==
    ASSUME Inv, DurabilitySafe, SnapshotSaved
    PROVE  Kept'
<1> USE InvParts
<1>1. /\ UNCHANGED diskVars
      /\ UNCHANGED <<wal_pc, m_epoch, walk, op, m_data>> /\ Promise
  BY DEF SnapshotSaved, engineVars, walVars, handleVars
<1>2. /\ save_pc = "dirfsync" /\ save_pc' = "saved" /\ UNCHANGED <<snapFile, tmpSynced, image>>
      /\ snapOld' = {} /\ tmpSynced /\ Covered /\ Covered'
  BY DEF SnapshotSaved, SaveDirSync, Unreadable, ImageInPlace, Covered
<1>3. wal_pc = "ready" /\ op.call = "snapshot"
  BY <1>2, CallFacts
<1>4. OnDisk' = OnDisk /\ Survivors' = Survivors /\ walFile' = walFile
  BY <1>1 DEF OnDisk, Survivors, diskVars
<1>5. SnapSurvivors' = {snapFile}
  BY <1>2 DEF SnapSurvivors
<1>6. CallsInProgress' /\ ~Rotating'
  BY <1>1, <1>2, <1>3 DEF CallsInProgress, Rotating
<1>7. EpochsFence'
  <2>1. \A c \in OnDisk : c.body.epoch <= snapFile.epoch + 1 /\ c.body.epoch <= snapFile.epoch
    BY <1>2 DEF EpochsFence
  <2>2. m_epoch = snapFile.epoch
    BY <1>2, <1>3 DEF EpochsFence
  <2> QED
    BY <1>1, <1>2, <1>4, <2>1, <2>2 DEF EpochsFence
<1>8. ImageInPlace'
  BY <1>1, <1>2, <1>5, <1>6 DEF ImageInPlace, SnapSurvivors
<1>9. DiskCurrent' /\ PowerCutKeepsPromise'
  BY <1>1, <1>2, <1>4, <1>5, CoveredDisk, DiskFacts, WholeSurvives, PromiseDisk
<1>10. MapInStep'
  <2>1. Last(journal)' = Last(journal)
    BY <1>1, DiskFacts, JournalOfOne DEF Promise
  <2> QED
    BY <1>1, <1>2, <1>3, <2>1, CoveredDisk DEF MapInStep
<1> QED
  BY <1>6, <1>7, <1>8, <1>9, <1>10 DEF Kept

(* The rotation starts with the epoch after the image's, *)
LEMMA RotateKeeps ==
    ASSUME Inv, DurabilitySafe, SnapshotRotate
    PROVE  Kept'
<1> USE InvParts
<1>1. /\ SaveDone /\ ResetSync /\ UNCHANGED <<op, m_data, walk, journal>>
      /\ m_epoch' = FenceEpoch(image)
  BY DEF SnapshotRotate, ghostVars
<1>2. /\ save_pc = "saved" /\ save_pc' = "none" /\ UNCHANGED <<snapFile, snapOld, tmpSynced>>
      /\ snapOld = {} /\ snapFile = image /\ Covered
  BY <1>1 DEF SaveDone, ImageInPlace, Covered
<1>3. /\ wal_pc = "ready" /\ wal_pc' = "resetting" /\ op.call = "snapshot"
  BY <1>1, <1>2, CallFacts DEF ResetSync
<1>4. FileSync \/ UNCHANGED diskVars
  BY <1>1, Zenon DEF ResetSync
<1>5. OnDisk' \subseteq OnDisk
  BY <1>4, SyncOnDisk
<1>6. CallsInProgress' /\ Rotating' /\ Covered'
  BY <1>1, <1>2, <1>3 DEF CallsInProgress, Rotating, Covered
<1>7. EpochsFence'
  <2>1. m_epoch' = snapFile.epoch + 1
    BY <1>1, <1>2 DEF FenceEpoch
  <2> QED
    BY <1>2, <1>5, <2>1, FenceKept
<1>8. ImageInPlace'
  BY <1>1, <1>2, <1>6, CoveredDisk DEF ImageInPlace, SnapSurvivors
<1>9. MapInStep'
  BY <1>1, <1>2, <1>3, CoveredDisk DEF MapInStep, Last, Idle, NoOp
<1>10. DiskCurrent' /\ PowerCutKeepsPromise'
  BY <1>1, <1>2, <1>4, BlankDisk DEF SnapSurvivors
<1> QED
  BY <1>6, <1>7, <1>8, <1>9, <1>10 DEF Kept

(* and goes on, or ends, with logs that have no later entries. *)
LEMMA RotationKeeps ==
    ASSUME Inv, Rotating, UNCHANGED snapVars, UNCHANGED <<m_data, m_epoch, journal>>,
           OnDisk' \subseteq OnDisk, DiskCurrent', PowerCutKeepsPromise',
           (Rotating' /\ op' = op) \/ (wal_pc' = "ready" /\ op' = NoOp)
    PROVE  Kept'
<1> USE InvParts
<1>1. /\ UNCHANGED <<snapFile, snapOld, tmpSynced, save_pc, image>>
      /\ save_pc = "none" /\ op.call = "snapshot" /\ Covered
  BY CallFacts DEF snapVars, Covered
<1>2. CallsInProgress'
  BY <1>1 DEF CallsInProgress
<1>3. EpochsFence'
  <2>1. m_epoch' = snapFile.epoch + 1
    BY <1>1 DEF EpochsFence, Rotating
  <2> QED
    BY <1>1, <2>1, FenceKept
<1>4. ImageInPlace'
  BY <1>1 DEF ImageInPlace, SnapSurvivors
<1>5. MapInStep'
  <2>1. m_data' = Capped(Last(journal)')
    BY <1>1, CoveredDisk DEF Last
  <2>2. op'.call \in {"none", "snapshot"} /\ wal_pc' # "walking"
    BY <1>1 DEF NoOp, Rotating
  <2> QED
    BY <2>1, <2>2 DEF MapInStep
<1> QED
  BY <1>2, <1>3, <1>4, <1>5 DEF Kept

(* reset(): the cut, *)
LEMMA TruncateKeeps ==
    ASSUME Inv, DurabilitySafe, SnapshotRotating, ResetTruncate
    PROVE  Kept'
<1> USE InvParts
<1>1. /\ UNCHANGED snapVars /\ UNCHANGED <<m_data, m_epoch, op, journal>>
      /\ wal_pc = "resetting" /\ wal_pc' = "truncated" /\ FileTruncateTo(<<>>)
  BY DEF SnapshotRotating, ResetTruncate, engineVars, ghostVars, handleVars
<1>2. Rotating /\ Rotating' /\ Covered
  BY <1>1 DEF Rotating, Covered
<1>3. /\ DiskLogs /\ DiskTypeOK /\ Len(walFile) \in Nat /\ LogFile(walFile)
      /\ \A snap \in SnapSurvivors : Image(snap)
  BY DiskFacts
<1>4. SubSeq(walFile, 1, 0) = <<>> /\ 0 \in 0..Len(walFile)
  BY <1>3, EmptySeq, PrefixFacts DEF LogFile
<1>5. FileTruncateTo(SubSeq(walFile, 1, 0))
  BY <1>1, <1>4
<1>6. OnDisk' \subseteq OnDisk
  BY <1>3, <1>4, <1>5, TruncateOnDisk
<1>7. SnapSurvivors' = {snapFile} /\ SnapSurvivors = {snapFile} /\ Image(snapFile)
  BY <1>1, <1>2, <1>3 DEF SnapSurvivors, snapVars, ImageInPlace
<1>8. Recoverable(snapFile, SubSeq(walFile, 1, 0)) = Capped(Last(journal))
  <2>1. Recoverable(snapFile, SubSeq(walFile, 1, 0)) = Recovering(snapFile, walFile)[0]
    BY <1>3, <1>4, <1>7, RecoverablePrefix
  <2>2. Recovering(snapFile, walFile)[0] = snapFile.state
    BY <1>3, <1>7, RecoveringFacts
  <2> QED
    BY <1>2, <2>1, <2>2, CoveredDisk
<1>9. DiskCurrent'
  <2>1. walFile' = SubSeq(walFile, 1, 0) /\ Last(journal)' = Last(journal)
    BY <1>1, <1>5 DEF FileTruncateTo, Last
  <2> QED
    BY <1>7, <1>8, <2>1 DEF DiskCurrent
<1>10. ASSUME NEW g \in Survivors'
       PROVE  Recoverable(snapFile, g) = Capped(Last(journal))
  <2>1. \/ Recoverable(snapFile, g) \in Outcomes(snapFile)
        \/ Recoverable(snapFile, g) = Recoverable(snapFile, SubSeq(walFile, 1, 0))
    BY <1>3, <1>4, <1>5, <1>7, TruncateOutcomes
  <2> QED
    BY <1>2, <1>8, <2>1, CoveredDisk DEF Outcomes
<1>11. PowerCutKeepsPromise'
  BY <1>1, <1>7, <1>10, LastIsThere DEF PowerCutKeepsPromise
<1> QED
  BY <1>1, <1>2, <1>6, <1>9, <1>11, RotationKeeps

(* the new header, its fsync(), and the failure of the cut. *)
LEMMA ResetKeeps ==
    ASSUME Inv, DurabilitySafe,
           \/ SnapshotRotating /\ ResetHeader
           \/ SnapshotReturn
           \/ RotationThrows
    PROVE  Kept'
<1> USE InvParts
<1>1. /\ UNCHANGED snapVars /\ UNCHANGED <<m_data, journal>>
  BY DEF SnapshotRotating, SnapshotReturn, RotationThrows, engineVars, ghostVars
<1>2. /\ Rotating /\ m_epoch' = m_epoch
      /\ (Rotating' /\ op' = op) \/ (wal_pc' = "ready" /\ op' = NoOp)
      /\ FileAppend(Header) \/ FileSync \/ UNCHANGED diskVars
  <2>1. CASE SnapshotRotating /\ ResetHeader
    BY <2>1 DEF SnapshotRotating, ResetHeader, Rotating, engineVars, handleVars
  <2>2. CASE SnapshotReturn
    BY <2>2 DEF SnapshotReturn, ResetReturn, Rotating
  <2>3. CASE RotationThrows
    <3>1. ResetFails /\ op' = NoOp
      BY <2>3 DEF RotationThrows
    <3>2. /\ wal_pc \in {"resetting", "truncated", "rotated"} /\ wal_pc' = "ready"
          /\ UNCHANGED handleVars /\ UNCHANGED diskVars
      BY <3>1, SafeFacts, Zenon DEF ResetFails
    <3> QED
      BY <3>1, <3>2 DEF Rotating, handleVars
  <2> QED
    BY <2>1, <2>2, <2>3
<1>3. DiskCurrent' /\ PowerCutKeepsPromise'
  BY <1>1, <1>2, BlankDisk DEF SnapSurvivors, snapVars
<1>4. OnDisk' \subseteq OnDisk
  BY <1>2, DiskFacts, AppendOnDisk, SyncOnDisk, CellFacts
<1> QED
  BY <1>1, <1>2, <1>3, <1>4, RotationKeeps

-----------------------------------------------------------------------------
(* The destructor: a flush is a promise unless its failure goes unnoticed. *)
LEMMA ShutdownKeeps ==
    ASSUME Inv, DurabilitySafe, Shutdown
    PROVE  Kept'
<1> USE InvParts
<1>1. /\ Idle /\ CloseFlush /\ wal_pc' = "closed" /\ op' = NoOp
      /\ UNCHANGED <<snapFile, snapOld, tmpSynced, save_pc, image>>
  BY DEF Shutdown, Close, EngineGone, snapVars
<1>2. save_pc = "none" /\ save_pc' = "none" /\ SnapSurvivors' = SnapSurvivors
  BY <1>1, CallFacts DEF Idle, SnapSurvivors
<1>3. \/ FileSync /\ Promise
      \/ (FileSync \/ UNCHANGED diskVars) /\ journal' = journal
  BY Zenon DEF Shutdown, Close, CloseFlush
<1>4. CallsInProgress' /\ MapInStep' /\ ~Rotating' /\ ~Covered'
  BY <1>1, <1>2, AtRest
<1>5. OnDisk' \subseteq OnDisk
  BY <1>3, SyncOnDisk
<1>6. EpochsFence'
  BY <1>1, <1>4, <1>5, FenceKept
<1>7. ImageInPlace'
  BY <1>1, <1>2, <1>4, ImageAtRest
<1>8. DiskCurrent' /\ PowerCutKeepsPromise'
  BY <1>2, <1>3, SyncPromise, BlankDisk
<1> QED
  BY <1>4, <1>6, <1>7, <1>8 DEF Kept

(* A power loss leaves what the next recovery takes for the whole. *)
LEMMA PowerKeeps ==
    ASSUME Inv, DurabilitySafe, NEW snap \in SnapSurvivors, NEW f \in Survivors,
           EnginePowerLoss(snap, f)
    PROVE  Kept'
<1> USE InvParts
<1>1. /\ "power" \in Failures /\ walFile' = f /\ walFloor' = Len(f) /\ walOld' = {}
      /\ wal_pc' = "closed" /\ snapFile' = snap /\ snapOld' = {} /\ save_pc' = "none"
      /\ op' = NoOp
  BY DEF EnginePowerLoss, PowerLoss, SnapPowerLoss, EngineGone
<1>2. CallsInProgress' /\ MapInStep' /\ ~Rotating' /\ ~Covered'
  BY <1>1, AtRest
<1>3. OnDisk' \subseteq OnDisk
  BY PowerOnDisk DEF EnginePowerLoss, Typed
<1>4. SnapSurvivors' = {snap} /\ Survivors' = {f}
  <2>1. f \in Seq(Cell)
    BY DiskFacts DEF LogFile
  <2>2. Prefixes(f, Len(f)) = {f}
    BY <2>1, WholeIsPrefix
  <2> QED
    BY <1>1, <2>2 DEF SnapSurvivors, Survivors
<1>5. EpochsFence'
  <2>1. \A c \in OnDisk : c.body.epoch <= snap.epoch + 1
    BY <1>1 DEF EpochsFence, SnapSurvivors
  <2> QED
    BY <1>1, <1>2, <1>3, <2>1 DEF EpochsFence
<1>6. ImageInPlace'
  BY <1>1, <1>2, <1>4 DEF ImageInPlace
<1>7. \E i \in 1..Len(journal) : Recoverable(snap, f) = Capped(journal[i])
  BY DEF PowerCutKeepsPromise
<1>8. PICK i \in 1..Len(journal) :
        journal' = <<journal[i]>> /\ Capped(journal[i]) = Recoverable(snap, f)
  BY <1>7, PowerJournal
<1>9. Len(journal') = 1 /\ journal'[1] = journal[i] /\ Last(journal)' = journal[i]
  BY <1>8, DiskFacts, JournalOfOne
<1>10. 1 \in 1..Len(journal')
  BY <1>9
<1>11. DiskCurrent' /\ PowerCutKeepsPromise'
  BY <1>1, <1>4, <1>8, <1>9, <1>10 DEF DiskCurrent, PowerCutKeepsPromise
<1> QED
  BY <1>2, <1>5, <1>6, <1>11 DEF Kept

(* Recovery never fails or refuses the engine's own log. *)
LEMMA RecoveryNeverThrows ==
    ASSUME Inv, DurabilitySafe
    PROVE  ~RecoverMisled /\ ~RecoverThrows /\ ~Unwind /\ ~SyncThrows
<1> USE InvParts
<1>1. ~WalkFails /\ ~WalkRefused
  BY SafeFacts, NeverRefused, WalkNeverFails DEF Typed
<1>2. op.call # "unwind"
  BY CallFacts
<1>3. ~AppendSyncFails
  BY SafeFacts, Zenon DEF AppendSyncFails
<1> QED
  BY <1>1, <1>2, <1>3 DEF RecoverMisled, RecoverThrows, Unwind, SyncThrows

(* The invariant holds at the start. *)
LEMMA DurabilityInit == EngineInit => Inv
<1> SUFFICES ASSUME EngineInit PROVE Inv
  OBVIOUS
<1> USE DEF EngineInit, WALInit, SnapInit
<1>1. Typed
  BY TypedInit
<1>2. LogInv
  BY ChainInit
<1>3. CallsInProgress /\ ~Rotating /\ ~Covered
  BY DEF CallsInProgress, Rotating, Covered
<1>4. OnDisk = {} /\ SnapSurvivors = {NoSnapshot}
  <2>1. walOld \cup {walFile} = {<<>>} /\ Entries(<<>>) = {}
    BY DEF Entries
  <2> QED
    BY <2>1 DEF OnDisk, SnapSurvivors
<1>5. EpochsFence
  BY <1>3, <1>4 DEF EpochsFence
<1>6. NoSnapshot.state = NoData /\ Capped(NoData) = NoData /\ Last(journal) = NoData
  <2>1. NoData \in Contents /\ Capped(NoData) = NoData
    BY NoDataFacts, CapAssumption DEF Capped, Newest, NoData, kUnlimitedHistory
  <2> QED
    BY <2>1, JournalOfOne DEF NoSnapshot, Last
<1>7. ImageInPlace
  BY <1>3, <1>4, <1>6 DEF ImageInPlace
<1>8. MapInStep
  BY DEF MapInStep, Idle, NoOp
<1>9. Image(NoSnapshot) /\ LogFile(walFile) /\ Survivors = {<<>>}
  <2>1. Prefixes(<<>>, Len(<<>>)) = {<<>>}
    BY WholeIsPrefix, EmptySeq
  <2> QED
    BY <1>1, <1>4, <2>1, DiskFacts DEF Survivors
<1>10. Recoverable(NoSnapshot, <<>>) = NoData
  <2>1. \A i \in 1..Len(walFile) :
          walFile[i].kind = "entry" => walFile[i].body.epoch <= NoSnapshot.epoch
    OBVIOUS
  <2>2. Recoverable(NoSnapshot, walFile) = NoSnapshot.state
    BY <1>9, <2>1, RecoverableFenced
  <2> QED
    BY <1>6, <2>2
<1>11. DiskCurrent
  BY <1>4, <1>6, <1>10 DEF DiskCurrent
<1>12. PowerCutKeepsPromise
  <2>1. 1 \in 1..Len(journal) /\ journal[1] = NoData
    OBVIOUS
  <2> QED
    BY <1>4, <1>6, <1>9, <1>10, <2>1 DEF PowerCutKeepsPromise
<1> QED
  BY <1>1, <1>2, <1>3, <1>5, <1>7, <1>8, <1>11, <1>12, InvParts

(* Every step keeps the durability parts, *)
LEMMA KeptStep ==
    ASSUME Inv, DurabilitySafe, [EngineNext]_vars
    PROVE  Kept'
<1>1. CASE UNCHANGED vars
  BY <1>1, StillKeeps
<1>2. CASE ConstructWAL \/ recover \/ EngineRecovery \/ RecoverMisled
  BY <1>2, ConstructKeeps, RecoverKeeps, RecoverEntryKeeps, RecoverReturnKeeps,
     RecoveryNeverThrows
  DEF EngineRecovery
<1>3. ASSUME NEW key \in Keys, NEW value \in Values, NEW duration \in Durations,
             set(key, value, duration)
      PROVE  Kept'
  BY <1>3, SetKeeps
<1>4. ASSUME NEW key \in Keys,
             remove(key) \/ \E blob \in Blobs : WriteThrows(key, blob) \/ WriteKilled(key, blob)
      PROVE  Kept'
  BY <1>4, RemoveKeeps, WriteThrowsKeeps, KillKeeps
<1>5. CASE Acknowledge \/ SyncThrows
  BY <1>5, AcknowledgeKeeps, RecoveryNeverThrows
<1>6. CASE snapshot \/ SnapshotSaving \/ SnapshotSaved \/ SnapshotThrows
  BY <1>6, SaveBeginsKeeps, RenameKeeps, SavedKeeps DEF SnapshotSaving
<1>7. CASE SnapshotRotate \/ SnapshotRotating \/ SnapshotReturn \/ RotationThrows
  BY <1>7, RotateKeeps, TruncateKeeps, ResetKeeps DEF SnapshotRotating
<1>8. CASE Shutdown \/ EngineKill
  BY <1>8, ShutdownKeeps, KillKeeps
<1>9. ASSUME NEW snap \in SnapSurvivors, NEW f \in Survivors, EnginePowerLoss(snap, f)
      PROVE  Kept'
  BY <1>9, PowerKeeps
<1> QED
  BY <1>1, <1>2, <1>3, <1>4, <1>5, <1>6, <1>7, <1>8, <1>9 DEF EngineNext, EngineSnapshot

(* and the invariant. *)
LEMMA InvStep ==
    ASSUME Inv, DurabilitySafe, [EngineNext]_vars
    PROVE  Inv'
<1>1. Typed' /\ LogInv'
  BY TypedStep, EngineChain, SafeFacts, InvParts
<1> QED
  BY <1>1, KeptStep, InvParts DEF Kept

(* The inductive invariant of durability: with the failures that           *)
(* DurabilitySafe names, epochs fence replayed entries off, the image in   *)
(* place is that of the live contents and the map is in step with the log. *)
THEOREM Durability ==
    ASSUME DurabilitySafe
    PROVE  EngineSpec => []DurabilityInv
<1>1. Inv /\ [EngineNext]_vars => Inv'
  BY InvStep
<1>2. Inv => DurabilityInv
  BY DEF Inv
<1> QED
  BY <1>1, <1>2, DurabilityInit, PTL DEF EngineSpec

(* What readers see between two calls is what the logged operations give,  *)
(* up to the history cap: set(), remove(), recover(), snapshot()           *)
(* and restarts never let the map and the journal drift apart.             *)
THEOREM LiveContents ==
    ASSUME DurabilitySafe
    PROVE  EngineSpec => []LiveMatchesJournal
<1>1. DurabilityInv => LiveMatchesJournal
  BY DEF DurabilityInv, MapInStep, LiveMatchesJournal
<1> QED
  BY <1>1, Durability, PTL

(* Between two calls the snapshot and the log give the live contents: a    *)
(* restart changes nothing.                                                *)
THEOREM Restart ==
    ASSUME DurabilitySafe
    PROVE  EngineSpec => []LiveIsRecoverable
<1>1. DurabilityInv => LiveIsRecoverable
  BY DEF DurabilityInv, MapInStep, SnapSurvivors, LiveIsRecoverable
<1> QED
  BY <1>1, Durability, PTL

(* A power cut at any moment leaves files from which recovery rebuilds     *)
(* contents that are not older than the last completed fsync() or          *)
(* snapshot().                                                             *)
THEOREM PowerCut ==
    ASSUME DurabilitySafe
    PROVE  EngineSpec => []PowerCutKeepsPromise
<1>1. DurabilityInv => PowerCutKeepsPromise
  BY DEF DurabilityInv
<1> QED
  BY <1>1, Durability, PTL

-----------------------------------------------------------------------------
(* The engine implements DurableStore. *)

(* DurableStore has its own instances of the operators on contents. *)
LEMMA SameOperators ==
    /\ Durable!NoData = NoData
    /\ \A s : Durable!Last(s) = Last(s)
    /\ \A data : Durable!Capped(data) = Capped(data)
BY DEF Durable!NoData, NoData, Durable!Last, Last, Durable!Capped, Durable!Newest,
       Durable!kUnlimitedHistory, Capped, Newest, kUnlimitedHistory

(* When the engine serves, and when it does not. *)
LEMMA ServingFacts ==
    ASSUME CallsInProgress
    PROVE  /\ Serving <=> wal_pc \in {"ready", "appended"} \/ Rotating
           /\ op.call \in {"set", "remove", "snapshot"} => Serving
           /\ wal_pc \in {"closed", "creating", "opening", "open", "walking"} => ~Serving
BY DEF CallsInProgress, Serving, Idle, NoOp, Rotating

(* A step after which the engine does not serve, with nothing lost. *)
LEMMA StopStep ==
    ASSUME ~Serving', journal' = journal \/ Promise
    PROVE  Durable!StoreNext
BY SameOperators DEF Durable!StoreNext, Durable!Stop, Durable!MayPromise, Durable!Promise, Promise

(* A step of a serving engine that shows the last contents. *)
LEMMA AnswerStep ==
    ASSUME Serving, Serving', m_data' = Capped(Last(journal)), journal' = journal \/ Promise
    PROVE  Durable!StoreNext
BY SameOperators
DEF Durable!StoreNext, Durable!Answer, Durable!MayPromise, Durable!Promise, Promise

(* The start of recovery and its turns are hidden, its end is the start of *)
(* the store, with the last contents.                                      *)
LEMMA RecoveryRefines ==
    ASSUME Inv, Inv', DurabilitySafe, ConstructWAL \/ recover \/ EngineRecovery
    PROVE  Durable!StoreNext
<1> USE InvParts
<1>1. CASE ConstructWAL \/ recover \/ RecoverEntry
  <2>1. wal_pc' \in {"closed", "creating", "opening", "open", "walking"} /\ journal' = journal
    <3>1. CASE ConstructWAL
      BY <3>1, Zenon DEF ConstructWAL, ghostVars, WALOpen, OpenEmpty, OpenCreate, OpenCreateFails, OpenSync,
                         OpenSyncFails, OpenExisting, OpenRefused
    <3>2. CASE recover \/ RecoverEntry
      BY <3>2 DEF recover, RecoverEntry, ghostVars, WalkStart, WalkEntry
    <3> QED
      BY <1>1, <3>1, <3>2
  <2>2. ~Serving'
    BY <2>1 DEF CallsInProgress, Serving, Idle, NoOp, Rotating
  <2> QED
    BY <2>1, <2>2, StopStep
<1>2. CASE RecoverReturn
  <2>1. wal_pc = "walking" /\ journal' = journal /\ op' = NoOp
    BY <1>2 DEF RecoverReturn, WalkEnd, WalkTorn, ghostVars
  <2>2. walk.truncate
    BY <2>1 DEF MapInStep
  <2>3. wal_pc' = "ready"
    BY <1>2, <2>2 DEF RecoverReturn, WalkEnd, WalkTorn, ReturnTorn, Adopt
  <2>4. ~Serving /\ Serving'
    BY <2>1, <2>3, ServingFacts DEF Serving, Idle
  <2>5. m_data' = Capped(Last(journal))
    BY <2>1, <2>3 DEF MapInStep, Idle, Last
  <2> QED
    BY <2>1, <2>4, <2>5, SameOperators DEF Durable!StoreNext, Durable!Start
<1> QED
  BY <1>1, <1>2, RecoveryNeverThrows DEF EngineRecovery

(* set() and remove() record the operation, *)
LEMMA WritesRefine ==
    ASSUME Inv, NEW key \in Keys,
           \/ \E value \in Values, duration \in Durations : set(key, value, duration)
           \/ remove(key)
    PROVE  Durable!StoreNext
<1> USE InvParts
<1>1. MayWrite /\ m_data' = m_data /\ op'.call \in {"set", "remove"}
  <2>1. ASSUME NEW value \in Values, NEW duration \in Durations, set(key, value, duration)
        PROVE  MayWrite /\ m_data' = m_data /\ op'.call = "set"
    <3>1. op' = [call |-> "set", key |-> key,
                 record |-> [value |-> value, duration |-> duration, timestamp |-> clock + 1]]
      BY <2>1 DEF set
    <3> QED
      BY <2>1, <3>1 DEF set
  <2>2. remove(key) => MayWrite /\ m_data' = m_data /\ op'.call = "remove"
    BY DEF remove
  <2> QED
    BY <2>1, <2>2
<1>2. Serving /\ Serving'
  BY <1>1 DEF Serving, MayWrite
<1>3. ASSUME NEW value \in Values, NEW duration \in Durations, set(key, value, duration)
      PROVE  Durable!StoreNext
  <2> DEFINE record == [value |-> value, duration |-> duration, timestamp |-> clock + 1]
  <2>1. journal' = Append(journal, [Last(journal) EXCEPT ![key] = Append(@, record)])
    BY <1>3 DEF set, Logged
  <2>2. clock + 1 \in 1..MaxOps
    BY <1>1, EngineAssumption DEF MayWrite, Typed, EngineTyped
  <2>3. Durable!Put(key, record)
    BY <1>1, <1>2, <2>1, SameOperators DEF Durable!Put
  <2> QED
    BY <2>2, <2>3 DEF Durable!StoreNext
<1>4. CASE remove(key)
  <2>1. journal' = Append(journal, [Last(journal) EXCEPT ![key] = <<>>])
    BY <1>4 DEF remove, Logged
  <2>2. Durable!Delete(key)
    BY <1>1, <1>2, <2>1, SameOperators DEF Durable!Delete
  <2> QED
    BY <2>2 DEF Durable!StoreNext
<1> QED
  BY <1>3, <1>4

(* and their return shows it. *)
LEMMA AcknowledgeRefines ==
    ASSUME Inv, Inv', Acknowledge
    PROVE  Durable!StoreNext
<1> USE InvParts
<1>1. op.call \in {"set", "remove"} /\ op' = NoOp /\ wal_pc' = "ready"
  BY DEF Acknowledge, AppendReturn
<1>2. Serving /\ Serving'
  BY <1>1 DEF Serving, Idle
<1>3. journal' = journal \/ Promise
  BY DEF Acknowledge
<1>4. m_data' = Capped(Last(journal))
  BY <1>1 DEF Acknowledge, MapInStep
<1> QED
  BY <1>2, <1>3, <1>4, AnswerStep

(* Every step of snapshot() leaves the contents as they are; one of them   *)
(* promises them.                                                          *)
LEMMA SnapshotRefines ==
    ASSUME Inv, Inv', snapshot \/ EngineSnapshot \/ SnapshotThrows \/ RotationThrows
    PROVE  Durable!StoreNext
<1> USE InvParts
<1>1. m_data' = m_data /\ (journal' = journal \/ Promise)
  BY DEF snapshot, EngineSnapshot, SnapshotSaving, SnapshotSaved, SnapshotRotate,
         SnapshotRotating, SnapshotReturn, SnapshotThrows, RotationThrows, engineVars, ghostVars
<1>2. Idle \/ op.call = "snapshot"
  <2>1. CASE snapshot
    BY <2>1 DEF snapshot
  <2>2. CASE SnapshotSaving \/ SnapshotSaved \/ SnapshotThrows \/ SnapshotRotate
    <3>1. save_pc # "none"
      BY <2>2, SnapAssumption
      DEF SnapshotSaving, SaveWrite, SaveSync, SaveRename, SnapshotSaved, SaveDirSync,
          SnapshotThrows, SaveFails, SnapFailureKinds, SnapshotRotate, SaveDone
    <3> QED
      BY <3>1, CallFacts
  <2>3. CASE SnapshotRotating \/ SnapshotReturn \/ RotationThrows
    <3>1. Rotating
      <4>1. CASE SnapshotRotating \/ SnapshotReturn
        BY <4>1
        DEF SnapshotRotating, SnapshotReturn, ResetTruncate, ResetHeader, ResetReturn, Rotating
      <4>2. CASE RotationThrows
        BY <4>2, Zenon DEF RotationThrows, ResetFails, Rotating
      <4> QED
        BY <2>3, <4>1, <4>2
    <3> QED
      BY <3>1, CallFacts
  <2> QED
    BY <2>1, <2>2, <2>3 DEF EngineSnapshot
<1>3. Serving /\ m_data = Capped(Last(journal))
  BY <1>2 DEF Serving, MapInStep
<1>4. Serving'
  <2>1. wal_pc' \in {"ready"} \/ Rotating'
    <3>1. CASE snapshot \/ SnapshotSaving \/ SnapshotSaved \/ SnapshotThrows
      <4>1. wal_pc' = wal_pc /\ wal_pc = "ready"
        <5>1. wal_pc' = wal_pc
          BY <3>1 DEF snapshot, SnapshotSaving, SnapshotSaved, SnapshotThrows, walVars
        <5>2. save_pc # "none" \/ snapshot
          BY <3>1, SnapAssumption
          DEF SnapshotSaving, SaveWrite, SaveSync, SaveRename, SnapshotSaved, SaveDirSync,
              SnapshotThrows, SaveFails, SnapFailureKinds
        <5> QED
          BY <5>1, <5>2, CallFacts DEF snapshot, Idle
      <4> QED
        BY <4>1
    <3>2. CASE SnapshotRotate \/ SnapshotRotating \/ SnapshotReturn
      <4>1. CASE SnapshotRotate
        BY <4>1, Zenon DEF SnapshotRotate, ResetSync, Rotating
      <4>2. CASE SnapshotRotating \/ SnapshotReturn
        BY <4>2
        DEF SnapshotRotating, SnapshotReturn, ResetTruncate, ResetHeader, ResetReturn, Rotating
      <4> QED
        BY <3>2, <4>1, <4>2
    <3>3. CASE RotationThrows
      BY <3>3, Zenon DEF RotationThrows, ResetFails
    <3> QED
      BY <3>1, <3>2, <3>3 DEF EngineSnapshot
  <2> QED
    BY <2>1 DEF CallsInProgress, Serving, Idle, NoOp, Rotating
<1> QED
  BY <1>1, <1>3, <1>4, AnswerStep

(* The end of the process or of the power goes back to contents of the     *)
(* journal.                                                                *)
LEMMA EndRefines ==
    ASSUME Inv, Inv', Shutdown \/ EngineKill \/ (\E key \in Keys, blob \in Blobs : WriteKilled(key, blob))
                        \/ \E snap \in SnapSurvivors, f \in Survivors : EnginePowerLoss(snap, f)
    PROVE  Durable!StoreNext
<1> USE InvParts
<1>1. CASE Shutdown \/ EngineKill \/ \E key \in Keys, blob \in Blobs : WriteKilled(key, blob)
  <2>1. wal_pc' = "closed" /\ op' = NoOp /\ (journal' = journal \/ Promise)
    BY <1>1, Zenon DEF Shutdown, Close, EngineKill, Kill, WriteKilled, AppendKilled, EngineGone, ghostVars
  <2>2. ~Serving'
    BY <2>1 DEF Serving, Idle, NoOp
  <2> QED
    BY <2>1, <2>2, StopStep
<1>2. ASSUME NEW snap \in SnapSurvivors, NEW f \in Survivors, EnginePowerLoss(snap, f)
      PROVE  Durable!StoreNext
  <2>1. wal_pc' = "closed" /\ op' = NoOp
    BY <1>2 DEF EnginePowerLoss, PowerLoss, EngineGone
  <2>2. ~Serving'
    BY <2>1 DEF Serving, Idle, NoOp
  <2>3. \E i \in 1..Len(journal) : Recoverable(snap, f) = Capped(journal[i])
    BY DEF PowerCutKeepsPromise
  <2>4. \E i \in 1..Len(journal) : journal' = <<journal[i]>>
    BY <1>2, <2>3, PowerJournal
  <2> QED
    BY <2>2, <2>4, SameOperators DEF Durable!StoreNext, Durable!Crash
<1> QED
  BY <1>1, <1>2

(* Every step of the engine is one of the store's, or invisible. *)
LEMMA RefineStep ==
    ASSUME Inv, Inv', DurabilitySafe, [EngineNext]_vars
    PROVE  [Durable!StoreNext]_(Durable!storeVars)
<1>1. ASSUME UNCHANGED <<op, wal_pc, m_data, journal>>
      PROVE  UNCHANGED Durable!storeVars
  BY <1>1 DEF Durable!storeVars, Serving, Idle
<1>2. CASE UNCHANGED vars
  BY <1>1, <1>2 DEF vars, walVars, engineVars, ghostVars
<1>3. ASSUME NEW key \in Keys, NEW blob \in Blobs, WriteThrows(key, blob)
      PROVE  UNCHANGED Durable!storeVars
  BY <1>1, <1>3 DEF WriteThrows, AppendWriteFails, engineVars, ghostVars
<1>4. CASE EngineNext
  BY <1>3, <1>4, RecoveryRefines, WritesRefine, AcknowledgeRefines, SnapshotRefines, EndRefines,
     RecoveryNeverThrows
  DEF EngineNext
<1> QED
  BY <1>2, <1>4

(* The engine implements the store that DurableStore describes: every      *)
(* logging, acknowledging, saving, rotating, crashing and recovering step  *)
(* is one of that store's or invisible to its callers.                     *)
THEOREM EngineIsDurable ==
    ASSUME DurabilitySafe
    PROVE  EngineSpec => ImplementsDurableStore
<1>1. Inv /\ [EngineNext]_vars => Inv'
  BY InvStep
<1>2. EngineInit => Durable!StoreInit
  <2>1. EngineInit => ~Serving /\ journal = <<NoData>>
    BY DEF EngineInit, WALInit, Serving, Idle, NoOp
  <2> QED
    BY <2>1, SameOperators DEF Durable!StoreInit
<1>3. Inv /\ Inv' /\ [EngineNext]_vars => [Durable!StoreNext]_(Durable!storeVars)
  BY RefineStep
<1> QED
  BY <1>1, <1>2, <1>3, DurabilityInit, PTL DEF EngineSpec, ImplementsDurableStore, Durable!StoreSpec

-----------------------------------------------------------------------------
(* What a snapshot() that returns has made of the files, whatever failed   *)
(* before.                                                                 *)

(* The calls in progress when recovery may be refused. *)
CallsOrUnwind ==
    \/ CallsInProgress
    \/ op.call = "unwind" /\ wal_pc \in {"closed", "open", "ready"} /\ save_pc = "none"

(* The image and the log on the way through save() and reset(). *)
ImageOfMap ==
    /\ save_pc # "none" => image.state = m_data
    /\ save_pc \in {"rename", "dirfsync", "saved"} => tmpSynced
    /\ save_pc \in {"dirfsync", "saved"} => snapFile = image
    /\ save_pc = "saved" => snapOld = {}
    /\ Rotating => snapFile.state = m_data /\ snapOld = {}
    /\ wal_pc = "truncated" => walFile = <<>>
    /\ wal_pc = "rotated" => walFile = <<Header>>

(* It holds outside of save() and reset(). *)
LEMMA ImageOutside ==
    ASSUME save_pc' = "none", ~Rotating'
    PROVE  ImageOfMap'
BY DEF ImageOfMap, Rotating

(* The steps of recovery, of the writes and of the end keep it, *)
LEMMA OthersKeepImage ==
    ASSUME Typed, CallsOrUnwind,
           \/ ConstructWAL \/ recover \/ EngineRecovery \/ RecoverMisled
           \/ \E key \in Keys :
                \/ \E value \in Values, duration \in Durations : set(key, value, duration)
                \/ remove(key)
                \/ \E blob \in Blobs : WriteThrows(key, blob) \/ WriteKilled(key, blob)
           \/ Acknowledge \/ SyncThrows \/ Shutdown \/ EngineKill
           \/ \E snap \in SnapSurvivors, f \in Survivors : EnginePowerLoss(snap, f)
    PROVE  CallsOrUnwind' /\ ImageOfMap'
<1>0. /\ walk.back \in {"closed", "open", "ready"} /\ NoOp.call = "none"
      /\ op.call \in {"none", "construct", "recover", "unwind", "set", "remove", "snapshot"}
  BY DEF Typed, WALTypeOK, WalkLocals, NoOp, EngineTyped
<1>1. CASE ConstructWAL
  <2>1. /\ op = NoOp /\ op' = op /\ save_pc' = save_pc
        /\ wal_pc' \in {"closed", "creating", "opening", "open"}
    BY <1>1, Zenon DEF ConstructWAL, snapVars, engineVars, WALOpen, OpenEmpty, OpenCreate, OpenCreateFails,
                       OpenSync, OpenSyncFails, OpenExisting, OpenRefused
  <2>2. save_pc = "none"
    BY <1>0, <2>1 DEF CallsOrUnwind, CallsInProgress
  <2> QED
    BY <2>1, <2>2, ImageOutside DEF CallsOrUnwind, CallsInProgress, Rotating
<1>2. CASE recover
  <2>1. /\ op = NoOp /\ save_pc' = save_pc /\ wal_pc' = "walking"
        /\ op'.call \in {"construct", "recover"}
    BY <1>2 DEF recover, snapVars, WalkStart
  <2>2. save_pc = "none"
    BY <1>0, <2>1 DEF CallsOrUnwind, CallsInProgress
  <2> QED
    BY <2>1, <2>2, ImageOutside DEF CallsOrUnwind, CallsInProgress, Rotating
<1>3. CASE RecoverEntry
  <2>1. wal_pc = "walking" /\ wal_pc' = wal_pc /\ op' = op /\ save_pc' = save_pc
    BY <1>3 DEF RecoverEntry, WalkEntry, snapVars
  <2> QED
    BY <2>1, ImageOutside DEF CallsOrUnwind, CallsInProgress, Rotating
<1>4. CASE RecoverReturn \/ RecoverMisled \/ RecoverThrows
  <2>1. wal_pc = "walking" /\ save_pc' = save_pc
    BY <1>4, Zenon
    DEF RecoverReturn, RecoverMisled, RecoverThrows, WalkEnd, WalkTorn, WalkFails, WalkStatFails,
        WalkReadFails, WalkRefused, snapVars
  <2>2. save_pc = "none" /\ op.call \in {"construct", "recover"}
    BY <2>1 DEF CallsOrUnwind, CallsInProgress, Rotating
  <2>3. wal_pc' = "ready" \/ wal_pc' = walk.back
    BY <1>4, Zenon
    DEF RecoverReturn, RecoverMisled, RecoverThrows, WalkEnd, WalkTorn, WalkFails, WalkStatFails,
        WalkReadFails, WalkRefused, ReturnTorn, Adopt
  <2>4. op' = NoOp \/ op' = [call |-> "unwind"]
    BY <1>4 DEF RecoverReturn, RecoverMisled, RecoverThrows
  <2> QED
    BY <1>0, <2>1, <2>2, <2>3, <2>4, ImageOutside
    DEF CallsOrUnwind, CallsInProgress, Rotating
<1>5. CASE Unwind \/ Shutdown \/ EngineKill
             \/ (\E key \in Keys, blob \in Blobs : WriteKilled(key, blob))
             \/ \E snap \in SnapSurvivors, f \in Survivors : EnginePowerLoss(snap, f)
  <2>1. wal_pc' = "closed" /\ op' = NoOp
    BY <1>5, Zenon
    DEF Unwind, Shutdown, Close, EngineKill, Kill, WriteKilled, AppendKilled, EngineGone,
        EnginePowerLoss, PowerLoss
  <2>2. save_pc' = "none"
    <3>1. CASE Unwind \/ Shutdown
      <4>1. save_pc' = save_pc /\ (op.call = "unwind" \/ op = NoOp)
        BY <3>1 DEF Unwind, Shutdown, Idle, snapVars
      <4> QED
        BY <1>0, <4>1 DEF CallsOrUnwind, CallsInProgress
    <3> QED
      BY <1>5, <3>1, Zenon DEF EngineKill, WriteKilled, EnginePowerLoss, SnapKill, SnapPowerLoss
  <2> QED
    BY <2>1, <2>2, ImageOutside DEF CallsOrUnwind, CallsInProgress, Rotating
<1>6. ASSUME NEW key \in Keys,
             \/ \E value \in Values, duration \in Durations : set(key, value, duration)
             \/ remove(key)
      PROVE  CallsOrUnwind' /\ ImageOfMap'
  <2>1. MayWrite /\ wal_pc' = "appended" /\ UNCHANGED snapVars /\ op'.call \in {"set", "remove"}
    <3>1. ASSUME NEW value \in Values, NEW duration \in Durations, set(key, value, duration)
          PROVE  /\ MayWrite /\ wal_pc' = "appended" /\ UNCHANGED snapVars /\ op'.call = "set"
      <4>1. op' = [call |-> "set", key |-> key,
                   record |-> [value |-> value, duration |-> duration, timestamp |-> clock + 1]]
        BY <3>1 DEF set
      <4>2. MayWrite /\ wal_pc' = "appended" /\ UNCHANGED snapVars
        BY <3>1, Zenon DEF set, AppendWrite
      <4> QED
        BY <4>1, <4>2
    <3>2. ASSUME remove(key)
          PROVE  MayWrite /\ wal_pc' = "appended" /\ UNCHANGED snapVars /\ op'.call = "remove"
      BY <3>2 DEF remove, AppendWrite
    <3> QED
      BY <1>6, <3>1, <3>2
  <2>2. save_pc' = save_pc /\ op = NoOp
    BY <2>1 DEF MayWrite, Idle, snapVars
  <2>3. save_pc = "none"
    BY <1>0, <2>2 DEF CallsOrUnwind, CallsInProgress
  <2> QED
    BY <2>1, <2>2, <2>3, ImageOutside DEF CallsOrUnwind, CallsInProgress, Rotating
<1>7. ASSUME NEW key \in Keys, NEW blob \in Blobs, WriteThrows(key, blob)
      PROVE  CallsOrUnwind' /\ ImageOfMap'
  <2>1. Idle /\ UNCHANGED <<wal_pc, op, save_pc>>
    BY <1>7, Zenon DEF WriteThrows, AppendWriteFails, MayWrite, snapVars, engineVars
  <2>2. op = NoOp /\ wal_pc = "ready"
    BY <2>1 DEF Idle
  <2>3. save_pc = "none"
    BY <1>0, <2>2 DEF CallsOrUnwind, CallsInProgress
  <2> QED
    BY <2>1, <2>2, <2>3, ImageOutside DEF CallsOrUnwind, CallsInProgress, Rotating
<1>8. CASE Acknowledge \/ SyncThrows
  <2>1. /\ op.call \in {"set", "remove"} /\ op' = NoOp /\ wal_pc' = "ready" /\ save_pc' = save_pc
    BY <1>8, Zenon DEF Acknowledge, SyncThrows, AppendReturn, AppendSyncFails, snapVars
  <2>2. save_pc = "none"
    BY <1>0, <2>1 DEF CallsOrUnwind, CallsInProgress
  <2> QED
    BY <2>1, <2>2, ImageOutside DEF CallsOrUnwind, CallsInProgress, Rotating
<1> QED
  BY <1>1, <1>2, <1>3, <1>4, <1>5, <1>6, <1>7, <1>8 DEF EngineRecovery

(* and so do those of snapshot(). *)
LEMMA SnapshotKeepsImage ==
    ASSUME Typed, CallsOrUnwind, ImageOfMap,
           snapshot \/ EngineSnapshot \/ SnapshotThrows \/ RotationThrows
    PROVE  CallsOrUnwind' /\ ImageOfMap'
<1>0. NoOp.call = "none"
  BY DEF NoOp
<1>1. CASE snapshot
  <2>1. /\ UNCHANGED <<wal_pc, m_data>> /\ wal_pc = "ready" /\ save_pc' = "write"
        /\ op'.call = "snapshot" /\ image'.state = m_data
    BY <1>1 DEF snapshot, save, Idle, walVars
  <2> QED
    BY <2>1 DEF CallsOrUnwind, CallsInProgress, ImageOfMap, Rotating
<1>2. CASE SnapshotSaving \/ SnapshotSaved
  <2>1. /\ UNCHANGED <<wal_pc, m_data, op>> /\ save_pc # "none"
        /\ SaveWrite \/ SaveSync \/ SaveRename \/ SaveDirSync
    BY <1>2
    DEF SnapshotSaving, SnapshotSaved, walVars, engineVars, SaveWrite, SaveSync, SaveRename,
        SaveDirSync
  <2>2. wal_pc = "ready" /\ op.call = "snapshot"
    BY <1>0, <2>1 DEF CallsOrUnwind, CallsInProgress
  <2>3. ~Rotating'
    BY <2>1, <2>2 DEF Rotating
  <2> QED
    BY <2>1, <2>2, <2>3
    DEF CallsOrUnwind, CallsInProgress, ImageOfMap, SaveWrite, SaveSync, SaveRename, SaveDirSync,
        Unreadable, Rotating
<1>3. CASE SnapshotThrows
  <2>1. wal_pc' = wal_pc /\ save_pc # "none" /\ save_pc' = "none" /\ op' = NoOp
    BY <1>3, SnapAssumption DEF SnapshotThrows, SaveFails, SnapFailureKinds, walVars
  <2>2. wal_pc = "ready"
    BY <1>0, <2>1 DEF CallsOrUnwind, CallsInProgress
  <2> QED
    BY <2>1, <2>2, ImageOutside DEF CallsOrUnwind, CallsInProgress, Rotating
<1>4. CASE SnapshotRotate
  <2>1. /\ UNCHANGED <<m_data, op, snapFile, snapOld>> /\ save_pc = "saved" /\ save_pc' = "none"
        /\ wal_pc' = "resetting"
    BY <1>4, Zenon DEF SnapshotRotate, SaveDone, ResetSync
  <2>2. op.call = "snapshot"
    BY <1>0, <2>1 DEF CallsOrUnwind, CallsInProgress
  <2> QED
    BY <2>1, <2>2 DEF CallsOrUnwind, CallsInProgress, ImageOfMap, Rotating
<1>5. CASE SnapshotRotating
  <2>1. /\ UNCHANGED <<m_data, op, snapFile, snapOld, save_pc>>
        /\ Rotating /\ wal_pc' \in {"truncated", "rotated"}
        /\ wal_pc' = "truncated" => walFile' = <<>>
        /\ wal_pc' = "rotated" => wal_pc = "truncated" /\ walFile' = Append(walFile, Header)
    BY <1>5
    DEF SnapshotRotating, ResetTruncate, ResetHeader, FileTruncateTo, FileAppend, Rotating,
        engineVars, snapVars
  <2>2. op.call = "snapshot" /\ save_pc = "none"
    BY <1>0, <2>1 DEF CallsOrUnwind, CallsInProgress, Rotating
  <2>3. Append(<<>>, Header) = <<Header>>
    OBVIOUS
  <2> QED
    BY <2>1, <2>2, <2>3 DEF CallsOrUnwind, CallsInProgress, ImageOfMap, Rotating
<1>6. CASE SnapshotReturn \/ RotationThrows
  <2>1. /\ save_pc' = save_pc /\ op' = NoOp /\ wal_pc' = "ready"
        /\ wal_pc \in {"resetting", "truncated", "rotated"}
    BY <1>6, Zenon DEF SnapshotReturn, RotationThrows, ResetReturn, ResetFails, snapVars
  <2>2. save_pc = "none"
    BY <1>0, <2>1 DEF CallsOrUnwind, CallsInProgress
  <2> QED
    BY <2>1, <2>2, ImageOutside DEF CallsOrUnwind, CallsInProgress, Rotating
<1> QED
  BY <1>1, <1>2, <1>3, <1>4, <1>5, <1>6 DEF EngineSnapshot

(* The two together are inductive. *)
LEMMA ImageStep ==
    ASSUME Typed, CallsOrUnwind, ImageOfMap, [EngineNext]_vars
    PROVE  CallsOrUnwind' /\ ImageOfMap'
<1>1. CASE UNCHANGED vars
  <2>1. /\ UNCHANGED <<walFile, wal_pc, op, m_data>>
        /\ UNCHANGED <<snapFile, snapOld, tmpSynced, save_pc, image>>
    BY <1>1 DEF vars, walVars, diskVars, snapVars, engineVars
  <2> QED
    BY <2>1 DEF CallsOrUnwind, CallsInProgress, ImageOfMap, Rotating
<1> QED
  BY <1>1, OthersKeepImage, SnapshotKeepsImage DEF EngineNext

(* When the new log's header is on the disk the image alone gives the live *)
(* contents, and the chain is at its head.                                 *)
LEMMA HealingStep ==
    ASSUME Typed, ImageOfMap, ResetReturn, [EngineNext]_vars
    PROVE  /\ \A snap \in SnapSurvivors', f \in Survivors' : Recoverable(snap, f) = m_data'
           /\ AtHead'
<1>1. /\ wal_pc = "rotated" /\ wal_pc' = "ready" /\ FileSync /\ m_seq' = 0
      /\ m_headHash' = ZeroHash
  BY DEF ResetReturn
<1>2. walFile = <<Header>> /\ snapFile.state = m_data /\ snapOld = {}
  BY <1>1 DEF ImageOfMap, Rotating
<1>3. SnapshotReturn \/ RotationThrows
  <2>1. ~(UNCHANGED vars)
    BY <1>1 DEF vars, walVars
  <2>2. ~ConstructWAL
    BY <1>1, Zenon DEF ConstructWAL, WALOpen, OpenEmpty, OpenCreate, OpenCreateFails, OpenSync,
                       OpenSyncFails, OpenExisting, OpenRefused
  <2>3. ~recover /\ ~Unwind /\ ~Shutdown
    BY <1>1 DEF recover, WalkStart, Unwind, Shutdown, Close
  <2>4. ~RecoverEntry /\ ~RecoverReturn /\ ~RecoverThrows /\ ~RecoverMisled
    BY <1>1, Zenon
    DEF RecoverEntry, RecoverReturn, RecoverThrows, RecoverMisled, WalkEntry, WalkEnd, WalkTorn,
        WalkRefused, WalkFails, WalkStatFails, WalkReadFails
  <2>5. ~MayWrite /\ ~snapshot
    BY <1>1 DEF MayWrite, Idle, snapshot
  <2>6. ASSUME NEW key \in Keys
        PROVE  /\ \A value \in Values, duration \in Durations : ~set(key, value, duration)
               /\ ~remove(key)
               /\ \A blob \in Blobs : ~WriteThrows(key, blob) /\ ~WriteKilled(key, blob)
    BY <2>5, Zenon DEF set, remove, WriteThrows, WriteKilled
  <2>7. ~Acknowledge /\ ~SyncThrows
    BY <1>1, Zenon DEF Acknowledge, SyncThrows, AppendReturn, AppendSyncFails
  <2>8. ~SnapshotSaving /\ ~SnapshotSaved /\ ~SnapshotThrows
    BY <1>1 DEF SnapshotSaving, SnapshotSaved, SnapshotThrows, walVars
  <2>9. ~SnapshotRotate
    BY <1>1, Zenon DEF SnapshotRotate, ResetSync
  <2>10. ~SnapshotRotating
    BY <1>1 DEF SnapshotRotating, ResetTruncate, ResetHeader
  <2>11. ~EngineKill /\ \A snap \in SnapSurvivors, f \in Survivors : ~EnginePowerLoss(snap, f)
    BY <1>1, Zenon DEF EngineKill, Kill, EnginePowerLoss, PowerLoss
  <2> QED
    BY <2>1, <2>2, <2>3, <2>4, <2>6, <2>5, <2>7, <2>8, <2>9, <2>10, <2>11
    DEF EngineNext, EngineRecovery, EngineSnapshot
<1>4. m_data' = m_data /\ snapFile' = snapFile /\ snapOld' = snapOld
  BY <1>3 DEF SnapshotReturn, RotationThrows, snapVars
<1>5. walFile' = walFile /\ Survivors' = {walFile} /\ SnapSurvivors' = {snapFile}
  BY <1>1, <1>2, <1>4, DiskFacts, SyncSurvivors DEF FileSync, SnapSurvivors
<1>6. Recoverable(snapFile, walFile) = snapFile.state
  <2>1. Image(snapFile) /\ LogFile(walFile)
    BY DiskFacts DEF SnapSurvivors
  <2>2. \A i \in 1..Len(walFile) : walFile[i].kind # "entry"
    BY <1>2, CellFacts
  <2> QED
    BY <2>1, <2>2, RecoverableFenced
<1>7. AtHead'
  <2>1. WholeLog(<<Header>>) /\ PrevHash(<<Header>>, 2) = ZeroHash
    BY DEF WholeLog, PrevHash
  <2> QED
    BY <1>1, <1>2, <1>5, <2>1 DEF AtHead
<1> QED
  BY <1>2, <1>4, <1>5, <1>6, <1>7

(* A snapshot() that returns heals: from then on any power cut leaves      *)
(* files from which recovery rebuilds the live contents, and append() goes *)
(* on from the head of the chain, whatever calls failed before.            *)
THEOREM SnapshotsHeal == EngineSpec => SnapshotHeals
<1>1. EngineInit => Typed /\ CallsOrUnwind /\ ImageOfMap
  <2>1. EngineInit => CallsOrUnwind /\ ImageOfMap
    BY DEF EngineInit, WALInit, SnapInit, CallsOrUnwind, CallsInProgress, ImageOfMap, Rotating
  <2> QED
    BY <2>1, TypedInit
<1>2. (Typed /\ CallsOrUnwind /\ ImageOfMap) /\ [EngineNext]_vars
        => (Typed /\ CallsOrUnwind /\ ImageOfMap)'
  BY TypedStep, ImageStep
<1>3. (Typed /\ CallsOrUnwind /\ ImageOfMap) /\ [EngineNext]_vars
        => [ResetReturn => /\ \A snap \in SnapSurvivors', f \in Survivors' :
                                Recoverable(snap, f) = m_data'
                           /\ AtHead']_vars
  BY HealingStep
<1> QED
  BY <1>1, <1>2, <1>3, PTL DEF EngineSpec, SnapshotHeals

=============================================================================
