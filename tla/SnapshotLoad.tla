---------------------------- MODULE SnapshotLoad ----------------------------
(***************************************************************************)
(* Snapshot::load() once the CRC has matched: the parse of a payload of    *)
(* `size` bytes, with the sizes of the code.  A CRC protects from damage,  *)
(* not from a file that something else wrote, so every count and length    *)
(* that is read is chosen freely.  Of a value only the length is kept; a   *)
(* key has a text too, which tells keys of one length apart.               *)
(***************************************************************************)
EXTENDS Integers, FiniteSetsExt, SequencesExt

CONSTANTS
    PayloadSizes,       \* the sizes of the payloads
    Counts,             \* the counts and lengths read from them
    Texts               \* what the bytes of a key may be

ASSUME PayloadAssumption == PayloadSizes \subseteq Nat /\ Counts \subseteq Nat

VARIABLES
    size,               \* payload.size()
    offset,
    load_pc,            \* what is read next; "accepted" once load() has returned true
    refused,            \* load() has returned false
    field,              \* keyLen or valueLen, once read
    keysLeft,           \* keyCount - i
    recordsLeft,        \* recordCount - j
    reserved,           \* the largest reserve()
    state,              \* image.state: per key, the lengths of its values
    current,            \* the key whose records are read
    merged              \* history variable: the bytes of keys that had come before

loadVars == <<size, offset, load_pc, refused, field, keysLeft, recordsLeft,
              reserved, state, current, merged>>

MIN_RECORD_BYTES == 20      \* timestamp, duration, value length
MIN_KEY_BYTES == 8          \* key length, record count

(* The keys of n bytes: there is one without any. *)
KeysOf(n) == [len : {n}, text : IF n = 0 THEN {""} ELSE Texts]

LoadInit ==
    /\ size \in PayloadSizes
    /\ offset = 0 /\ load_pc = "keyCount" /\ refused = FALSE
    /\ field = 0 /\ keysLeft = 0 /\ recordsLeft = 0 /\ reserved = 0
    /\ state = [k \in {} |-> <<>>] /\ current \in KeysOf(0) /\ merged = 0

Left == size - offset

(* `return false` *)
Refuse ==
    /\ refused' = TRUE
    /\ UNCHANGED <<size, offset, load_pc, field, keysLeft, recordsLeft,
                   reserved, state, current, merged>>

(* readLE32() and readLE64(): n bytes are there, and are passed. *)
ReadLE(n) == Left >= n /\ offset' = offset + n
ReadFails(n) == Left < n /\ Refuse

(* The epoch and the number of keys. *)
ReadKeyCount ==
    /\ load_pc = "keyCount"
    /\ \/ ReadFails(8 + 4)
       \/ /\ ReadLE(8 + 4)
          /\ keysLeft' \in Counts
          /\ load_pc' = "checkKeyCount"
          /\ UNCHANGED <<size, refused, field, recordsLeft, reserved, state, current, merged>>

CheckKeyCount ==
    /\ load_pc = "checkKeyCount"
    /\ \/ keysLeft > Left \div MIN_KEY_BYTES /\ Refuse
       \/ /\ keysLeft <= Left \div MIN_KEY_BYTES
          /\ load_pc' = IF keysLeft = 0 THEN "accepted" ELSE "keyLen"
          /\ UNCHANGED <<size, offset, refused, field, keysLeft, recordsLeft,
                         reserved, state, current, merged>>

ReadKeyLen ==
    /\ load_pc = "keyLen"
    /\ \/ ReadFails(4)
       \/ /\ ReadLE(4)
          /\ field' \in Counts
          /\ load_pc' = "key"
          /\ UNCHANGED <<size, refused, keysLeft, recordsLeft, reserved, state, current, merged>>

TooLong_Never == FALSE
TooLong == field > Left

Skipped_Forgotten == 0
Skipped == field

(* The key's bytes. *)
ReadKey ==
    /\ load_pc = "key"
    /\ \/ TooLong /\ Refuse
       \/ /\ ~TooLong
          /\ offset' = offset + Skipped
          /\ current' \in KeysOf(field)
          /\ load_pc' = "recordCount"
          /\ UNCHANGED <<size, refused, field, keysLeft, recordsLeft, reserved, state, merged>>

ReadRecordCount ==
    /\ load_pc = "recordCount"
    /\ \/ ReadFails(4)
       \/ /\ ReadLE(4)
          /\ recordsLeft' \in Counts
          /\ load_pc' = "checkRecordCount"
          /\ UNCHANGED <<size, refused, field, keysLeft, reserved, state, current, merged>>

(* The next turn of the loop over the keys, or its end. *)
NextKey ==
    /\ keysLeft' = keysLeft - 1
    /\ load_pc' = IF keysLeft = 1 THEN "accepted" ELSE "keyLen"

Impossible_OffByOne(count) == count >= Left \div MIN_RECORD_BYTES
Impossible(count) == count > Left \div MIN_RECORD_BYTES

(* image.state[key] and reserve(); a key that has come before gets its     *)
(* records behind those it has.                                            *)
ReserveRecords ==
    /\ load_pc = "checkRecordCount"
    /\ \/ Impossible(recordsLeft) /\ Refuse
       \/ /\ ~Impossible(recordsLeft)
          /\ merged' = merged + IF current \in DOMAIN state THEN MIN_KEY_BYTES + current.len ELSE 0
          /\ state' = [k \in DOMAIN state \cup {current} |->
                         IF k \in DOMAIN state THEN state[k] ELSE <<>>]
          /\ reserved' = IF recordsLeft > reserved THEN recordsLeft ELSE reserved
          /\ IF recordsLeft = 0 THEN NextKey
             ELSE load_pc' = "record" /\ UNCHANGED keysLeft
          /\ UNCHANGED <<size, offset, refused, field, recordsLeft, current>>

(* The timestamp, the duration and the length of the value. *)
ReadRecord ==
    /\ load_pc = "record"
    /\ \/ ReadFails(8 + 8 + 4)
       \/ /\ ReadLE(8 + 8 + 4)
          /\ field' \in Counts
          /\ load_pc' = "value"
          /\ UNCHANGED <<size, refused, keysLeft, recordsLeft, reserved, state, current, merged>>

(* The value's bytes, and records.push_back(). *)
ReadValue ==
    /\ load_pc = "value"
    /\ \/ TooLong /\ Refuse
       \/ /\ ~TooLong
          /\ offset' = offset + field
          /\ state' = [state EXCEPT ![current] = Append(@, field)]
          /\ recordsLeft' = recordsLeft - 1
          /\ IF recordsLeft = 1 THEN NextKey
             ELSE load_pc' = "record" /\ UNCHANGED keysLeft
          /\ UNCHANGED <<size, refused, field, reserved, current, merged>>

LoadNext ==
    /\ ~refused
    /\ \/ ReadKeyCount \/ CheckKeyCount \/ ReadKeyLen \/ ReadKey
       \/ ReadRecordCount \/ ReserveRecords \/ ReadRecord \/ ReadValue

LoadSpec == LoadInit /\ [][LoadNext]_loadVars

-----------------------------------------------------------------------------
(* The bytes of the payload that save() writes for an image. *)
SavedBytes(img) ==
    LET records(k) == FoldLeft(LAMBDA sum, len : sum + MIN_RECORD_BYTES + len, 0, img[k])
    IN  8 + 4 + MapThenSumSet(LAMBDA k : 4 + k.len + 4 + records(k), DOMAIN img)

(* The fewest bytes that the rest of the payload takes, after all that     *)
(* has been read so far.                                                   *)
KeysAhead ==
    IF load_pc \in {"checkKeyCount", "keyLen"} THEN keysLeft
    ELSE IF load_pc \in {"keyCount", "accepted"} THEN 0
    ELSE keysLeft - 1

RecordsAhead ==
    IF load_pc \in {"checkRecordCount", "record"} THEN recordsLeft
    ELSE IF load_pc = "value" THEN recordsLeft - 1
    ELSE 0

Unfinished ==
    IF load_pc = "keyCount" THEN 8 + 4
    ELSE IF load_pc = "key" THEN field + 4
    ELSE IF load_pc = "recordCount" THEN 4
    ELSE IF load_pc = "value" THEN field
    ELSE 0

Demand == Unfinished + MIN_RECORD_BYTES * RecordsAhead + MIN_KEY_BYTES * KeysAhead

(* Whatever a payload with a good CRC claims, load() never reads past its  *)
(* end, and never reserves room for more records than it could hold.       *)
LoadStaysInBounds ==
    /\ offset <= size
    /\ MIN_RECORD_BYTES * reserved <= size

(* The early checks on counts and lengths refuse a payload only when it    *)
(* is too short for what it has announced.                                 *)
LoadRefusesOnlyShort == refused => Demand > Left

(* The inductive invariant behind the two: the loops' counters have        *)
(* something left to count wherever an item is about to be read.           *)
LoadInv ==
    /\ size \in Nat /\ offset \in Nat /\ field \in Nat
    /\ keysLeft \in Nat /\ recordsLeft \in Nat /\ reserved \in Nat
    /\ refused \in BOOLEAN
    /\ load_pc \in {"keyCount", "checkKeyCount", "keyLen", "key", "recordCount",
                    "checkRecordCount", "record", "value", "accepted"}
    /\ load_pc \notin {"keyCount", "checkKeyCount", "accepted"} => keysLeft >= 1
    /\ load_pc \in {"record", "value"} => recordsLeft >= 1
    /\ LoadStaysInBounds
    /\ LoadRefusesOnlyShort

(* load() reads back what save() writes: the bytes it has consumed when it *)
(* accepts are those that save() writes for the image it has built, and a  *)
(* key that comes again, which save() never writes, costs its length, text *)
(* and record count once more.  Bytes behind them are ignored.             *)
LoadReadsWhatSaveWrites ==
    load_pc = "accepted" => offset = SavedBytes(state) + merged

=============================================================================
