------------------------------ MODULE Records ------------------------------
(***************************************************************************)
(* The data that LiteSpeedStore logs, keeps in memory and snapshots.  A    *)
(* key or a value is an opaque member of a finite set that is told apart   *)
(* only by identity and by its size in bytes, because the size limits of   *)
(* WAL.hpp and StorageEngine.hpp are the only thing the code looks at.     *)
(***************************************************************************)
EXTENDS Integers, Sequences

CONSTANTS
    Keys,               \* keys a client may pass
    Values,             \* values a client may pass
    Durations,          \* durations a client may pass
    KeySize,            \* KeySize[k]: length of key k in bytes
    ValueSize,          \* ValueSize[v]: length of value v in bytes
    kMaxFieldSize,      \* WAL::kMaxFieldSize, the cap on one field of an entry
    DoubleSize          \* sizeof(double)

ASSUME SizeAssumption ==
    /\ KeySize \in [Keys -> Nat]
    /\ ValueSize \in [Values -> Nat]
    /\ kMaxFieldSize \in Nat
    /\ DoubleSize \in 1..kMaxFieldSize

(* RecordType *)
RecordType == {"PUT", "DELETE"}

(* struct Record: what one set() adds to the history of a key. *)
Record == [value : Values, duration : Durations, timestamp : Nat]

(* StorageEngine::kMaxFieldSize: duration and value share one WAL field. *)
kMaxValueSize == kMaxFieldSize - DoubleSize

(* serialize(): the duration's bytes followed by the value's bytes. *)
serialize(duration, value) ==
    [duration |-> duration, value |-> value, size |-> DoubleSize + ValueSize[value]]

(* The "" that remove() logs as the value of a DELETE entry. *)
EmptyBlob == [size |-> 0]

Blobs == {serialize(d, v) : d \in Durations, v \in Values} \cup {EmptyBlob}

(* deserialize(): a blob too short to hold a double reads as (0.0, ""). *)
deserialize_OffByOne(blob) ==
    IF blob.size <= DoubleSize
    THEN [duration |-> 0, value |-> ""]
    ELSE [duration |-> blob.duration, value |-> blob.value]
deserialize(blob) ==
    IF blob.size < DoubleSize
    THEN [duration |-> 0, value |-> ""]
    ELSE [duration |-> blob.duration, value |-> blob.value]

=============================================================================
