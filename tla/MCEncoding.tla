---------------------------- MODULE MCEncoding ----------------------------
(* The sequential algorithms under the two file formats, one subject to a  *)
(* behaviour: the checksum, the hash or the parse of a snapshot.           *)
EXTENDS CRC32, SHA256, SnapshotLoad

VARIABLE subject

EncodingInit ==
    /\ CRCInit /\ SHAInit /\ LoadInit
    /\ subject \in {"crc", "sha", "load"}
    /\ subject = "load" \/ size = 0

EncodingNext ==
    /\ UNCHANGED subject
    /\ \/ subject = "crc" /\ CRCNext /\ UNCHANGED <<shaVars, loadVars>>
       \/ subject = "sha" /\ SHANext /\ UNCHANGED <<crcVars, loadVars>>
       \/ subject = "load" /\ LoadNext /\ UNCHANGED <<crcVars, shaVars>>

EncodingSpec ==
    EncodingInit /\ [][EncodingNext]_<<subject, crcVars, shaVars, loadVars>>

(* The sample messages: a byte is the set of its one bits for the          *)
(* checksum, and a number for the hash, which only copies it.              *)
MCByte(i) == (i - 1) % 256
MCSampleBytes == {{}, {0}, {7}, 0..7}
MCPayloadSizes == {0, 11, 12, 20, 21, 29, 30, 40, 41, 49, 60, 61, 80, 81}

=============================================================================
