------------------------------ MODULE Snapshot ------------------------------
(***************************************************************************)
(* Binary snapshots: persistence::Snapshot, which writes an image to a     *)
(* temporary file and renames it over the previous snapshot.               *)
(*                                                                         *)
(* The encoding is guarded by a CRC and either reads back as the image     *)
(* that was written or does not read at all, so the file at the snapshot   *)
(* path is modelled by what load() makes of it.  The temporary file is     *)
(* never read; all that matters is whether its bytes are on disk when it   *)
(* takes the snapshot's name.                                              *)
(***************************************************************************)
EXTENDS Histories

CONSTANT SnapFailures   \* the calls of save() and load() that may fail

SnapFailureKinds == {"write", "fsync", "rename", "dirfsync", "load"}

ASSUME SnapAssumption == SnapFailures \subseteq SnapFailureKinds

VARIABLES
    snapFile,       \* what load() finds at the snapshot path
    snapOld,        \* what else it may find there after a power loss
    tmpSynced,      \* fsync() of the temporary file has returned
    save_pc,        \* the next system call of save(), "none" outside it
    image           \* save()'s argument

snapVars == <<snapFile, snapOld, tmpSynced, save_pc, image>>

(* load() returned false: no file, a short one or a CRC mismatch. *)
NoSnapshot == [epoch |-> -1, state |-> NoData]

SnapInit ==
    /\ snapFile = NoSnapshot /\ snapOld = {}
    /\ tmpSynced = FALSE
    /\ save_pc = "none"
    /\ image = NoSnapshot

-----------------------------------------------------------------------------
(* Snapshot::save() *)

save(img) ==
    /\ save_pc = "none"
    /\ image' = img
    /\ save_pc' = "write"
    /\ UNCHANGED <<snapFile, snapOld, tmpSynced>>

SaveWrite ==
    /\ save_pc = "write"
    /\ tmpSynced' = FALSE
    /\ save_pc' = "fsync"
    /\ UNCHANGED <<snapFile, snapOld, image>>

SaveSync_Skipped ==
    /\ save_pc = "fsync"
    /\ save_pc' = "rename"
    /\ UNCHANGED <<snapFile, snapOld, tmpSynced, image>>

SaveSync ==
    /\ save_pc = "fsync"
    /\ tmpSynced' = TRUE
    /\ save_pc' = "rename"
    /\ UNCHANGED <<snapFile, snapOld, image>>

(* A file renamed before its bytes are on disk may come back unreadable. *)
Unreadable == IF tmpSynced THEN {} ELSE {NoSnapshot}

SaveRename ==
    /\ save_pc = "rename"
    /\ snapFile' = image
    /\ snapOld' = snapOld \cup {snapFile} \cup Unreadable
    /\ save_pc' = "dirfsync"
    /\ UNCHANGED <<tmpSynced, image>>

(* fsyncParentDir(): the rename is durable, and save() returns true. *)
SaveDirSync ==
    /\ save_pc = "dirfsync"
    /\ snapOld' = Unreadable
    /\ save_pc' = "saved"
    /\ UNCHANGED <<snapFile, tmpSynced, image>>

(* save() returns false at the first call that fails. *)
SaveFails ==
    /\ save_pc \in SnapFailures
    /\ save_pc' = "none"
    /\ image' = NoSnapshot
    /\ UNCHANGED <<snapFile, snapOld, tmpSynced>>

(* save() has returned true to its caller. *)
SaveDone ==
    /\ save_pc = "saved"
    /\ save_pc' = "none"
    /\ image' = NoSnapshot
    /\ UNCHANGED <<snapFile, snapOld, tmpSynced>>

(* Snapshot::load(): the possible results. *)
LoadResults == {snapFile} \cup (IF "load" \in SnapFailures THEN {NoSnapshot} ELSE {})

-----------------------------------------------------------------------------
(* The end of the process, and of the machine's power. *)

SnapKill ==
    /\ save_pc' = "none"
    /\ image' = NoSnapshot
    /\ UNCHANGED <<snapFile, snapOld, tmpSynced>>

SnapSurvivors == snapOld \cup {snapFile}

SnapPowerLoss(survivor) ==
    /\ snapFile' = survivor
    /\ snapOld' = {}
    /\ save_pc' = "none"
    /\ image' = NoSnapshot
    /\ UNCHANGED tmpSynced

=============================================================================
