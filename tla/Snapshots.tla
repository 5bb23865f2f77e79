------------------------------ MODULE Snapshots ------------------------------
(***************************************************************************)
(* Snapshots of one local path, and restoring them over it, step by step   *)
(* on the file system: each step can fail or be the last before a crash.   *)
(***************************************************************************)
EXTENDS Naturals, FiniteSets

CONSTANTS
    Snaps,        \* ids of snapshots
    NoSnap,
    MaxVersion,   \* bound: versions the user makes of the tree
    MaxMishaps    \* bound: failing operations and crashes

ASSUME SnapshotsAssumption == NoSnap \notin Snaps /\ MaxVersion \in Nat \ {0} /\ MaxMishaps \in Nat

\* What a path can hold: a version of the tree, one still being copied, nothing.
Versions == 1..MaxVersion
Partial  == MaxVersion + 1
Absent   == 0

VARIABLES
    source,    \* SnapshotInfo.Source
    staged,    \* Source.termada-restore
    backup,    \* Source.termada-backup
    payload,   \* per snapshot: its payload directory
    meta,      \* snapshots with a meta.json
    op,        \* what the handler is at, and how the last one ended
    mishaps

snapVars == <<source, staged, backup, payload, meta, op, mishaps>>

NoOp == [pc |-> "idle", snap |-> NoSnap, before |-> Absent, failed |-> FALSE]

SnapInit ==
    /\ source = 1 /\ staged = Absent /\ backup = Absent
    /\ payload = [s \in Snaps |-> Absent] /\ meta = {}
    /\ op = NoOp /\ mishaps = 0

At(pc) == op.pc = pc
OpGoes(pc) == op' = [op EXCEPT !.pc = pc]
Fails == mishaps < MaxMishaps /\ mishaps' = mishaps + 1

\* A restore returns an error: what it found at the path is remembered.
Refuses == op' = [NoOp EXCEPT !.before = op.before, !.failed = TRUE]

\* The risky work the snapshots are for.
Edit ==
    /\ At("idle") /\ source \in 1..(MaxVersion - 1)
    /\ source' = source + 1 /\ op' = NoOp
    /\ UNCHANGED <<staged, backup, payload, meta, mishaps>>

-----------------------------------------------------------------------------
(* SnapshotCreate.                                                         *)

\* copyTree into the payload of a new id.
CreateBegins(s) ==
    /\ At("idle") /\ payload[s] = Absent /\ source # Absent
    /\ payload' = [payload EXCEPT ![s] = Partial]
    /\ op' = [NoOp EXCEPT !.pc = "creating", !.snap = s]
    /\ UNCHANGED <<source, staged, backup, meta, mishaps>>

CreateCopied ==
    /\ At("creating") /\ payload[op.snap] = Partial
    /\ payload' = [payload EXCEPT ![op.snap] = source]
    /\ UNCHANGED <<source, staged, backup, meta, op, mishaps>>

\* meta.json comes last: from now on the snapshot is listed.
CreateListed ==
    /\ At("creating") /\ payload[op.snap] # Partial
    /\ meta' = meta \cup {op.snap}
    /\ op' = NoOp
    /\ UNCHANGED <<source, staged, backup, payload, mishaps>>

CreateFails ==
    /\ At("creating") /\ Fails
    /\ payload' = [payload EXCEPT ![op.snap] = Absent]
    /\ op' = NoOp
    /\ UNCHANGED <<source, staged, backup, meta>>

-----------------------------------------------------------------------------
(* SnapshotRestore.                                                        *)

RestoreBegins(s) ==
    /\ At("idle") /\ s \in meta
    /\ staged' = Partial
    /\ op' = [NoOp EXCEPT !.pc = "staging", !.snap = s, !.before = source]
    /\ UNCHANGED <<source, backup, payload, meta, mishaps>>

StageFails ==
    /\ At("staging") /\ Fails
    /\ staged' = Absent /\ Refuses
    /\ UNCHANGED <<source, backup, payload, meta>>

\* copyTree is done; a backup of an earlier restore goes.
Staged ==
    /\ At("staging")
    /\ staged' = payload[op.snap] /\ backup' = Absent
    /\ OpGoes("staged")
    /\ UNCHANGED <<source, payload, meta, mishaps>>

\* Mutant: the original is deleted, as before the swap was introduced.
SetAside_Deletes ==
    /\ At("staged")
    /\ source' = Absent
    /\ OpGoes("swapping")
    /\ UNCHANGED <<staged, backup, payload, meta, mishaps>>

SetAside ==
    /\ At("staged")
    /\ backup' = source /\ source' = Absent
    /\ OpGoes("swapping")
    /\ UNCHANGED <<staged, payload, meta, mishaps>>

SetAsideFails ==
    /\ At("staged") /\ source # Absent /\ Fails
    /\ staged' = Absent /\ Refuses
    /\ UNCHANGED <<source, backup, payload, meta>>

Swap ==
    /\ At("swapping")
    /\ source' = staged /\ staged' = Absent
    /\ OpGoes("dropping")
    /\ UNCHANGED <<backup, payload, meta, mishaps>>

SwapFails ==
    /\ At("swapping") /\ Fails
    /\ OpGoes("rollback")
    /\ UNCHANGED <<source, staged, backup, payload, meta>>

\* The backup goes back, if there is one and that rename works.
RollBack ==
    /\ At("rollback")
    /\ \/ op.before # Absent /\ source' = backup /\ backup' = Absent /\ UNCHANGED mishaps
       \/ op.before # Absent /\ Fails /\ UNCHANGED <<source, backup>>
       \/ op.before = Absent /\ UNCHANGED <<source, backup, mishaps>>
    /\ staged' = Absent /\ Refuses
    /\ UNCHANGED <<payload, meta>>

DropBackup ==
    /\ At("dropping")
    /\ backup' = Absent /\ op' = NoOp
    /\ UNCHANGED <<source, staged, payload, meta, mishaps>>

\* The daemon dies wherever it is; nothing is cleaned up when it comes back.
CrashMidway ==
    /\ ~At("idle") /\ Fails
    /\ op' = NoOp
    /\ UNCHANGED <<source, staged, backup, payload, meta>>

SnapNext ==
    \/ \E s \in Snaps : CreateBegins(s) \/ RestoreBegins(s)
    \/ Edit \/ CreateCopied \/ CreateListed \/ CreateFails
    \/ StageFails \/ Staged \/ SetAside \/ SetAsideFails \/ Swap \/ SwapFails \/ RollBack \/ DropBackup
    \/ CrashMidway

SnapSpec == SnapInit /\ [][SnapNext]_snapVars

-----------------------------------------------------------------------------
(* Properties.                                                             *)

\* A restore never leaves the user without a complete tree (at the path, set
\* aside, or staged to replace it), one that fails leaves what it found, and
\* what is listed as a snapshot is a complete copy.  One failing step or crash is
\* survived; two may not be (a failed roll back, whose backup the next restore
\* removes before it knows that it will succeed).
OriginalRecoverable ==
    /\ {source, staged, backup} \cap Versions # {}
    /\ op.failed => source = op.before
    /\ \A s \in meta : payload[s] \in Versions
=============================================================================
