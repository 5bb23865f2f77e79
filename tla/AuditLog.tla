------------------------------- MODULE AuditLog -------------------------------
(***************************************************************************)
(* The audit log: an active file that is sealed and replaced when it is    *)
(* full, sealed segments that are removed oldest first behind a checkpoint *)
(* that commits to them, and a recovery that verifies the whole chain      *)
(* before the daemon may start.                                            *)
(*                                                                         *)
(* A record is known by a number of its own (its hash), its sequence       *)
(* number and the number of the record before it (prev_hash).  Append      *)
(* holds the mutex throughout, so there is one writer; the daemon can die  *)
(* between any two file operations.  A rename and a removal that happened  *)
(* are assumed to survive, as the code's syncDirectory wants; bytes        *)
(* written but not synced need not.                                        *)
(***************************************************************************)
EXTENDS Integers, Sequences, FiniteSets, SequencesExt

CONSTANTS
    PerSegment,     \* records after which the active file is full (maxBytes)
    MaxSegments,    \* sealed segments retained (maxSegments)
    MaxRecords,     \* bound: records ever written
    MaxAuditCrashes,     \* bound: auditCrashes
    MaxAuditFaults,      \* bound: file operations that fail
    TornTails       \* what an interrupted write may leave: "cut", "unterminated"

ASSUME AuditAssumption ==
    /\ PerSegment \in Nat \ {0} /\ MaxSegments \in Nat \ {0}
    /\ MaxRecords \in Nat /\ MaxAuditCrashes \in Nat /\ MaxAuditFaults \in Nat
    /\ TornTails \subseteq {"cut", "unterminated"}

VARIABLES
    active,     \* lines of the active file, or Missing
    openLine,   \* the active file does not end with a newline
    unsynced,   \* its last line is written but not synced
    segs,       \* sealed segments, oldest first: [order, recs]
    ckpt,       \* retention checkpoint: [through, head]
    mem,        \* Logger.seq and Logger.lastHash
    healthy,    \* Logger.healthy
    at,         \* where Append, rotate, or Open is
    acked,      \* history: records whose Append returned nil
    gone,       \* history: records of removed segments
    number,     \* the numbers given to records so far
    auditCrashes, auditFaults

fileVars == <<active, openLine, unsynced, segs, ckpt>>
auditVars == <<fileVars, mem, healthy, at, acked, gone, number, auditCrashes, auditFaults>>

Garbled == [seq |-> -1, id |-> -1, prev |-> -1]   \* a line that is no JSON record
Missing == <<[seq |-> -2, id |-> -2, prev |-> -2]>>
None    == [through |-> 0, head |-> 0]            \* no checkpoint: genesis

AuditInit ==
    /\ active = Missing /\ openLine = FALSE /\ unsynced = FALSE
    /\ segs = <<>> /\ ckpt = None
    /\ mem = [seq |-> 0, head |-> 0] /\ healthy = FALSE /\ at = "down"
    /\ acked = {} /\ gone = <<>> /\ number = 0 /\ auditCrashes = 0 /\ auditFaults = 0

-----------------------------------------------------------------------------
(* partitionArchivedSegments and verifyAllState.                           *)

\* The segments the checkpoint commits to are the leading ones.
Covered ==
    CHOOSE n \in 0..Len(segs) :
        /\ \A i \in 1..n : segs[i].order <= ckpt.through + 1
        /\ n < Len(segs) => segs[n + 1].order > ckpt.through + 1

Stale    == SubSeq(segs, 1, Covered)
Retained == SubSeq(segs, Covered + 1, Len(segs))

Lines(ss) == FlattenSeq([i \in DOMAIN ss |-> ss[i].recs])

\* verifyChainFile: consecutive numbers, each record chained to the one before.
Chained(recs, seq, head) ==
    \A i \in DOMAIN recs :
        /\ recs[i].seq = seq + i
        /\ recs[i].prev = IF i = 1 THEN head ELSE recs[i - 1].id

Visible == Lines(Retained) \o active

\* Every segment's suffix is the number its successor starts with.
SuffixesMatch ==
    \A i \in DOMAIN Retained : Retained[i].order = ckpt.through + Len(Lines(SubSeq(Retained, 1, i))) + 1

NoFiles == active = Missing /\ Retained = <<>> /\ ckpt = None

Verifies == \/ NoFiles
            \/ active # Missing /\ Chained(Visible, ckpt.through, ckpt.head) /\ SuffixesMatch

LastOf(recs) == IF recs = <<>> THEN [seq |-> ckpt.through, id |-> ckpt.head] ELSE recs[Len(recs)]

-----------------------------------------------------------------------------
(* Open.                                                                   *)

Recover ==
    /\ at = "down"
    /\ IF Verifies
       THEN LET last == LastOf(IF NoFiles THEN <<>> ELSE Visible)
            IN  mem' = [seq |-> last.seq, head |-> last.id] /\ at' = "open_retain"
       ELSE at' = "refused" /\ UNCHANGED mem
    /\ UNCHANGED <<fileVars, healthy, acked, gone, number, auditCrashes, auditFaults>>

\* A mutant: the active file is opened for writing from its start.
OpenFile_Truncates ==
    /\ at = "open"
    /\ active' = <<>>
    /\ healthy' = TRUE /\ at' = "idle"
    /\ UNCHANGED <<openLine, unsynced, segs, ckpt, mem, acked, gone, number, auditCrashes, auditFaults>>

OpenFile ==
    /\ at = "open"
    /\ active' = IF active = Missing THEN <<>> ELSE active
    /\ healthy' = TRUE /\ at' = "idle"
    /\ UNCHANGED <<openLine, unsynced, segs, ckpt, mem, acked, gone, number, auditCrashes, auditFaults>>

-----------------------------------------------------------------------------
(* Append and rotate.                                                      *)

Full == Len(active) >= PerSegment

AppendBegin ==
    /\ at = "idle" /\ healthy /\ number < MaxRecords
    /\ number' = number + 1
    /\ at' = IF Full THEN "rotate" ELSE "write"
    /\ UNCHANGED <<fileVars, mem, healthy, acked, gone, auditCrashes, auditFaults>>

\* A mutant: the sealed segment is a copy, the active file emptied afterwards.
Seal_Copies ==
    /\ at = "rotate"
    /\ segs' = Append(segs, [order |-> mem.seq + 1, recs |-> active])
    /\ at' = "create"
    /\ UNCHANGED <<active, openLine, unsynced, ckpt, mem, healthy, acked, gone, number, auditCrashes, auditFaults>>

Seal ==
    /\ at = "rotate"
    /\ segs' = Append(segs, [order |-> mem.seq + 1, recs |-> active])
    /\ active' = Missing /\ at' = "create"
    /\ UNCHANGED <<openLine, unsynced, ckpt, mem, healthy, acked, gone, number, auditCrashes, auditFaults>>

CreateActive ==
    /\ at = "create"
    /\ active' = <<>> /\ at' = "retain"
    /\ UNCHANGED <<openLine, unsynced, segs, ckpt, mem, healthy, acked, gone, number, auditCrashes, auditFaults>>

\* Retained segments above the limit.
Excess == Len(Retained) - MaxSegments

\* writeArchiveCheckpoint commits to the last record that is to go.
CheckpointOf(pruned) == [through |-> LastOf(pruned).seq, head |-> LastOf(pruned).id]

\* enforceRetentionLocked: the checkpoint first, then the removals.
Checkpoint ==
    /\ at \in {"retain", "open_retain"}
    /\ ckpt' = IF Excess <= 0 THEN ckpt ELSE CheckpointOf(Lines(SubSeq(Retained, 1, Excess)))
    /\ at' = IF at = "retain" THEN "remove" ELSE "open_remove"
    /\ UNCHANGED <<active, openLine, unsynced, segs, mem, healthy, acked, gone, number, auditCrashes, auditFaults>>

RemoveSegment ==
    /\ at \in {"remove", "open_remove"}
    /\ IF Stale = <<>>
       THEN /\ at' = IF at = "remove" THEN "write" ELSE "open"
            /\ UNCHANGED <<segs, gone>>
       ELSE /\ gone' = gone \o Head(Stale).recs
            /\ segs' = Tail(segs)
            /\ UNCHANGED at
    /\ UNCHANGED <<active, openLine, unsynced, ckpt, mem, healthy, acked, number, auditCrashes, auditFaults>>

Record == [seq |-> mem.seq + 1, id |-> number, prev |-> mem.head]

\* A line is appended; after a line without its newline it is lost in it.
Written(rec) == IF openLine THEN [active EXCEPT ![Len(active)] = Garbled] ELSE Append(active, rec)

Write ==
    /\ at = "write"
    /\ active' = Written(Record) /\ openLine' = FALSE /\ unsynced' = TRUE
    /\ at' = "sync"
    /\ UNCHANGED <<segs, ckpt, mem, healthy, acked, gone, number, auditCrashes, auditFaults>>

Sync ==
    /\ at = "sync"
    /\ unsynced' = FALSE
    /\ mem' = [seq |-> mem.seq + 1, head |-> number]
    /\ acked' = acked \cup {Record}
    /\ at' = "idle"
    /\ UNCHANGED <<active, openLine, segs, ckpt, healthy, gone, number, auditCrashes, auditFaults>>

\* What an interrupted write leaves behind.
Torn == {<<active, openLine>>}
        \cup (IF "cut" \in TornTails THEN {<<Written(Garbled), TRUE>>} ELSE {})
        \cup (IF "unterminated" \in TornTails THEN {<<Written(Record), TRUE>>} ELSE {})

\* A mutant: a failed Append does not latch the log.
Fail_Continues ==
    /\ at \in {"rotate", "create", "retain", "remove", "write", "sync"} /\ auditFaults < MaxAuditFaults
    /\ auditFaults' = auditFaults + 1
    /\ at' = "idle"
    /\ \E t \in IF at = "write" THEN Torn ELSE {<<active, openLine>>} : active' = t[1] /\ openLine' = t[2]
    /\ UNCHANGED <<unsynced, segs, ckpt, mem, healthy, acked, gone, number, auditCrashes>>

\* failLocked: whatever step failed, nothing is appended any more.
Fail ==
    /\ at \in {"rotate", "create", "retain", "remove", "write", "sync"} /\ auditFaults < MaxAuditFaults
    /\ auditFaults' = auditFaults + 1
    /\ healthy' = FALSE /\ at' = "idle"
    /\ \E t \in IF at = "write" THEN Torn ELSE {<<active, openLine>>} : active' = t[1] /\ openLine' = t[2]
    /\ UNCHANGED <<unsynced, segs, ckpt, mem, acked, gone, number, auditCrashes>>

Close ==
    /\ at = "idle" /\ healthy
    /\ healthy' = FALSE
    /\ UNCHANGED <<fileVars, mem, at, acked, gone, number, auditCrashes, auditFaults>>

-----------------------------------------------------------------------------
(* The daemon or the machine dies and is started again.                    *)

\* Bytes that were not synced may be lost, whole or in part.
Unsynced == {<<active, FALSE>>, <<Front(active), FALSE>>}
            \cup (IF "cut" \in TornTails THEN {<<Append(Front(active), Garbled), TRUE>>} ELSE {})

Crash ==
    /\ at \notin {"down", "refused"} /\ auditCrashes < MaxAuditCrashes
    /\ auditCrashes' = auditCrashes + 1
    /\ at' = "down" /\ healthy' = FALSE
    /\ \E t \in CASE at = "write" -> Torn
                 [] unsynced     -> Unsynced
                 [] OTHER        -> {<<active, openLine>>} :
          active' = t[1] /\ openLine' = t[2]
    /\ unsynced' = FALSE
    /\ UNCHANGED <<segs, ckpt, mem, acked, gone, number, auditFaults>>

AuditNext ==
    \/ Recover \/ OpenFile
    \/ AppendBegin \/ Seal \/ CreateActive \/ Checkpoint \/ RemoveSegment \/ Write \/ Sync
    \/ Fail \/ Close \/ Crash

AuditSpec == AuditInit /\ [][AuditNext]_auditVars

-----------------------------------------------------------------------------
(* What must hold.                                                         *)

\* A record whose Append succeeded can be read back from the files, or lies
\* in the prefix the checkpoint commits to: across rotations, retention,
\* failures and auditCrashes.
AckedIsKept ==
    \A r \in acked : r.seq <= ckpt.through \/ \E i \in DOMAIN Visible : Visible[i] = r

\* The files of a healthy log verify at every step of Append but the one
\* between the rename and the new file, and the next record continues them.
HealthyVerifies ==
    healthy /\ at \in {"idle", "rotate", "retain", "remove", "write"} =>
        /\ Verifies
        /\ LastOf(Visible).seq = mem.seq /\ LastOf(Visible).id = mem.head

\* Open "recovers the last hash and sequence number so the chain continues
\* correctly across restarts".
RecoverySucceeds == at # "refused"

\* The files as one sequence: removed, sealed, and synced lines of the active one.
Durable == gone \o Lines(segs) \o
           (IF active = Missing THEN <<>> ELSE IF unsynced THEN Front(active) ELSE active)

\* A line that was cut short is not a record.
Records(lines) == IF lines # <<>> /\ Last(lines) = Garbled THEN Front(lines) ELSE lines

Promise == INSTANCE AppendOnlyLog WITH log <- Records(Durable)

\* The log implements an append-only sequence of records: sealing, retention
\* and recovery never reorder, repeat or drop one that reached the disk.
ImplementsAppendOnlyLog == Promise!Spec
===============================================================================
