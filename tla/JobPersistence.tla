--------------------------- MODULE JobPersistence ---------------------------
(***************************************************************************)
(* The on-disk job registry: every change of a job is followed by a call   *)
(* of persist, which writes the live and the recovered records as one file *)
(* that is replaced as a whole; after a crash EnablePersistence reads it   *)
(* back and marks what was running as orphaned.                            *)
(*                                                                         *)
(* A record is its job and whether the job was running, over or orphaned.  *)
(* persist holds persistMu from before its snapshot until its file is in   *)
(* place, and the manager's mutex only for the snapshot.                   *)
(***************************************************************************)
EXTENDS Naturals, Sequences, FiniteSets, Identifiers

CONSTANTS
    RegJobs,
    MaxInMemory,      \* maxJobsInMemory (256 in the code)
    MaxPersisted,     \* maxPersistedJobs (500 in the code)
    MaxRegCrashes,       \* bound: regCrashes
    MaxRegFaults         \* bound: failing reads and writes of the file

ASSUME RegistryAssumption == IsFiniteSet(RegJobs) /\ MaxPersisted \in Nat \ {0}

VARIABLES
    job,        \* Manager.jobs: "new", "running", "over", or "gone" from memory
    recovered,  \* Manager.recovered
    file,       \* the registry file
    calls,      \* calls of persist that are to come
    writing,    \* snapshots taken and not yet in place
    persistOk,    \* persistErr = nil
    up,         \* the daemon runs, with its persistence enabled
    regCrashes, regFaults

regVars == <<job, recovered, file, calls, writing, persistOk, up, regCrashes, regFaults>>

RegistryInit ==
    /\ job = [j \in RegJobs |-> "new"]
    /\ recovered = <<>> /\ file = <<>>
    /\ calls = 0 /\ writing = {} /\ persistOk = TRUE /\ up = FALSE
    /\ regCrashes = 0 /\ regFaults = 0

Listed == {j \in RegJobs : job[j] \in {"running", "over"}}

-----------------------------------------------------------------------------
\* A job is registered, or its watcher sees it end; persist is called next.
StartJob(j) ==
    /\ up /\ job[j] = "new" /\ Cardinality(Listed) < MaxInMemory
    /\ job' = [job EXCEPT ![j] = "running"] /\ calls' = calls + 1
    /\ UNCHANGED <<recovered, file, writing, persistOk, up, regCrashes, regFaults>>

EndJob(j) ==
    /\ up /\ job[j] = "running"
    /\ job' = [job EXCEPT ![j] = "over"] /\ calls' = calls + 1
    /\ UNCHANGED <<recovered, file, writing, persistOk, up, regCrashes, regFaults>>

\* GCOnce forgets finished jobs and does not persist; recovered ones stay.
Collect(j) ==
    /\ up /\ job[j] = "over"
    /\ job' = [job EXCEPT ![j] = "gone"]
    /\ UNCHANGED <<recovered, file, calls, writing, persistOk, up, regCrashes, regFaults>>

\* The live records in the order a map happens to give them.
Orders == {o \in [1..Cardinality(Listed) -> Listed] : \A i, k \in DOMAIN o : o[i] = o[k] => i = k}
Live(o) == [i \in DOMAIN o |-> [job |-> o[i], status |-> job[o[i]]]]

\* Above the cap the last records are kept, and live jobs come first.
Capped(infos) ==
    IF Len(infos) > MaxPersisted THEN SubSeq(infos, Len(infos) - MaxPersisted + 1, Len(infos)) ELSE infos

\* A mutant: persistMu is taken for the write only.
Snapshot_Unserialized ==
    /\ up /\ calls > 0
    /\ calls' = calls - 1
    /\ \E o \in Orders : writing' = writing \cup {Capped(Live(o) \o recovered)}
    /\ UNCHANGED <<job, recovered, file, persistOk, up, regCrashes, regFaults>>

Snapshot ==
    /\ up /\ calls > 0 /\ writing = {}
    /\ calls' = calls - 1
    /\ \E o \in Orders : writing' = {Capped(Live(o) \o recovered)}
    /\ UNCHANGED <<job, recovered, file, persistOk, up, regCrashes, regFaults>>

\* writeAtomic: the rename puts the whole file in place.
WriteFile ==
    /\ up
    /\ \E infos \in writing : file' = infos /\ writing' = writing \ {infos}
    /\ persistOk' = TRUE
    /\ UNCHANGED <<job, recovered, calls, up, regCrashes, regFaults>>

WriteFails ==
    /\ up /\ regFaults < MaxRegFaults
    /\ \E infos \in writing : writing' = writing \ {infos}
    /\ persistOk' = FALSE /\ regFaults' = regFaults + 1
    /\ UNCHANGED <<job, recovered, file, calls, up, regCrashes>>

-----------------------------------------------------------------------------
DaemonDies ==
    /\ up /\ regCrashes < MaxRegCrashes
    /\ up' = FALSE /\ regCrashes' = regCrashes + 1
    /\ job' = [j \in RegJobs |-> IF j \in Listed THEN "gone" ELSE job[j]]
    /\ recovered' = <<>> /\ calls' = 0 /\ writing' = {}
    /\ UNCHANGED <<file, persistOk, regFaults>>

\* EnablePersistence: what was running is orphaned, the rest is history.
Orphaned(r) == IF r.status = "running" THEN [r EXCEPT !.status = "orphaned"] ELSE r

EnablePersistence ==
    /\ ~up
    /\ up' = TRUE
    /\ \/ /\ recovered' = [i \in DOMAIN file |-> Orphaned(file[i])]
          /\ persistOk' = TRUE /\ UNCHANGED regFaults
       \/ /\ regFaults < MaxRegFaults /\ regFaults' = regFaults + 1
          /\ persistOk' = FALSE /\ UNCHANGED recovered
    /\ UNCHANGED <<job, file, calls, writing, regCrashes>>

RegistryNext ==
    \/ \E j \in Fresh({j \in RegJobs : job[j] = "new"}) : StartJob(j)
    \/ \E j \in RegJobs : EndJob(j) \/ Collect(j)
    \/ Snapshot \/ WriteFile \/ WriteFails
    \/ DaemonDies \/ EnablePersistence

RegistrySpec == RegistryInit /\ [][RegistryNext]_regVars

-----------------------------------------------------------------------------
(* What must hold.                                                         *)

Settled == up /\ calls = 0 /\ writing = {} /\ persistOk

\* Once every call of persist has returned and the last one succeeded, the
\* file says of no job that it still runs when it is over, and it lacks a job
\* of the registry only for want of room: an older snapshot never replaces a
\* newer one (persistMu spans the snapshot and the rename).
FileIsCurrent ==
    Settled =>
        /\ \A i \in DOMAIN file : LET r == file[i] IN
              r.job \in Listed => r.status = job[r.job]
        /\ \A j \in Listed : (\E i \in DOMAIN file : file[i].job = j) \/ Len(file) = MaxPersisted

\* "Any job that was still running ... is recovered as orphaned": a daemon
\* that dies when every call of persist has returned and succeeded finds each
\* job it was running in the file.
LiveJobsSurvive ==
    Settled => \A j \in RegJobs : job[j] = "running" => \E i \in DOMAIN file : file[i].job = j
=============================================================================
