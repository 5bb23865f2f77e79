------------------------------- MODULE Mission -------------------------------
(***************************************************************************)
(* The mission service: durable units of work, each with a dedicated       *)
(* session, a plan whose passed steps carry a job as evidence, and a       *)
(* status that follows the engine's events.                                *)
(*                                                                         *)
(* A call holds the service's mutex for one action, releases it to create  *)
(* a session or to emit its event, and takes it again to undo itself.      *)
(* Titles, notes and the projected event list are left out; of the times   *)
(* only "oldest terminal mission" decides anything, and any terminal       *)
(* mission stands for it.                                                  *)
(***************************************************************************)
EXTENDS Naturals, FiniteSets, Identifiers

CONSTANTS
    MIds, Steps, Sess, Jobs,  \* missions, plan steps, engine sessions and jobs
    Calls,                    \* calls of Create, Resume and Update, each made once
    NoMission, NoSess, NoJob, \* absent
    MaxMissions,              \* maxMissions (128 in the code)
    StepStatuses,             \* the step statuses an agent sets
    MaxWriteFaults            \* bound: store writes that fail

ASSUME MissionAssumption ==
    /\ MaxMissions \in Nat \ {0} /\ MaxWriteFaults \in Nat
    /\ NoMission \notin MIds /\ NoSess \notin Sess /\ NoJob \notin Jobs
    /\ StepStatuses \subseteq {"pending", "running", "passed", "failed", "skipped"}

Finished == {"succeeded", "failed", "cancelled"}
JobOver  == {"exited0", "exited1", "orphaned"}

VARIABLES
    missions,   \* Service.missions: a function on the ids in use
    bySess,     \* Service.bySess
    disk,       \* the store file
    writeFaults,     \* store writes that failed
    call,       \* what each call has done so far
    sessions,   \* the engine's sessions
    jobs,       \* the engine's jobs, live and recovered
    served      \* history: the sessions a call handed to its caller

missionVars == <<missions, bySess, disk, writeFaults, call, sessions, jobs, served>>

Idle == [at |-> "idle", id |-> NoMission, sess |-> NoSess, before |-> NoMission]

MissionInit ==
    /\ missions = <<>> /\ disk = <<>> /\ writeFaults = 0
    /\ bySess = [s \in Sess |-> NoMission]
    /\ call = [c \in Calls |-> Idle]
    /\ sessions = [s \in Sess |-> "free"]
    /\ jobs = [j \in Jobs |-> [status |-> "new", sess |-> NoSess]]
    /\ served = {}

-----------------------------------------------------------------------------
Ids == DOMAIN missions

With(f, id, m)  == [x \in DOMAIN f \cup {id} |-> IF x = id THEN m ELSE f[x]]
Without(f, id)  == [x \in DOMAIN f \ {id} |-> f[x]]

\* persistLocked: the file is replaced as a whole, or stays as it was.
Persists(ms) == disk' = ms /\ UNCHANGED writeFaults
PersistFails == writeFaults < MaxWriteFaults /\ writeFaults' = writeFaults + 1 /\ UNCHANGED disk
PersistMay(ms) == Persists(ms) \/ PersistFails

\* reindexLocked: sessions of unfinished missions, and of no other.
Index(ms) ==
    [s \in Sess |-> IF \E id \in DOMAIN ms : ms[id].sess = s /\ ms[id].status \notin Finished
                    THEN CHOOSE id \in DOMAIN ms : ms[id].sess = s /\ ms[id].status \notin Finished
                    ELSE NoMission]

Return(c, at) == call' = [call EXCEPT ![c] = [Idle EXCEPT !.at = at]]

\* A mutant: an error exit that leaves the new session open.
Abort_Leaks(c) == Return(c, "failed")

\* A call that has failed still has a session to close.
Abort(c) == call' = [call EXCEPT ![c].at = "closing"]

-----------------------------------------------------------------------------
(* Create.                                                                 *)

CreateSession(c, s) ==
    /\ call[c].at = "idle" /\ sessions[s] = "free"
    /\ sessions' = [sessions EXCEPT ![s] = "open"]
    /\ call' = [call EXCEPT ![c] = [Idle EXCEPT !.at = "create", !.sess = s]]
    /\ UNCHANGED <<missions, bySess, disk, writeFaults, jobs, served>>

\* pruneLocked: one finished mission makes room.
Pruned ==
    IF Cardinality(Ids) < MaxMissions THEN {missions}
    ELSE LET done == {id \in Ids : missions[id].status \in Finished}
         IN  IF done = {} THEN {missions} ELSE {Without(missions, id) : id \in done}

NewMission(s) == [status |-> "planned", sess |-> s, attempts |-> {s},
                  steps |-> [p \in Steps |-> [status |-> "pending", job |-> NoJob]]]

CreateCommit(c, id) ==
    /\ call[c].at = "create"
    /\ id \notin Ids \cup DOMAIN disk \cup {call[x].id : x \in Calls}
    /\ LET s == call[c].sess
       IN \E kept \in Pruned :
            LET index == [x \in Sess |-> IF \E gone \in Ids \ DOMAIN kept : missions[gone].sess = x
                                         THEN NoMission ELSE bySess[x]]
                made  == With(kept, id, NewMission(s))
            IN  \/ /\ Cardinality(DOMAIN kept) >= MaxMissions
                   /\ Abort(c)
                   /\ UNCHANGED <<missions, bySess, disk, writeFaults>>
                \/ /\ Cardinality(DOMAIN kept) < MaxMissions
                   /\ Persists(made)
                   /\ missions' = made /\ bySess' = [index EXCEPT ![s] = id]
                   /\ call' = [call EXCEPT ![c].at = "created", ![c].id = id]
                \/ /\ Cardinality(DOMAIN kept) < MaxMissions
                   /\ PersistFails
                   /\ missions' = kept /\ bySess' = index
                   /\ Abort(c)
    /\ UNCHANGED <<sessions, jobs, served>>

\* mission.created was refused: the mission is taken back.
CreateUndo(c) ==
    /\ call[c].at = "created"
    /\ LET left == Without(missions, call[c].id)
       IN  missions' = left /\ PersistMay(left)
    /\ bySess' = [bySess EXCEPT ![call[c].sess] = NoMission]
    /\ Abort(c)
    /\ UNCHANGED <<sessions, jobs, served>>

-----------------------------------------------------------------------------
(* Resume.                                                                 *)

\* A mutant: the sessions of earlier attempts are forgotten.
Resumed_Forgets(m, s) == [m EXCEPT !.status = "running", !.sess = s, !.attempts = {s}]

\* A new attempt of the mission, in its new session.
Resumed(m, s) == [m EXCEPT !.status = "running", !.sess = s, !.attempts = @ \cup {s}]

ResumeLook(c, id, s) ==
    /\ call[c].at = "idle" /\ id \in Ids /\ missions[id].status = "interrupted"
    /\ sessions[s] = "free"
    /\ sessions' = [sessions EXCEPT ![s] = "open"]
    /\ call' = [call EXCEPT ![c] = [Idle EXCEPT !.at = "resume", !.id = id, !.sess = s]]
    /\ UNCHANGED <<missions, bySess, disk, writeFaults, jobs, served>>

ResumeCommit(c) ==
    /\ call[c].at = "resume"
    /\ LET id == call[c].id
           s  == call[c].sess
       IN \/ /\ id \notin Ids \/ missions[id].status # "interrupted"
             /\ Abort(c)
             /\ UNCHANGED <<missions, bySess, disk, writeFaults>>
          \/ /\ id \in Ids /\ missions[id].status = "interrupted"
             /\ LET m == missions[id]
                    resumed == With(missions, id, Resumed(m, s))
                IN \/ /\ Persists(resumed)
                      /\ missions' = resumed
                      /\ bySess' = [bySess EXCEPT ![m.sess] = NoMission, ![s] = id]
                      /\ call' = [call EXCEPT ![c].at = "resumed", ![c].before = m]
                   \/ /\ PersistFails
                      /\ bySess' = Index(missions)
                      /\ Abort(c)
                      /\ UNCHANGED missions
    /\ UNCHANGED <<sessions, jobs, served>>

\* Mutants: the index is left as the call made it; the file is.
Restore_OldIndex(c) ==
    LET old == With(missions, call[c].id, call[c].before)
    IN  missions' = old /\ UNCHANGED bySess /\ PersistMay(old)

Restore_Unwritten(c) ==
    LET old == With(missions, call[c].id, call[c].before)
    IN  missions' = old /\ bySess' = Index(old) /\ UNCHANGED <<disk, writeFaults>>

\* Puts back the copy taken before the call's own change, whatever happened since.
Restore(c) ==
    LET old == With(missions, call[c].id, call[c].before)
    IN  missions' = old /\ bySess' = Index(old) /\ PersistMay(old)

\* mission.resumed was refused.
ResumeUndo(c) ==
    /\ call[c].at = "resumed"
    /\ Restore(c)
    /\ Abort(c)
    /\ UNCHANGED <<sessions, jobs, served>>

\* The session of a failed Create or Resume is closed after the unlock.
CloseSession(c) ==
    /\ call[c].at = "closing"
    /\ sessions' = [sessions EXCEPT ![call[c].sess] = "closed"]
    /\ call' = [call EXCEPT ![c].at = "failed"]
    /\ jobs' = [j \in Jobs |-> IF jobs[j].sess = call[c].sess /\ jobs[j].status = "live"
                               THEN [jobs[j] EXCEPT !.status = "orphaned"] ELSE jobs[j]]
    /\ UNCHANGED <<missions, bySess, disk, writeFaults, served>>

-----------------------------------------------------------------------------
(* Update.                                                                 *)

\* jobForMission: the engine lists the job, in a session of the mission.
Evidence(m, j) == j \in Jobs /\ jobs[j].status # "new" /\ jobs[j].sess \in m.attempts

\* updateStepLocked accepts the step's new status and job.
StepAllowed(m, status, j) ==
    /\ j # NoJob => Evidence(m, j)
    /\ status = "passed" => j # NoJob /\ jobs[j].status = "exited0"

\* finishLocked accepts the outcome.
FinishAllowed(m, outcome) ==
    outcome = "succeeded" =>
        /\ \A p \in Steps : m.steps[p].status \in {"passed", "skipped"}
        /\ \E p \in Steps : m.steps[p].status = "passed"
        /\ \A j \in Jobs : jobs[j].status = "live" => jobs[j].sess \notin m.attempts

\* What one call can make of a mission: a step, an outcome, both, or only its summary.
StepUpdates(m) ==
    {m} \cup {[m EXCEPT !.steps[p] = r] :
                 p \in Steps, r \in {x \in [status : StepStatuses, job : Jobs \cup {NoJob}] :
                                        StepAllowed(m, x.status, x.job)}}
Updates(m) ==
    StepUpdates(m) \cup
    UNION {{[u EXCEPT !.status = o] : o \in {x \in Finished : FinishAllowed(u, x)}} : u \in StepUpdates(m)}

Update(c, id) ==
    /\ call[c].at = "idle" /\ id \in Ids /\ missions[id].status \notin Finished
    /\ LET m == missions[id]
       IN \E u \in Updates(m) :
            \/ /\ Persists(With(missions, id, u))
               /\ missions' = With(missions, id, u)
               /\ call' = [call EXCEPT ![c] = [Idle EXCEPT !.at = "updated", !.id = id, !.before = m]]
               /\ UNCHANGED bySess
            \/ /\ PersistFails
               /\ bySess' = Index(missions)
               /\ Return(c, "failed")
               /\ UNCHANGED missions
    /\ UNCHANGED <<sessions, jobs, served>>

\* mission.updated was refused.
UpdateUndo(c) ==
    /\ call[c].at = "updated"
    /\ Restore(c)
    /\ Return(c, "failed")
    /\ UNCHANGED <<sessions, jobs, served>>

\* The event of a call was recorded: the call succeeds.
Emitted(c) ==
    /\ call[c].at \in {"created", "resumed", "updated"}
    /\ Return(c, "ok")
    /\ served' = served \cup ({call[c].sess} \ {NoSess})
    /\ UNCHANGED <<missions, bySess, disk, writeFaults, sessions, jobs>>

-----------------------------------------------------------------------------
(* RecordEvent: the engine's events move the status of their mission.      *)

Recorded(s, status) ==
    LET id == bySess[s]
    IN  IF id = NoMission \/ id \notin Ids \/ missions[id].status \in Finished
        THEN UNCHANGED <<missions, disk, writeFaults>>
        ELSE LET ms == [missions EXCEPT ![id].status = IF status = "same" THEN @ ELSE status]
             IN  missions' = ms /\ Persists(ms)

\* The mission store refused the event: the engine does not go on.
RecordFails(s, status) ==
    LET id == bySess[s]
    IN  /\ id \in Ids /\ missions[id].status \notin Finished
        /\ missions' = [missions EXCEPT ![id].status = status]
        /\ PersistFails

JobStarts(j, s) ==
    /\ jobs[j].status = "new" /\ sessions[s] = "open"
    /\ \/ Recorded(s, "running") /\ jobs' = [jobs EXCEPT ![j] = [status |-> "live", sess |-> s]]
       \/ RecordFails(s, "running") /\ UNCHANGED jobs
    /\ UNCHANGED <<bySess, call, sessions, served>>

JobEnds(j) ==
    /\ jobs[j].status = "live"
    /\ \E st \in {"exited0", "exited1"} : jobs' = [jobs EXCEPT ![j].status = st]
    /\ Recorded(jobs[j].sess, "same")
    /\ UNCHANGED <<bySess, call, sessions, served>>

\* confirm.requested or session.reset; confirm.resolved goes back to running.
Attention(s) ==
    /\ sessions[s] = "open"
    /\ \E status \in {"needs_attention", "running"} : Recorded(s, status)
    /\ UNCHANGED <<bySess, call, sessions, jobs, served>>

-----------------------------------------------------------------------------
\* The daemon dies and starts again: sessions, calls and memory are lost.
\* load refuses a store that is too long; New interrupts what was under way.
Loads(store) == Cardinality(DOMAIN store) <= MaxMissions

Restart ==
    LET back == [id \in DOMAIN disk |-> IF disk[id].status \in Finished THEN disk[id]
                                        ELSE [disk[id] EXCEPT !.status = "interrupted"]]
    IN  /\ Loads(disk)
        /\ missions' = back /\ bySess' = Index(back) /\ Persists(back)
        /\ call' = [c \in Calls |-> IF call[c].at = "idle" THEN Idle ELSE [Idle EXCEPT !.at = "failed"]]
        /\ sessions' = [s \in Sess |-> IF sessions[s] = "free" THEN "free" ELSE "closed"]
        /\ jobs' = [j \in Jobs |-> IF jobs[j].status = "live" THEN [jobs[j] EXCEPT !.status = "orphaned"]
                                   ELSE jobs[j]]
        /\ UNCHANGED served

FreeSess == {s \in Sess : sessions[s] = "free"}
FreeIds  == MIds \ (Ids \cup DOMAIN disk \cup {call[c].id : c \in Calls})
FreeJobs == {j \in Jobs : jobs[j].status = "new"}

MissionNext ==
    \/ \E c \in Calls :
          \/ \E s \in Fresh(FreeSess) : CreateSession(c, s) \/ \E id \in MIds : ResumeLook(c, id, s)
          \/ \E id \in Fresh(FreeIds) : CreateCommit(c, id)
          \/ \E id \in MIds : Update(c, id)
          \/ CreateUndo(c) \/ ResumeCommit(c) \/ ResumeUndo(c) \/ CloseSession(c)
          \/ UpdateUndo(c) \/ Emitted(c)
    \/ \E j \in Fresh(FreeJobs), s \in Sess : JobStarts(j, s)
    \/ \E j \in Jobs : JobEnds(j)
    \/ \E s \in Sess : Attention(s)
    \/ Restart

MissionSpec == MissionInit /\ [][MissionNext]_missionVars

-----------------------------------------------------------------------------
(* What must hold.                                                         *)

\* A passed step has a job the engine saw exit with 0 in a session of its
\* mission, and a mission succeeds only on passed or skipped steps, at least
\* one passed: through undone calls, resumed sessions and restarts
\* (updateStepLocked, finishLocked and the copies put back after them).
EvidenceIsReal ==
    \A id \in Ids :
        LET m == missions[id]
            passed == {p \in Steps : m.steps[p].status = "passed"}
        IN  /\ \A p \in passed : /\ Evidence(m, m.steps[p].job)
                                 /\ jobs[m.steps[p].job].status = "exited0"
            /\ m.status = "succeeded" =>
                  passed # {} /\ \A p \in Steps \ passed : m.steps[p].status = "skipped"

\* A session the service opened is either handed to the caller or closed: no
\* error exit of Create or Resume leaves one behind.
NoLeakedSession ==
    \A s \in Sess : sessions[s] = "open" =>
        s \in served \/ \E c \in Calls : call[c].sess = s /\ call[c].at # "failed"

\* The index finds every unfinished mission by its current session, and what
\* it finds is the mission that has this session: no event is dropped or
\* recorded under another mission (reindexLocked after every undo).
IndexFindsMissions ==
    /\ \A id \in Ids : missions[id].status \notin Finished => bySess[missions[id].sess] = id
    /\ \A s \in Sess : bySess[s] \in Ids => missions[bySess[s]].sess = s

\* While no write of the store has failed, a daemon that dies now comes back
\* with exactly the missions it had in memory: every change, and every undo of
\* one, is written before the mutex is released.
NothingToLose == writeFaults = 0 => disk = missions

\* "bounded to 128 missions": the store never holds more missions than load
\* accepts when the daemon starts.
StoreLoadable == Loads(disk)
=============================================================================
