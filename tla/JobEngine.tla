------------------------------ MODULE JobEngine ------------------------------
(***************************************************************************)
(* The job engine of internal/engine: how Manager admits a command, parks   *)
(* it for human approval, hands it to a persistent shell, and accounts for  *)
(* it until shutdown.  Every j \in Jobs is one exec_start / exec_run        *)
(* request together with the job it may create.  One action is one critical *)
(* section of Manager.mu or Session.mu, or one synchronous bus publication, *)
(* with what the same call then does to its own job; so the goroutines of   *)
(* Start, resolveConfirm, CloseSession, Shutdown, the confirmation timers,  *)
(* the job watchers and the session readers interleave where the Go code    *)
(* releases its locks.                                                      *)
(***************************************************************************)
EXTENDS Integers, FiniteSets

CONSTANTS
  Jobs,               \* requests, each with the id of the job it creates
  Sessions,           \* persistent shells open when the behaviour starts
  Owners,             \* agent ids
  SessionOwner,       \* Session.Owner
  Requests,           \* what a request may ask: [sess, gate, mode, call]
  MaxForegroundJobs,  \* 0 = unlimited, here and in the next two
  MaxBackgroundJobs,
  MaxJobsPerAgent,
  MaxJobsInMemory,
  MaxPendingPerOwner,
  MaxPendingTotal,
  ConfirmTimeout,     \* whether ConfirmTimeoutMS > 0
  Retention,          \* whether GCOnce has an age or a count to enforce
  Faults,             \* which failures the environment may inject
  NoJob, NoRequest

Gates == {"allow", "confirm", "deny"}
Modes == {"foreground", "background"}     \* "auto" is admitted as foreground
Calls == {"start", "run"}                 \* exec_start, exec_run
FaultKinds == {"append", "encode", "store", "registry", "pty", "exit"}

ASSUME EngineConstants ==
  /\ SessionOwner \in [Sessions -> Owners]
  /\ Requests \subseteq [sess : Sessions, gate : Gates, mode : Modes, call : Calls]
  /\ MaxForegroundJobs \in Nat
  /\ MaxBackgroundJobs \in Nat
  /\ MaxJobsPerAgent \in Nat
  /\ MaxJobsInMemory \in Nat
  /\ MaxPendingPerOwner \in Nat
  /\ MaxPendingTotal \in Nat
  /\ ConfirmTimeout \in BOOLEAN
  /\ Retention \in BOOLEAN
  /\ Faults \subseteq FaultKinds

ASSUME NoJobIsNoJob == NoJob \notin Jobs
ASSUME NoRequestIsNoRequest == NoRequest \notin Requests

VARIABLES
  \* Manager
  closed,          \* Manager.closed
  drained,         \* Shutdown has returned and the durable sink is cancelled
  sessions,        \* Manager.sessions
  registry,        \* Manager.jobs
  pending,         \* Manager.pending, by the job each confirmation belongs to
  timers,          \* confirmations whose deny timer is armed
  reservedForeground, reservedBackground, reservedJobs, reservedByAgent,
  reservedQuotaJobs,
  \* Session
  closing,         \* who removed each session and is about to close it
  dead,            \* sessions with Session.closed
  reaped,          \* sessions whose shell closeTransport has killed
  current,         \* Session.current
  onShell,         \* jobs whose command line a shell was given and may still run
  \* Job
  req,             \* the request, NoRequest before it arrives
  status,          \* Job.status, "none" before there is a job
  background,      \* jobs with Job.background
  detached,        \* who took a current job off a session it closed and must end it
  \* goroutines
  pc,              \* Start / Run on behalf of the request
  exec,            \* the startJob call made for the job
  resolver,        \* the call that resolved the job's confirmation
  watch,           \* the watcher reserved by prepareWatchLocked
  \* audit
  trail,           \* durable events recorded for each job
  auditHealthy     \* Logger.healthy: latches FALSE at the first failed append

reserveVars == <<reservedForeground, reservedBackground, reservedJobs, reservedByAgent>>
registryVars == <<registry, pending, timers, reserveVars, reservedQuotaJobs>>
lifeVars == <<closed, drained, sessions, closing>>
shellVars == <<dead, reaped, current, onShell, detached>>
jobVars == <<req, status, background>>
auditVars == <<trail, auditHealthy>>
vars == <<lifeVars, registryVars, shellVars, jobVars, pc, exec, resolver, watch, auditVars>>

-----------------------------------------------------------------------------
(* Job status (status.go) *)

TerminalStatuses == {"exited", "killed", "failed", "orphaned"}
Terminal(s) == s \in TerminalStatuses
Statuses == {"none", "running", "awaiting_confirmation"} \cup TerminalStatuses

SessOf(j) == req[j].sess
OwnerOf(j) == SessionOwner[SessOf(j)]

\* Job.finalize: the first terminal status wins.
Finalized(j, s) == IF Terminal(status[j]) THEN status ELSE [status EXCEPT ![j] = s]

-----------------------------------------------------------------------------
(* Counting under Manager.mu *)

\* activeForeground / activeBackground skip jobs still represented by the
\* reservation their approval took.
ActiveIn(bg) ==
  {j \in registry \ reservedQuotaJobs : status[j] = "running" /\ (j \in background) = bg}
ActiveForeground == Cardinality(ActiveIn(FALSE))
ActiveBackground == Cardinality(ActiveIn(TRUE))

LiveJobsOf(o) == {j \in registry : ~Terminal(status[j]) /\ OwnerOf(j) = o}
ActiveForAgent(o) == Cardinality(LiveJobsOf(o))
PendingOf(o) == {j \in pending : OwnerOf(j) = o}

\* Mutant: the foreground quota forgets starts in flight.
ForegroundFull_Unreserved == MaxForegroundJobs > 0 /\ ActiveForeground >= MaxForegroundJobs

ForegroundFull == MaxForegroundJobs > 0 /\ ActiveForeground + reservedForeground >= MaxForegroundJobs
BackgroundFull == MaxBackgroundJobs > 0 /\ ActiveBackground + reservedBackground >= MaxBackgroundJobs
ClassFull(mode) == IF mode = "background" THEN BackgroundFull ELSE ForegroundFull

\* Mutant: room is made by evicting any job.
RoomyRegistries_AnyVictim ==
  IF Cardinality(registry) + reservedJobs < MaxJobsInMemory
  THEN {registry}
  ELSE {registry \ {v} : v \in registry}

\* Mutant: room is made without counting the places already promised.
RoomyRegistries_Unreserved ==
  IF Cardinality(registry) < MaxJobsInMemory
  THEN {registry}
  ELSE {registry \ {v} : v \in {j \in registry : Terminal(status[j])}}

\* makeJobRoomLocked: the registries it can leave behind; the empty set when the
\* registry is full of live jobs.  The code evicts the terminal job that ended
\* first; here any terminal one may go.
RoomyRegistries ==
  IF Cardinality(registry) + reservedJobs < MaxJobsInMemory
  THEN {registry}
  ELSE {registry \ {v} : v \in {j \in registry : Terminal(status[j])}}

HasRoom(r) == Cardinality(r) + reservedJobs < MaxJobsInMemory

-----------------------------------------------------------------------------
(* Durable events: Bus.Publish into the sink installed by Daemon.Run *)

Events == {"policy_denied", "start_requested", "confirm_requested", "approved",
           "denied", "started", "finished"}

\* The events that carry the whole command line.
CommandEvents == {"policy_denied", "start_requested", "confirm_requested", "started"}

\* One publication of event e about job j; ok is what Publish returns.  The sink
\* appends to the audit log and then to the mission store.  The first failed append
\* latches the log unhealthy, and may come after the record was written but before
\* it was synced; a failed store is reported although the record exists.
\* An event whose command makes it too large is refused before any sink sees it.  Once
\* shutdown has cancelled the sink a publication succeeds and records nothing.
Publish(j, e, ok) ==
  LET recorded == [trail EXCEPT ![j] = @ \cup {e}] IN
  \/ /\ drained /\ ok
     /\ UNCHANGED auditVars
  \/ /\ ~drained /\ ok /\ auditHealthy
     /\ trail' = recorded
     /\ UNCHANGED auditHealthy
  \/ /\ ~drained /\ ~ok /\ ~auditHealthy
     /\ UNCHANGED auditVars
  \/ /\ ~drained /\ ~ok /\ auditHealthy /\ "append" \in Faults
     /\ trail' \in {trail, recorded}
     /\ auditHealthy' = FALSE
  \/ /\ ~drained /\ ~ok /\ auditHealthy /\ "store" \in Faults
     /\ trail' = recorded
     /\ UNCHANGED auditHealthy
  \/ /\ ~ok /\ "encode" \in Faults /\ e \in CommandEvents
     /\ UNCHANGED auditVars

\* Any other publisher (a mission, a file write, the registry's own error report)
\* meets the failed append.
AuditFails ==
  /\ "append" \in Faults /\ ~drained /\ auditHealthy
  /\ auditHealthy' = FALSE
  /\ UNCHANGED <<lifeVars, registryVars, shellVars, jobVars, pc, exec, resolver, watch, trail>>

-----------------------------------------------------------------------------
(* Start: policy gate and admission *)

\* Live registered jobs alone already fill the quota: Start's cheap first check,
\* which its locked admission repeats with reservations.
QuotaReached(o) == MaxJobsPerAgent > 0 /\ ActiveForAgent(o) >= MaxJobsPerAgent

\* resolveSession for an explicit session id, then policy evaluation.  A call
\* that is refused here has touched nothing but the audit trail.
Arrive(j, r) ==
  /\ pc[j] = "idle"
  /\ req' = [req EXCEPT ![j] = r]
  /\ LET goto(p) == pc' = [pc EXCEPT ![j] = p]
     IN \/ /\ closed \/ r.sess \notin sessions
           /\ goto("refused")
           /\ UNCHANGED auditVars
        \/ /\ ~closed /\ r.sess \in sessions /\ r.gate = "deny"
           /\ goto("refused")
           /\ \E ok \in BOOLEAN : Publish(j, "policy_denied", ok)
        \/ /\ ~closed /\ r.sess \in sessions /\ r.gate = "confirm"
           /\ goto(IF auditHealthy THEN "parking" ELSE "refused")
           /\ UNCHANGED auditVars
        \/ /\ ~closed /\ r.sess \in sessions /\ r.gate = "allow"
           /\ goto(IF QuotaReached(SessionOwner[r.sess]) THEN "refused" ELSE "admitting")
           /\ UNCHANGED auditVars
  /\ UNCHANGED <<lifeVars, registryVars, shellVars, status, background,
                 exec, resolver, watch>>

\* The reservation counters after d more (or fewer) starts of request j.
ReserveStart(j, d) ==
  /\ reservedForeground' = reservedForeground
       + (IF req[j].mode # "background" /\ MaxForegroundJobs > 0 THEN d ELSE 0)
  /\ reservedBackground' = reservedBackground
       + (IF req[j].mode = "background" /\ MaxBackgroundJobs > 0 THEN d ELSE 0)
  /\ reservedJobs' = reservedJobs + d
  /\ reservedByAgent' = [reservedByAgent EXCEPT ![OwnerOf(j)] = @ + d]

\* Mutant: the agent quota forgets starts in flight.
AgentFull_Unreserved(j) == QuotaReached(OwnerOf(j))

AgentFull(j) ==
  MaxJobsPerAgent > 0 /\ ActiveForAgent(OwnerOf(j)) + reservedByAgent[OwnerOf(j)] >= MaxJobsPerAgent

\* The locked admission section of Start: make room, check every quota, reserve.
\* Room stays made when a quota then refuses the call.
Admit(j) ==
  /\ pc[j] = "admitting"
  /\ \/ /\ closed \/ RoomyRegistries = {}
        /\ pc' = [pc EXCEPT ![j] = "refused"]
        /\ UNCHANGED <<registry, reserveVars>>
     \/ /\ ~closed
        /\ registry' \in RoomyRegistries
        /\ IF HasRoom(registry') /\ ~AgentFull(j) /\ ~ClassFull(req[j].mode)
           THEN /\ pc' = [pc EXCEPT ![j] = "reserved"]
                /\ ReserveStart(j, 1)
           ELSE /\ pc' = [pc EXCEPT ![j] = "refused"]
                /\ UNCHANGED reserveVars
  /\ UNCHANGED <<pending, timers, reservedQuotaJobs, lifeVars, shellVars, jobVars,
                 exec, resolver, watch, auditVars>>

\* Mutant: a failed intent keeps its reservation.
RecordIntent_Leaks(j) ==
  /\ pc[j] = "reserved"
  /\ \E ok \in BOOLEAN :
       /\ Publish(j, "start_requested", ok)
       /\ pc' = [pc EXCEPT ![j] = IF ok THEN "intent" ELSE "refused"]
  /\ UNCHANGED <<registryVars, lifeVars, shellVars, jobVars, exec, resolver, watch>>

\* job.start_requested: the durable intent every unconfirmed command needs.
RecordIntent(j) ==
  /\ pc[j] = "reserved"
  /\ \/ /\ Publish(j, "start_requested", TRUE)
        /\ pc' = [pc EXCEPT ![j] = "intent"]
        /\ UNCHANGED reserveVars
     \/ /\ Publish(j, "start_requested", FALSE)
        /\ pc' = [pc EXCEPT ![j] = "refused"]
        /\ ReserveStart(j, -1)
  /\ UNCHANGED <<registry, pending, timers, reservedQuotaJobs, lifeVars, shellVars, jobVars,
                 exec, resolver, watch>>

-----------------------------------------------------------------------------
(* Session.startJob, used by Start and by an approval *)

\* Mutant: a busy session takes the next command too.
Attach_Busy(j) ==
  IF SessOf(j) \in dead \/ Terminal(status[j])
  THEN /\ status' = Finalized(j, "failed")
       /\ exec' = [exec EXCEPT ![j] = "failed"]
       /\ UNCHANGED current
  ELSE /\ status' = [status EXCEPT ![j] = "running"]
       /\ current' = [current EXCEPT ![SessOf(j)] = j]
       /\ exec' = [exec EXCEPT ![j] = "writing"]

\* Its first critical section: refuse a closed or busy session or a finished
\* job, else activate the job and make it current.
Attach(j) ==
  LET s == SessOf(j) IN
  IF s \in dead \/ current[s] # NoJob
  THEN /\ status' = Finalized(j, "failed")
       /\ exec' = [exec EXCEPT ![j] = "failed"]
       /\ UNCHANGED current
  ELSE IF Terminal(status[j])
  THEN /\ exec' = [exec EXCEPT ![j] = "failed"]
       /\ UNCHANGED <<status, current>>
  ELSE /\ status' = [status EXCEPT ![j] = "running"]
       /\ current' = [current EXCEPT ![s] = j]
       /\ exec' = [exec EXCEPT ![j] = "writing"]

ExecStart(j) ==
  /\ pc[j] = "intent"
  /\ pc' = [pc EXCEPT ![j] = "execing"]
  /\ Attach(j)
  /\ UNCHANGED <<lifeVars, registryVars, dead, reaped, onShell, detached, req, background, resolver, watch, auditVars>>

\* closeTransport: the shell dies with whatever it was running.
CloseTransport(s) ==
  /\ reaped' = reaped \cup {s}
  /\ onShell' = {j \in onShell : SessOf(j) # s}

\* writeCurrent checks under Session.mu that the session is open and the job still
\* its current one, and writes after the unlock: a session closed in between takes
\* the line as long as its shell lives.
SendLine(j) ==
  /\ exec[j] = "writing" /\ SessOf(j) \notin reaped
  /\ onShell' = onShell \cup {j}
  /\ exec' = [exec EXCEPT ![j] = "sent"]
  /\ UNCHANGED <<lifeVars, registryVars, dead, reaped, current, detached, jobVars, pc, resolver,
                 watch, auditVars>>

\* What startJob does with a failed write: the job leaves the session and fails.
StartFailed(j) ==
  /\ current' = IF current[SessOf(j)] = j THEN [current EXCEPT ![SessOf(j)] = NoJob] ELSE current
  /\ status' = Finalized(j, "failed")
  /\ exec' = [exec EXCEPT ![j] = "failed"]

\* The write fails: the session was closed before it, its shell is gone, or the PTY
\* took less than the whole line; or the session was closed while the line was
\* being written, and then its shell may well have taken all of it.
SendFails(j) ==
  LET s == SessOf(j) IN
  /\ \/ exec[j] = "writing" /\ (s \in dead \cup reaped \/ "pty" \in Faults)
     \/ exec[j] = "sent" /\ s \in dead
  /\ StartFailed(j)
  /\ UNCHANGED <<lifeVars, registryVars, dead, reaped, onShell, detached, req, background, pc,
                 resolver, watch, auditVars>>

\* The write outlasts its deadline: writeCurrent kills the shell, which its reader
\* then finds at EOF.
WriteTimesOut(j) ==
  /\ exec[j] \in {"writing", "sent"} /\ "pty" \in Faults
  /\ CloseTransport(SessOf(j))
  /\ StartFailed(j)
  /\ UNCHANGED <<lifeVars, registryVars, dead, detached, req, background, pc, resolver, watch,
                 auditVars>>

SendReturns(j) ==
  /\ exec[j] = "sent" /\ SessOf(j) \notin dead
  /\ exec' = [exec EXCEPT ![j] = "ok"]
  /\ UNCHANGED <<lifeVars, registryVars, shellVars, jobVars, pc, resolver, watch, auditVars>>

-----------------------------------------------------------------------------
(* Start: from reservation to registered job *)

\* The critical section that turns the reservation into a registered live job
\* and reserves its watcher.  A manager closed meanwhile gets no new job.
Register(j) ==
  /\ pc[j] = "execing" /\ exec[j] \in {"ok", "failed"}
  /\ ReserveStart(j, -1)
  /\ background' = IF req[j].mode = "background" THEN background \cup {j} ELSE background
  /\ \/ /\ closed
        /\ pc' = [pc EXCEPT ![j] = "closing"]
        /\ UNCHANGED <<registry, watch>>
     \/ /\ ~closed /\ exec[j] = "ok"
        /\ pc' = [pc EXCEPT ![j] = "registered"]
        /\ registry' = registry \cup {j}
        /\ watch' = [watch EXCEPT ![j] = "held"]
     \/ /\ ~closed /\ exec[j] = "failed"
        /\ pc' = [pc EXCEPT ![j] = "failed"]
        /\ UNCHANGED <<registry, watch>>
  /\ UNCHANGED <<pending, timers, reservedQuotaJobs, lifeVars, shellVars, req, status, exec, resolver, auditVars>>

\* register: a job whose start failed stays observable, if there is room.
RegisterFailed(j) ==
  /\ pc[j] = "failed"
  /\ pc' = [pc EXCEPT ![j] = "refused"]
  /\ IF closed \/ RoomyRegistries = {}
     THEN UNCHANGED registry
     ELSE \E r \in RoomyRegistries : registry' = r \cup {j}
  /\ UNCHANGED <<pending, timers, reserveVars, reservedQuotaJobs, lifeVars, shellVars, jobVars,
                 exec, resolver, watch, auditVars>>

\* publishStarted, then releaseWatch, in that order.
Announce(j) ==
  /\ pc[j] = "registered"
  /\ \E ok \in BOOLEAN : Publish(j, "started", ok)
  /\ watch' = [watch EXCEPT ![j] = "ready"]
  /\ pc' = [pc EXCEPT ![j] = "returned"]
  /\ UNCHANGED <<lifeVars, registryVars, shellVars, jobVars, exec, resolver>>

\* Mutant: a reclassification ignores the background quota.
HandBack_Unbounded(j) ==
  /\ pc[j] = "returned" /\ req[j].call = "run" /\ status[j] = "running"
  /\ pc' = [pc EXCEPT ![j] = "handed"]
  /\ background' = background \cup {j}
  /\ UNCHANGED <<lifeVars, registryVars, shellVars, req, status, exec, resolver, watch, auditVars>>

\* The tail of Run for a call that still finds its job running: reclassify it as
\* background when that pool has room (markBackgroundWithinQuota).
HandBack(j) ==
  /\ pc[j] = "returned" /\ req[j].call = "run" /\ status[j] = "running"
  /\ pc' = [pc EXCEPT ![j] = "handed"]
  /\ background' = IF BackgroundFull THEN background ELSE background \cup {j}
  /\ UNCHANGED <<lifeVars, registryVars, shellVars, req, status, exec,
                 resolver, watch, auditVars>>

-----------------------------------------------------------------------------
(* enqueueConfirm: parking a command for human approval *)

\* registerPending's first section.  The agent quota is compared with live jobs
\* only: reservations of starts in flight are not counted here.
Park(j) ==
  LET o == OwnerOf(j) IN
  /\ pc[j] = "parking"
  /\ \/ /\ \/ closed
           \/ Cardinality(pending) >= MaxPendingTotal
           \/ Cardinality(PendingOf(o)) >= MaxPendingPerOwner
           \/ QuotaReached(o)
           \/ RoomyRegistries = {}
        /\ pc' = [pc EXCEPT ![j] = "refused"]
        /\ UNCHANGED <<registry, pending, status>>
     \/ /\ ~closed
        /\ Cardinality(pending) < MaxPendingTotal
        /\ Cardinality(PendingOf(o)) < MaxPendingPerOwner
        /\ ~QuotaReached(o)
        /\ \E r \in RoomyRegistries :
             IF HasRoom(r)
             THEN /\ registry' = r \cup {j}
                  /\ pending' = pending \cup {j}
                  /\ status' = [status EXCEPT ![j] = "awaiting_confirmation"]
                  /\ pc' = [pc EXCEPT ![j] = "parked"]
             ELSE /\ registry' = r
                  /\ pc' = [pc EXCEPT ![j] = "refused"]
                  /\ UNCHANGED <<pending, status>>
  /\ UNCHANGED <<timers, reserveVars, reservedQuotaJobs, lifeVars, shellVars, req, background, exec, resolver, watch, auditVars>>

\* The registry write that follows, and registerPending's second look.  A failed
\* write withdraws the confirmation and the job; a confirmation somebody already
\* resolved is reported to the agent as a refusal.
PersistParked(j) ==
  /\ pc[j] = "parked"
  /\ \/ /\ "registry" \in Faults
        /\ pending' = pending \ {j}
        /\ registry' = registry \ {j}
        /\ pc' = [pc EXCEPT ![j] = "refused"]
     \/ /\ pc' = [pc EXCEPT ![j] = IF closed \/ j \notin pending THEN "refused" ELSE "asking"]
        /\ UNCHANGED <<registry, pending>>
  /\ UNCHANGED <<timers, reserveVars, reservedQuotaJobs, lifeVars, shellVars, jobVars, exec,
                 resolver, watch, auditVars>>

\* Mutant: an unrecorded request stays pending.
AskHuman_StaysPending(j) ==
  /\ pc[j] = "asking"
  /\ \E ok \in BOOLEAN :
       /\ Publish(j, "confirm_requested", ok)
       /\ pc' = [pc EXCEPT ![j] = IF ok THEN "arming" ELSE "refused"]
       /\ status' = IF ok THEN status ELSE Finalized(j, "failed")
  /\ UNCHANGED <<registryVars, lifeVars, shellVars, req, background, exec, resolver, watch>>

\* confirm.requested must be durable, or the confirmation is withdrawn and the
\* job failed.
AskHuman(j) ==
  /\ pc[j] = "asking"
  /\ \/ /\ Publish(j, "confirm_requested", TRUE)
        /\ pc' = [pc EXCEPT ![j] = "arming"]
        /\ UNCHANGED <<pending, status>>
     \/ /\ Publish(j, "confirm_requested", FALSE)
        /\ pc' = [pc EXCEPT ![j] = "refused"]
        /\ pending' = pending \ {j}
        /\ status' = Finalized(j, "failed")
  /\ UNCHANGED <<registry, timers, reserveVars, reservedQuotaJobs, lifeVars, shellVars, req,
                 background, exec, resolver, watch>>

\* Mutant: no timer backs the deadline.
ArmTimer_Never(j) ==
  /\ pc[j] = "arming"
  /\ pc' = [pc EXCEPT ![j] = "returned"]
  /\ UNCHANGED <<registryVars, lifeVars, shellVars, jobVars, exec, resolver, watch, auditVars>>

ArmTimer(j) ==
  /\ pc[j] = "arming"
  /\ pc' = [pc EXCEPT ![j] = "returned"]
  /\ timers' = IF ConfirmTimeout /\ j \in pending THEN timers \cup {j} ELSE timers
  /\ UNCHANGED <<registry, pending, reserveVars, reservedQuotaJobs, lifeVars, shellVars, jobVars,
                 exec, resolver, watch, auditVars>>

-----------------------------------------------------------------------------
(* resolveConfirm *)

\* Mutant: a resolution leaves the confirmation to be resolved again.
TakePending_Shared(j, how) ==
  /\ j \in pending
  /\ resolver' = [resolver EXCEPT ![j] = how]
  /\ UNCHANGED <<pending, timers>>

\* Taking j out of pending is what makes a resolution exclusive.
TakePending(j, how) ==
  /\ j \in pending
  /\ pending' = pending \ {j}
  /\ timers' = timers \ {j}
  /\ resolver' = [resolver EXCEPT ![j] = how]

ReserveClass(j, d) ==
  /\ reservedForeground' = reservedForeground + (IF req[j].mode # "background" THEN d ELSE 0)
  /\ reservedBackground' = reservedBackground + (IF req[j].mode = "background" THEN d ELSE 0)
  /\ UNCHANGED <<reservedJobs, reservedByAgent>>

\* The locked section of an approval.  One that a quota or an unhealthy audit
\* refuses changes nothing and leaves the confirmation pending.
Approve(j) ==
  /\ TakePending(j, "approved")
  /\ MaxJobsPerAgent = 0 \/ Cardinality(LiveJobsOf(OwnerOf(j)) \ {j}) < MaxJobsPerAgent
  /\ auditHealthy
  /\ ~ClassFull(req[j].mode)
  /\ ReserveClass(j, 1)
  /\ reservedQuotaJobs' = reservedQuotaJobs \cup {j}
  /\ watch' = [watch EXCEPT ![j] = "held"]
  /\ UNCHANGED <<registry, lifeVars, shellVars, jobVars, pc, exec, auditVars>>

\* Mutant: an approval goes ahead whether or not it was recorded.
RecordApproval_Unchecked(j) ==
  /\ resolver[j] = "approved"
  /\ \E ok \in BOOLEAN : Publish(j, "approved", ok)
  /\ resolver' = [resolver EXCEPT ![j] = "authorised"]
  /\ UNCHANGED <<lifeVars, registryVars, shellVars, jobVars, pc, exec, watch>>

\* The human authorisation must be durable before the shell sees the command.
RecordApproval(j) ==
  /\ resolver[j] = "approved"
  /\ \/ /\ Publish(j, "approved", TRUE)
        /\ resolver' = [resolver EXCEPT ![j] = "authorised"]
        /\ UNCHANGED status
     \/ /\ Publish(j, "approved", FALSE)
        /\ resolver' = [resolver EXCEPT ![j] = "releasing"]
        /\ status' = Finalized(j, "failed")
  /\ UNCHANGED <<lifeVars, registryVars, shellVars, req, background, pc, exec,
                 watch>>

ExecApproved(j) ==
  /\ resolver[j] = "authorised"
  /\ resolver' = [resolver EXCEPT ![j] = "execing"]
  /\ Attach(j)
  /\ UNCHANGED <<lifeVars, registryVars, dead, reaped, onShell, detached, req, background, pc, watch, auditVars>>

\* A started job joins its pool and is announced before its watcher may report.
AnnounceApproved(j) ==
  /\ resolver[j] = "execing" /\ exec[j] \in {"ok", "failed"}
  /\ resolver' = [resolver EXCEPT ![j] = "releasing"]
  /\ IF exec[j] = "ok"
     THEN /\ \E ok \in BOOLEAN : Publish(j, "started", ok)
          /\ background' = IF req[j].mode = "background" THEN background \cup {j} ELSE background
          /\ watch' = [watch EXCEPT ![j] = "ready"]
     ELSE UNCHANGED <<auditVars, background, watch>>
  /\ UNCHANGED <<lifeVars, registryVars, shellVars, req, status, pc, exec>>

\* Mutant: a failed approval never releases its watcher.
ReleaseApproval_HoldsWatch(j) ==
  /\ resolver[j] = "releasing"
  /\ resolver' = [resolver EXCEPT ![j] = "done"]
  /\ reservedQuotaJobs' = reservedQuotaJobs \ {j}
  /\ ReserveClass(j, -1)
  /\ UNCHANGED <<registry, pending, timers, lifeVars, shellVars, jobVars, pc, exec, watch,
                 auditVars>>

\* The deferred calls of an approval: give the class slot back, free the watcher.
ReleaseApproval(j) ==
  /\ resolver[j] = "releasing"
  /\ resolver' = [resolver EXCEPT ![j] = "done"]
  /\ reservedQuotaJobs' = reservedQuotaJobs \ {j}
  /\ ReserveClass(j, -1)
  /\ watch' = IF watch[j] = "held" THEN [watch EXCEPT ![j] = "ready"] ELSE watch
  /\ UNCHANGED <<registry, pending, timers, lifeVars, shellVars, jobVars, pc, exec, auditVars>>

\* A human denial, the deny-by-default timer, and the cancellation by Kill.
Deny(j) ==
  /\ TakePending(j, "denied")
  /\ UNCHANGED <<registry, reserveVars, reservedQuotaJobs, lifeVars, shellVars, jobVars, pc,
                 exec, watch, auditVars>>

TimeOut(j) == j \in timers /\ Deny(j)

KillPending(j) ==
  /\ j \in registry /\ status[j] = "awaiting_confirmation"
  /\ TakePending(j, "cancelled")
  /\ UNCHANGED <<registry, reserveVars, reservedQuotaJobs, lifeVars, shellVars, jobVars, pc,
                 exec, watch, auditVars>>

\* Mutant: a withdrawn job takes a status the code does not have.
Withdraw_Denied(j) ==
  /\ resolver[j] \in {"denied", "cancelled"}
  /\ resolver' = [resolver EXCEPT ![j] = "done"]
  /\ status' = Finalized(j, resolver[j])
  /\ \E ok \in BOOLEAN : Publish(j, "denied", ok)
  /\ UNCHANGED <<lifeVars, registryVars, shellVars, req, background, pc, exec, watch>>

\* What follows a confirmation that was not approved: the job ends and the
\* refusal is recorded.  CloseSession and Shutdown close their sessions first,
\* and Shutdown records nothing.
Withdraw(j) ==
  /\ resolver[j] \in {"denied", "cancelled", "uprooted", "shutdown"}
  /\ resolver[j] = "uprooted" => closing[SessOf(j)] = "none"
  /\ resolver[j] = "shutdown" => \A s \in Sessions : closing[s] # "Shutdown"
  /\ resolver' = [resolver EXCEPT ![j] = "done"]
  /\ status' = Finalized(j, IF resolver[j] = "cancelled" THEN "killed" ELSE "failed")
  /\ IF resolver[j] = "shutdown"
     THEN UNCHANGED auditVars
     ELSE \E ok \in BOOLEAN : Publish(j, "denied", ok)
  /\ UNCHANGED <<lifeVars, registryVars, shellVars, req, background, pc, exec,
                 watch>>

-----------------------------------------------------------------------------
(* A running job *)

\* consume: the completion marker of the current job arrives.  "exited" stands
\* for both of its outcomes, exited and, after a Signal, killed.
Complete(j) ==
  LET s == SessOf(j) IN
  /\ j \in onShell /\ s \notin dead /\ current[s] = j
  /\ status' = Finalized(j, "exited")
  /\ current' = [current EXCEPT ![s] = NoJob]
  /\ onShell' = onShell \ {j}
  /\ UNCHANGED <<lifeVars, registryVars, dead, reaped, detached, req, background, pc,
                 exec, resolver, watch, auditVars>>

\* Mutant: the watcher does not wait for the announcement.
Watch_Early(j) ==
  /\ watch[j] \in {"held", "ready"} /\ Terminal(status[j])
  /\ watch' = [watch EXCEPT ![j] = "done"]
  /\ \E ok \in BOOLEAN : Publish(j, "finished", ok)
  /\ UNCHANGED <<lifeVars, registryVars, shellVars, jobVars, pc, exec, resolver>>

\* The watcher: job.finished once the job is terminal and was announced.
Watch(j) ==
  /\ watch[j] = "ready" /\ Terminal(status[j])
  /\ watch' = [watch EXCEPT ![j] = "done"]
  /\ \E ok \in BOOLEAN : Publish(j, "finished", ok)
  /\ UNCHANGED <<lifeVars, registryVars, shellVars, jobVars, pc, exec, resolver>>

\* GCOnce: a terminal job is dropped once it is old or there are too many.
Collect(j) ==
  /\ Retention /\ j \in registry /\ Terminal(status[j])
  /\ registry' = registry \ {j}
  /\ UNCHANGED <<pending, timers, reserveVars, reservedQuotaJobs, lifeVars, shellVars, jobVars,
                 pc, exec, resolver, watch, auditVars>>

-----------------------------------------------------------------------------
(* Sessions end *)

\* Session.terminate, under Session.mu: the first call closes the session and takes
\* its current job.  The shell lives until that caller has ended the job and gone on
\* to closeTransport.
Terminate(s, by) ==
  /\ s \notin dead
  /\ dead' = dead \cup {s}
  /\ current' = [current EXCEPT ![s] = NoJob]
  /\ detached' = IF current[s] = NoJob THEN detached ELSE [detached EXCEPT ![current[s]] = by]

\* terminate finalizes the job it took, after the unlock.
FinalizeDetached(j) ==
  /\ detached[j] # "none"
  /\ status' = Finalized(j, IF detached[j] = "reader" THEN "orphaned" ELSE "killed")
  /\ detached' = [detached EXCEPT ![j] = "none"]
  /\ UNCHANGED <<lifeVars, registryVars, dead, reaped, current, onShell, req, background,
                 pc, exec, resolver, watch, auditVars>>

\* Whether a caller of terminate has still to finalize the job it took from s.
Owing(s, by) == \E j \in Jobs : detached[j] = by /\ SessOf(j) = s

\* readLoop sees EOF on a local shell, because it exited or was killed: handleEOF
\* closes what is not closed yet.
ShellExits(s) ==
  /\ "exit" \in Faults \/ s \in reaped
  /\ \/ Terminate(s, "reader")
     \/ s \in dead \ reaped /\ UNCHANGED <<dead, current, detached>>
  /\ CloseTransport(s)
  /\ UNCHANGED <<lifeVars, registryVars, jobVars, pc, exec, resolver, watch, auditVars>>

\* CloseSession's locked section: forget the session and cancel its pending
\* confirmations.
CloseSession(s) ==
  /\ s \in sessions
  /\ sessions' = sessions \ {s}
  /\ closing' = [closing EXCEPT ![s] = "CloseSession"]
  /\ LET cancelled == {j \in pending : SessOf(j) = s}
     IN /\ pending' = pending \ cancelled
        /\ timers' = timers \ cancelled
        /\ resolver' = [j \in Jobs |-> IF j \in cancelled THEN "uprooted" ELSE resolver[j]]
  /\ UNCHANGED <<closed, drained, registry, reserveVars, reservedQuotaJobs, shellVars, jobVars,
                 pc, exec, watch, auditVars>>

\* ... and the sess.close() that follows the unlock, there and in Shutdown: first
\* terminate's locked section, for a session nobody has closed,
BeginClose(s) ==
  /\ closing[s] # "none"
  /\ Terminate(s, "closer")
  /\ UNCHANGED <<lifeVars, registryVars, reaped, onShell, jobVars, pc, exec, resolver, watch,
                 auditVars>>

\* Mutant: a close ends the session's job and forgets its shell.
FinishClose_Forgets(s) ==
  /\ closing[s] # "none" /\ s \in dead /\ ~Owing(s, "closer")
  /\ closing' = [closing EXCEPT ![s] = "none"]
  /\ UNCHANGED <<closed, drained, sessions, registryVars, shellVars, jobVars, pc, exec, resolver,
                 watch, auditVars>>

\* then closeTransport, when the job it took is final.
FinishClose(s) ==
  /\ closing[s] # "none" /\ s \in dead /\ ~Owing(s, "closer")
  /\ closing' = [closing EXCEPT ![s] = "none"]
  /\ CloseTransport(s)
  /\ UNCHANGED <<closed, drained, sessions, registryVars, dead, current, detached, jobVars, pc,
                 exec, resolver, watch, auditVars>>

\* Mutant: the late Start reports the shutdown and closes nothing.
CloseAfterShutdown_Forgets(j) ==
  /\ pc[j] = "closing"
  /\ pc' = [pc EXCEPT ![j] = "refused"]
  /\ UNCHANGED <<shellVars, lifeVars, registryVars, jobVars, exec, resolver, watch, auditVars>>

\* A Start that found the manager closed after its exec closes the session in the
\* same two steps,
CloseAfterShutdown(j) ==
  /\ pc[j] = "closing"
  /\ \/ /\ Terminate(SessOf(j), "start")
        /\ pc' = [pc EXCEPT ![j] = "killing"]
        /\ UNCHANGED <<reaped, onShell>>
     \/ /\ SessOf(j) \in dead
        /\ CloseTransport(SessOf(j))
        /\ pc' = [pc EXCEPT ![j] = "refused"]
        /\ UNCHANGED <<dead, current, detached>>
  /\ UNCHANGED <<lifeVars, registryVars, jobVars, exec, resolver, watch, auditVars>>

\* and answers with its refusal.
KillLate(j) ==
  /\ pc[j] = "killing" /\ ~Owing(SessOf(j), "start")
  /\ CloseTransport(SessOf(j))
  /\ pc' = [pc EXCEPT ![j] = "refused"]
  /\ UNCHANGED <<lifeVars, registryVars, dead, current, detached, jobVars, exec, resolver, watch,
                 auditVars>>

\* Shutdown's locked section.
Shutdown ==
  /\ ~closed
  /\ closed' = TRUE
  /\ sessions' = {}
  /\ closing' = [s \in Sessions |-> IF s \in sessions THEN "Shutdown" ELSE closing[s]]
  /\ pending' = {}
  /\ timers' = timers \ pending
  /\ resolver' = [j \in Jobs |-> IF j \in pending THEN "shutdown" ELSE resolver[j]]
  /\ UNCHANGED <<drained, registry, reserveVars, reservedQuotaJobs, shellVars, jobVars, pc, exec,
                 watch, auditVars>>

\* Mutant: the drain waits for the jobs to end, not for their watchers to report it.
WatchersDone_JobsOnly == \A j \in Jobs : watch[j] \in {"held", "ready"} => Terminal(status[j])

\* watchWG.Wait returns and shutdownServices cancels the durable sink.
WatchersDone == \A j \in Jobs : watch[j] \in {"none", "done"}

\* Mutant: the drain does not wait for Shutdown's session closes.
Drain_Eager ==
  /\ closed /\ ~drained
  /\ WatchersDone
  /\ drained' = TRUE
  /\ UNCHANGED <<closed, sessions, closing, registryVars, shellVars, jobVars, pc, exec, resolver,
                 watch, auditVars>>

Drain ==
  /\ closed /\ ~drained
  /\ \A s \in Sessions : closing[s] # "Shutdown"
  /\ \A j \in Jobs : resolver[j] # "shutdown"
  /\ WatchersDone
  /\ drained' = TRUE
  /\ UNCHANGED <<closed, sessions, closing, registryVars, shellVars, jobVars, pc, exec, resolver,
                 watch, auditVars>>

-----------------------------------------------------------------------------
Init ==
  /\ closed = FALSE
  /\ drained = FALSE
  /\ sessions = Sessions
  /\ closing = [s \in Sessions |-> "none"]
  /\ registry = {}
  /\ pending = {}
  /\ timers = {}
  /\ reservedForeground = 0
  /\ reservedBackground = 0
  /\ reservedJobs = 0
  /\ reservedByAgent = [o \in Owners |-> 0]
  /\ reservedQuotaJobs = {}
  /\ dead = {}
  /\ reaped = {}
  /\ current = [s \in Sessions |-> NoJob]
  /\ onShell = {}
  /\ detached = [j \in Jobs |-> "none"]
  /\ req = [j \in Jobs |-> NoRequest]
  /\ status = [j \in Jobs |-> "none"]
  /\ background = {}
  /\ pc = [j \in Jobs |-> "idle"]
  /\ exec = [j \in Jobs |-> "none"]
  /\ resolver = [j \in Jobs |-> "none"]
  /\ watch = [j \in Jobs |-> "none"]
  /\ trail = [j \in Jobs |-> {}]
  /\ auditHealthy = TRUE

\* The goroutine serving the request, up to the answer to the agent.
StartStep(j) ==
  \/ Admit(j) \/ RecordIntent(j) \/ ExecStart(j) \/ Register(j) \/ RegisterFailed(j)
  \/ Announce(j) \/ Park(j) \/ PersistParked(j) \/ AskHuman(j) \/ ArmTimer(j)
  \/ CloseAfterShutdown(j) \/ KillLate(j)

\* startJob, in whichever goroutine called it.
ShellStep(j) == SendLine(j) \/ SendFails(j) \/ WriteTimesOut(j) \/ SendReturns(j)

\* The goroutine that resolved the confirmation.
ResolveStep(j) ==
  \/ RecordApproval(j) \/ ExecApproved(j) \/ AnnounceApproved(j) \/ ReleaseApproval(j)
  \/ Withdraw(j)

JobStep(j) ==
  \/ \E r \in Requests : Arrive(j, r)
  \/ StartStep(j) \/ ShellStep(j) \/ ResolveStep(j)
  \/ HandBack(j)
  \/ Approve(j) \/ Deny(j) \/ TimeOut(j) \/ KillPending(j)
  \/ Complete(j) \/ Watch(j) \/ Collect(j) \/ FinalizeDetached(j)

SessionStep(s) == ShellExits(s) \/ CloseSession(s) \/ BeginClose(s) \/ FinishClose(s)

\* Nothing is left to do once the daemon has shut down and every call returned.
AtRest ==
  /\ drained
  /\ \A s \in Sessions : closing[s] = "none"
  /\ \A j \in Jobs :
       /\ pc[j] \in {"refused", "returned", "handed"}
       /\ exec[j] \in {"none", "ok", "failed"}
       /\ resolver[j] \in {"none", "done"}
       /\ watch[j] \in {"none", "done"}
       /\ detached[j] = "none"
  /\ UNCHANGED vars

Next ==
  \/ \E j \in Jobs : JobStep(j)
  \/ \E s \in Sessions : SessionStep(s)
  \/ Shutdown \/ Drain \/ AuditFails
  \/ AtRest

Spec == Init /\ [][Next]_vars

\* What the Go runtime and its timers owe: while a goroutine holds work, an armed
\* timer has not fired or Shutdown can return, one of them eventually does.
\* Requests, humans, completions, shell exits, collection and the decision to shut
\* down are owed by nobody.  Each call is a finite number of steps, so the weakest
\* fairness, on all of them together, is enough.
Owed ==
  \/ \E j \in Jobs :
       \/ StartStep(j) \/ ShellStep(j) \/ ResolveStep(j)
       \/ TimeOut(j) \/ Watch(j) \/ FinalizeDetached(j)
  \/ \E s \in Sessions : BeginClose(s) \/ FinishClose(s) \/ (s \in reaped /\ ShellExits(s))
  \/ Drain

Fairness == WF_vars(Owed)

FairSpec == Spec /\ Fairness

-----------------------------------------------------------------------------
(* Properties *)

StartPCs == {"idle", "admitting", "reserved", "intent", "execing", "closing", "killing",
             "registered", "failed", "returned", "handed", "parking", "parked", "asking", "arming", "refused"}

TypeOK ==
  /\ closed \in BOOLEAN /\ drained \in BOOLEAN
  /\ sessions \subseteq Sessions
  /\ closing \in [Sessions -> {"none", "CloseSession", "Shutdown"}]
  /\ registry \subseteq Jobs /\ pending \subseteq Jobs /\ timers \subseteq Jobs
  /\ reservedForeground \in Int /\ reservedBackground \in Int /\ reservedJobs \in Int
  /\ reservedByAgent \in [Owners -> Int]
  /\ reservedQuotaJobs \subseteq Jobs
  /\ dead \subseteq Sessions /\ reaped \subseteq Sessions
  /\ current \in [Sessions -> Jobs \cup {NoJob}]
  /\ onShell \subseteq Jobs
  /\ detached \in [Jobs -> {"none", "closer", "start", "reader"}]
  /\ req \in [Jobs -> Requests \cup {NoRequest}]
  /\ status \in [Jobs -> Statuses]
  /\ background \subseteq Jobs
  /\ pc \in [Jobs -> StartPCs]
  /\ exec \in [Jobs -> {"none", "writing", "sent", "ok", "failed"}]
  /\ resolver \in [Jobs -> {"none", "approved", "authorised", "execing", "releasing", "denied",
                            "cancelled", "uprooted", "shutdown", "done"}]
  /\ watch \in [Jobs -> {"none", "held", "ready", "done"}]
  /\ trail \in [Jobs -> SUBSET Events]
  /\ auditHealthy \in BOOLEAN

\* Starts and approvals between taking a reservation and giving it back.
Starting(mode) == {j \in Jobs : pc[j] \in {"reserved", "intent", "execing"} /\ req[j].mode = mode}
Approving == {j \in Jobs : resolver[j] \in {"approved", "authorised", "execing", "releasing"}}
ApprovingIn(mode) == {j \in Approving : req[j].mode = mode}

\* Every counter of Manager is exactly the reservations its holders have out, on
\* every error path of Start and resolveConfirm: none leaks, none is returned
\* twice (releaseStartReservationLocked, the defer in resolveConfirm).
ReservationsExact ==
  /\ reservedJobs = Cardinality(Starting("foreground")) + Cardinality(Starting("background"))
  /\ reservedForeground =
       (IF MaxForegroundJobs > 0 THEN Cardinality(Starting("foreground")) ELSE 0)
         + Cardinality(ApprovingIn("foreground"))
  /\ reservedBackground =
       (IF MaxBackgroundJobs > 0 THEN Cardinality(Starting("background")) ELSE 0)
         + Cardinality(ApprovingIn("background"))
  /\ \A o \in Owners : reservedByAgent[o] =
       Cardinality({j \in Starting("foreground") \cup Starting("background") : OwnerOf(j) = o})
  /\ reservedQuotaJobs = Approving

\* Foreground commands running or about to run never exceed MaxForegroundJobs,
\* however starts, approvals, completions and Run's reclassification interleave
\* (activeForeground, Start, resolveConfirm, markBackgroundWithinQuota).
ForegroundPoolBounded ==
  MaxForegroundJobs > 0 => ActiveForeground + reservedForeground <= MaxForegroundJobs

\* The same of the background pool: a reclassification never overfills it
\* (activeBackground, markBackgroundWithinQuota).
BackgroundPoolBounded ==
  MaxBackgroundJobs > 0 => ActiveBackground + reservedBackground <= MaxBackgroundJobs

\* An agent never has more commands running than MaxJobsPerAgent, whatever the
\* sessions it spreads them over and the way each was admitted (Start,
\* registerPending, resolveConfirm).
AgentQuotaRespected ==
  MaxJobsPerAgent > 0 =>
    \A o \in Owners :
      Cardinality({j \in Jobs : status[j] = "running" /\ OwnerOf(j) = o}) <= MaxJobsPerAgent

\* Starts that reserve, run, fail and hand commands back to their caller exceed
\* neither pool nor an agent's quota, however they interleave (Manager.Start,
\* Run, resolveConfirm).
QuotasRespected == ForegroundPoolBounded /\ BackgroundPoolBounded /\ AgentQuotaRespected

\* The registry, with the places promised to starts in flight, never outgrows
\* maxJobsInMemory (makeJobRoomLocked and its three callers).
RegistryBounded == Cardinality(registry) + reservedJobs <= MaxJobsInMemory

\* A session that is being closed: Session.closed is set, and whoever set it, or
\* found it set, has still to reach closeTransport.  Its shell, and a command on it,
\* live until then.
Dying(s) ==
  /\ s \in dead
  /\ \/ closing[s] # "none"
     \/ \E k \in Jobs : pc[k] \in {"closing", "killing"} /\ SessOf(k) = s

\* The commands on a shell that nobody is about to kill.
Running == {j \in onShell : ~Dying(SessOf(j))}

\* A shell is never given a second command while the first can still run, and
\* while the session is open what the shell runs is what the session calls current:
\* output and completion are never attributed to another job.  A closed session has
\* no current job, and its shell is about to be killed (startJob, writeCurrent,
\* consume, terminate).
OneCommandPerShell ==
  \A j \in onShell :
    /\ \A k \in onShell : SessOf(k) = SessOf(j) => k = j
    /\ IF SessOf(j) \in dead THEN Dying(SessOf(j)) ELSE current[SessOf(j)] = j

\* While the durable sink is installed no command is on a shell without the
\* record that authorises it: the start intent of an allowed command, the human
\* approval of a gated one (Start, resolveConfirm).
Authorised(j) ==
  \/ req[j].gate = "allow" /\ "start_requested" \in trail[j]
  \/ req[j].gate = "confirm" /\ "approved" \in trail[j]
NothingRunsUnrecorded == ~drained => \A j \in onShell : Authorised(j)

\* A call that was answered with an error never leaves its command on a shell that
\* lives on: the error paths of Start, enqueueConfirm and registerPending.  When a
\* session is closed while startJob writes to it, the error can be out before
\* closeTransport kills the shell that took the line (writeCurrent, terminate).
RefusedNeverRuns == \A j \in Running : pc[j] # "refused"

\* A job with a terminal status does not have its command on a shell that lives on
\* (status.go: the job will never run again).  terminate finalizes the job first and
\* kills the shell next, so only a shell that is being closed may still run it.
TerminalNeverRuns == \A j \in Running : ~Terminal(status[j])

\* Racing answers to one confirmation have one winner: an approved command was
\* not also denied, and a denied one is never given to the shell (resolveConfirm,
\* Kill, CloseSession, the deny-by-default timer).
OneVerdict ==
  \A j \in Jobs : "denied" \in trail[j] => exec[j] = "none" /\ "approved" \notin trail[j]

\* Every pending confirmation belongs to a listed job that still awaits it and that
\* nobody has answered (registerPending, enqueueConfirm, resolveConfirm, CloseSession).
PendingIsActionable ==
  \A j \in pending :
    j \in registry /\ status[j] = "awaiting_confirmation" /\ resolver[j] = "none"

\* A command that went through admission and runs on a shell nobody is closing can
\* be found, polled and killed by its id.  On a session that is being closed the job
\* may be final and dropped before its shell is killed (register, registerPending,
\* GCOnce, the eviction of makeJobRoomLocked, terminate).
RunningIsListed ==
  \A j \in Running : watch[j] # "none" => j \in registry

\* job.finished never precedes job.started, even for a command that exits inside
\* Start (prepareWatchLocked, publishStarted).
StartedBeforeFinished ==
  [][\A j \in Jobs :
       "started" \in trail'[j] \ trail[j] => "finished" \notin trail[j]]_vars

\* Shutdown keeps the sink until every announced command has its end on record:
\* after a drain with a healthy log no started job lacks job.finished
\* (watchWG.Wait in Shutdown, shutdownServices).
DrainLosesNoFinish ==
  drained /\ auditHealthy =>
    \A j \in Jobs : "started" \in trail[j] => "finished" \in trail[j]

\* No shell that Shutdown took over runs anything once it has returned.  It does
\* not wait for a CloseSession that had already removed its session.
DrainLeavesNoCommand ==
  drained => \A j \in onShell : closing[SessOf(j)] = "CloseSession"

-----------------------------------------------------------------------------
(* The inductive invariant behind the safety theorems of JobEngine_proofs *)

AdmissionPCs ==
  {"admitting", "reserved", "intent", "execing", "closing", "killing", "registered", "failed"}
ConfirmPCs == {"parking", "parked", "asking", "arming"}

\* A request follows the path of its gate, and only a gated one is ever pending
\* or resolved.
PathInv(j) ==
  /\ pc[j] = "idle" => exec[j] = "none" /\ j \notin pending /\ resolver[j] = "none"
  /\ pc[j] # "idle" => req[j] \in Requests
  /\ pc[j] \in AdmissionPCs => req[j].gate = "allow"
  /\ pc[j] \in ConfirmPCs => req[j].gate = "confirm"
  /\ pc[j] = "parking" => j \notin pending /\ resolver[j] = "none"
  /\ j \in pending => resolver[j] = "none"
  /\ j \in pending \/ resolver[j] # "none" => pc[j] # "idle" /\ req[j].gate = "confirm"

\* startJob is called at most once for a job, by the path that owns it.
OneExecInv(j) ==
  /\ pc[j] \in {"admitting", "reserved", "intent"} => exec[j] = "none"
  /\ pc[j] \in ConfirmPCs \/ j \in pending \/ resolver[j] # "none" =>
       (resolver[j] \notin {"execing", "releasing", "done"} => exec[j] = "none")
  /\ exec[j] \in {"none", "writing"} => j \notin onShell

\* The line is on its way to the shell, or there.
InFlight(j) == exec[j] = "writing" \/ j \in onShell

\* A shell that lives is given the lines of its session, and while the session is
\* open only that of its current job.
ShellInv(j) ==
  /\ InFlight(j) => pc[j] # "idle" /\ (SessOf(j) \notin dead => current[SessOf(j)] = j)
  /\ j \in onShell => SessOf(j) \notin reaped

\* The record that authorises a command is durable before startJob is called.
RecordInv(j) ==
  /\ pc[j] = "intent" => drained \/ "start_requested" \in trail[j]
  /\ resolver[j] = "authorised" => drained \/ "approved" \in trail[j]
  /\ exec[j] = "writing" \/ j \in onShell => drained \/ Authorised(j)

\* The verdict on record is the one the resolver carries.
VerdictInv(j) ==
  /\ "denied" \in trail[j] => resolver[j] = "done" /\ exec[j] = "none"
  /\ "approved" \in trail[j] =>
       resolver[j] \in {"authorised", "execing", "releasing", "done"} /\ "denied" \notin trail[j]
  /\ resolver[j] \in {"approved", "authorised", "execing", "releasing"} => "denied" \notin trail[j]

JobInv(j) == PathInv(j) /\ OneExecInv(j) /\ ShellInv(j) /\ RecordInv(j) /\ VerdictInv(j)

\* A session closed in the middle of a command takes no other one after it.
LoneInv == \A j, k \in Jobs : InFlight(j) /\ InFlight(k) /\ SessOf(j) = SessOf(k) => j = k

\* A closed session whose shell lives is being closed by somebody.
DeadInv == \A s \in dead \ reaped : Dying(s)

SafetyInv == TypeOK /\ (\A j \in Jobs : JobInv(j)) /\ LoneInv /\ DeadInv

-----------------------------------------------------------------------------
(* Liveness *)

\* Deny by default: with a confirmation timeout every parked command is settled
\* even if no human ever answers (enqueueConfirm's timer).
ConfirmationsSettle == \A j \in Jobs : j \in pending ~> j \notin pending

\* Shutdown always completes: no watcher, held or waiting, outlives the sessions;
\* and the shell of a closed session is always killed, whoever closed it
\* (prepareWatchLocked, Shutdown, terminate).
ShutdownCompletes == (closed ~> drained) /\ \A s \in Sessions : s \in dead ~> s \in reaped

=============================================================================
