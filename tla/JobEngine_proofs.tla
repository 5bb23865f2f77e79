--------------------------- MODULE JobEngine_proofs ---------------------------
(*****************************************************************************)
(* Proofs about JobEngine, for every set of jobs, sessions and agents, every*)
(* quota and every combination of faults: confirmations and what the audit  *)
(* log is told, what the manager counts and lists, and what becomes of a    *)
(* command the engine accepted.  Where a run of TLC shows that an error path*)
(* breaks a property, the theorem names the requests or the faults that keep*)
(* out of it.                                                               *)
(*****************************************************************************)
EXTENDS JobEngine, FiniteSetTheorems, TLAPS

-----------------------------------------------------------------------------
(* The effects of the operators that several actions share *)

\* A publication may add its own event to the trail of its own job, and does so
\* whenever it reports success to a sink that is still installed.
LEMMA PublishEffect ==
  ASSUME NEW j \in Jobs, NEW e \in Events, NEW ok \in BOOLEAN, TypeOK, Publish(j, e, ok)
  PROVE  /\ trail' \in [Jobs -> SUBSET Events]
         /\ auditHealthy' \in BOOLEAN
         /\ \A k \in Jobs : k # j => trail'[k] = trail[k]
         /\ trail'[j] = trail[j] \/ trail'[j] = trail[j] \cup {e}
         /\ ok => drained \/ e \in trail'[j]
<1>1. trail \in [Jobs -> SUBSET Events] /\ auditHealthy \in BOOLEAN
  BY DEF TypeOK
<1>2. CASE UNCHANGED auditVars /\ (ok => drained)
  BY <1>1, <1>2 DEF auditVars
<1>3. CASE trail' = [trail EXCEPT ![j] = @ \cup {e}] /\ UNCHANGED auditHealthy
  BY <1>1, <1>3
<1>4. CASE ~ok /\ auditHealthy' = FALSE /\ trail' \in {trail, [trail EXCEPT ![j] = @ \cup {e}]}
  BY <1>1, <1>4
<1> QED
  BY <1>2, <1>3, <1>4, Zenon DEF Publish

\* Publishing anything but a verdict leaves every verdict on record as it was.
LEMMA PublishKeeps ==
  ASSUME NEW j \in Jobs, NEW e \in Events \ {"approved", "denied"}, NEW ok \in BOOLEAN, TypeOK,
         Publish(j, e, ok)
  PROVE  /\ trail' \in [Jobs -> SUBSET Events]
         /\ \A k \in Jobs : /\ trail[k] \subseteq trail'[k]
                            /\ trail'[k] \cap {"approved", "denied"} = trail[k] \cap {"approved", "denied"}
         /\ ok => drained \/ e \in trail'[j]
BY PublishEffect

\* startJob's first section touches one job and at most its own session, and
\* only a job it refused is anything but written next.
LEMMA AttachEffect ==
  ASSUME NEW j \in Jobs, TypeOK, Attach(j)
  PROVE  /\ status' \in [Jobs -> Statuses]
         /\ current' \in [Sessions -> Jobs \cup {NoJob}]
         /\ exec' \in [Jobs -> {"none", "writing", "sent", "ok", "failed"}]
         /\ \A k \in Jobs : k # j => exec'[k] = exec[k]
         /\ exec'[j] \in {"failed", "writing"}
         /\ \A s \in Sessions : current'[s] # current[s] => current[s] = NoJob
         /\ exec'[j] = "writing" /\ SessOf(j) \in Sessions => current'[SessOf(j)] = j
BY DEF TypeOK, Attach, Finalized, Statuses, TerminalStatuses, Terminal

\* terminate's locked section closes one open session and takes its current job.
LEMMA TerminateEffect ==
  ASSUME NEW s \in Sessions, NEW by \in {"closer", "start", "reader"}, TypeOK, Terminate(s, by)
  PROVE  /\ dead' = dead \cup {s}
         /\ current' \in [Sessions -> Jobs \cup {NoJob}]
         /\ detached' \in [Jobs -> {"none", "closer", "start", "reader"}]
         /\ \A t \in Sessions : t # s => current'[t] = current[t]
BY NoJobIsNoJob DEF TypeOK, Terminate

\* A failed write takes the job off its session and touches no other job.
LEMMA StartFailedEffect ==
  ASSUME NEW j \in Jobs, TypeOK, StartFailed(j)
  PROVE  /\ status' \in [Jobs -> Statuses]
         /\ current' \in [Sessions -> Jobs \cup {NoJob}]
         /\ exec' = [exec EXCEPT ![j] = "failed"]
         /\ \A k \in Jobs : k # j => status'[k] = status[k]
         /\ status'[j] # "running"
         /\ \A s \in Sessions : current'[s] # current[s] => current[s] = j /\ current'[s] = NoJob
BY DEF TypeOK, StartFailed, Finalized, Statuses, TerminalStatuses, Terminal

\* Reservations move by whole starts.
LEMMA ReserveEffect ==
  ASSUME NEW j \in Jobs, NEW d \in Int, TypeOK, ReserveStart(j, d)
  PROVE  /\ reservedForeground' \in Int
         /\ reservedBackground' \in Int
         /\ reservedJobs' \in Int
         /\ reservedByAgent' \in [Owners -> Int]
<1>1. PICK f \in {d, 0}, b \in {d, 0} :
        reservedForeground' = reservedForeground + f /\ reservedBackground' = reservedBackground + b
  BY DEF ReserveStart
<1>2. reservedForeground' \in Int /\ reservedBackground' \in Int
  BY <1>1 DEF TypeOK
<1>3. reservedJobs' \in Int
  BY DEF TypeOK, ReserveStart
<1>4. reservedByAgent' \in [Owners -> Int]
  <2>1. reservedByAgent \in [Owners -> Int]
    BY DEF TypeOK
  <2>2. reservedByAgent' = [reservedByAgent EXCEPT ![OwnerOf(j)] = reservedByAgent[OwnerOf(j)] + d]
    BY DEF ReserveStart
  <2>3. \A o \in Owners : reservedByAgent[o] + d \in Int
    BY <2>1
  <2> QED
    BY <2>1, <2>2, <2>3
<1> QED
  BY <1>2, <1>3, <1>4

\* Making room only ever evicts.
LEMMA RoomyEffect ==
  ASSUME NEW r \in RoomyRegistries
  PROVE  r \subseteq registry
BY DEF RoomyRegistries

\* A finalization changes the status of its own job only.
LEMMA FinalizedEffect ==
  ASSUME NEW j \in Jobs, NEW s \in TerminalStatuses, TypeOK
  PROVE  /\ Finalized(j, s) \in [Jobs -> Statuses]
         /\ \A k \in Jobs : k # j => Finalized(j, s)[k] = status[k]
BY DEF TypeOK, Finalized, Statuses

-----------------------------------------------------------------------------
(* Type correctness *)

LEMMA TypeInit == Init => TypeOK
<1> SUFFICES ASSUME Init PROVE TypeOK
  OBVIOUS
<1>1. closed \in BOOLEAN /\ drained \in BOOLEAN /\ auditHealthy \in BOOLEAN
  BY DEF Init
<1>2. /\ status \in [Jobs -> Statuses]
      /\ pc \in [Jobs -> StartPCs]
  BY DEF Init, Statuses, StartPCs
<1>3. /\ reservedForeground \in Int /\ reservedBackground \in Int /\ reservedJobs \in Int
      /\ reservedByAgent \in [Owners -> Int]
  BY DEF Init
<1> QED
  BY <1>1, <1>2, <1>3 DEF Init, TypeOK

LEMMA TypeNext ==
  ASSUME TypeOK, \A j \in Jobs : PathInv(j), [Next]_vars
  PROVE  TypeOK'
<1> USE DEF TypeOK, StartPCs, vars, lifeVars, registryVars, reserveVars, shellVars, jobVars, auditVars
<1>1. ASSUME NEW j \in Jobs, NEW r \in Requests, Arrive(j, r)
      PROVE  TypeOK'
  <2>1. CASE UNCHANGED auditVars
    BY <2>1, <1>1 DEF Arrive
  <2>2. CASE \E ok \in BOOLEAN : Publish(j, "policy_denied", ok)
    <3>1. /\ trail' \in [Jobs -> SUBSET Events]
          /\ auditHealthy' \in BOOLEAN
      BY <2>2, PublishEffect DEF Events
    <3> QED
      BY <3>1, <1>1 DEF Arrive
  <2> QED
    BY <2>1, <2>2, <1>1 DEF Arrive
<1>2. ASSUME NEW j \in Jobs, Admit(j)
      PROVE  TypeOK'
  BY <1>2, ReserveEffect, RoomyEffect DEF Admit, RoomyRegistries
<1>3. ASSUME NEW j \in Jobs, RecordIntent(j)
      PROVE  TypeOK'
  <2>1. /\ trail' \in [Jobs -> SUBSET Events]
        /\ auditHealthy' \in BOOLEAN
    BY <1>3, PublishEffect DEF RecordIntent, Events
  <2>2. reserveVars' = reserveVars \/ ReserveStart(j, -1)
    BY <1>3 DEF RecordIntent
  <2>3. /\ reservedForeground' \in Int /\ reservedBackground' \in Int /\ reservedJobs' \in Int
        /\ reservedByAgent' \in [Owners -> Int]
    BY <2>2, ReserveEffect
  <2> QED
    BY <2>1, <2>3, <1>3 DEF RecordIntent
<1>4. ASSUME NEW j \in Jobs, ExecStart(j)
      PROVE  TypeOK'
  BY <1>4, AttachEffect DEF ExecStart
<1>5. ASSUME NEW j \in Jobs, SendLine(j)
      PROVE  TypeOK'
  BY <1>5 DEF SendLine
<1>6. ASSUME NEW j \in Jobs, SendFails(j) \/ WriteTimesOut(j)
      PROVE  TypeOK'
  <2>1. /\ StartFailed(j)
        /\ UNCHANGED <<lifeVars, registryVars, dead, detached, req, background, pc, resolver, watch, auditVars>>
        /\ onShell' \subseteq onShell
        /\ reaped' = reaped \/ reaped' = reaped \cup {SessOf(j)}
    BY <1>6 DEF SendFails, WriteTimesOut, CloseTransport
  <2>2. reaped' \subseteq Sessions
    <3>1. CASE SendFails(j)
      BY <3>1 DEF SendFails
    <3>2. CASE WriteTimesOut(j)
      <4>1. SessOf(j) \in Sessions
        BY <3>2, EngineConstants DEF PathInv, WriteTimesOut, SessOf
      <4> QED
        BY <2>1, <4>1
    <3> QED
      BY <1>6, <3>1, <3>2
  <2> QED
    BY <2>1, <2>2, StartFailedEffect
<1>7. ASSUME NEW j \in Jobs, SendReturns(j)
      PROVE  TypeOK'
  BY <1>7 DEF SendReturns
<1>8. ASSUME NEW j \in Jobs, Register(j)
      PROVE  TypeOK'
  <2>1. /\ reservedForeground' \in Int /\ reservedBackground' \in Int /\ reservedJobs' \in Int
        /\ reservedByAgent' \in [Owners -> Int]
    BY <1>8, ReserveEffect DEF Register
  <2>2. background' \subseteq Jobs /\ registry' \subseteq Jobs
    BY <1>8 DEF Register
  <2> QED
    BY <2>1, <2>2, <1>8 DEF Register
<1>9. ASSUME NEW j \in Jobs, RegisterFailed(j)
      PROVE  TypeOK'
  <2>1. registry' \subseteq Jobs
    BY <1>9, RoomyEffect DEF RegisterFailed
  <2> QED
    BY <2>1, <1>9 DEF RegisterFailed
<1>10. ASSUME NEW j \in Jobs, Announce(j)
      PROVE  TypeOK'
  <2>1. /\ trail' \in [Jobs -> SUBSET Events]
        /\ auditHealthy' \in BOOLEAN
    BY <1>10, PublishEffect DEF Announce, Events
  <2> QED
    BY <2>1, <1>10 DEF Announce
<1>11. ASSUME NEW j \in Jobs, HandBack(j)
      PROVE  TypeOK'
  BY <1>11 DEF HandBack
<1>12. ASSUME NEW j \in Jobs, Park(j)
      PROVE  TypeOK'
  <2>1. registry' \subseteq Jobs
    BY <1>12, RoomyEffect DEF Park
  <2> QED
    BY <2>1, <1>12 DEF Park, Statuses
<1>13. ASSUME NEW j \in Jobs, PersistParked(j)
      PROVE  TypeOK'
  BY <1>13 DEF PersistParked
<1>14. ASSUME NEW j \in Jobs, AskHuman(j)
      PROVE  TypeOK'
  <2>1. /\ trail' \in [Jobs -> SUBSET Events]
        /\ auditHealthy' \in BOOLEAN
    BY <1>14, PublishEffect DEF AskHuman, Events
  <2>2. status' = status \/ status' = Finalized(j, "failed")
    BY <1>14 DEF AskHuman
  <2>3. status' \in [Jobs -> Statuses]
    BY <2>2, FinalizedEffect DEF TerminalStatuses
  <2> QED
    BY <2>1, <2>3, <1>14 DEF AskHuman
<1>15. ASSUME NEW j \in Jobs, ArmTimer(j)
      PROVE  TypeOK'
  BY <1>15 DEF ArmTimer
<1>16. ASSUME NEW j \in Jobs, Approve(j)
      PROVE  TypeOK'
  BY <1>16 DEF Approve, TakePending, ReserveClass
<1>17. ASSUME NEW j \in Jobs, RecordApproval(j)
      PROVE  TypeOK'
  <2>1. /\ trail' \in [Jobs -> SUBSET Events]
        /\ auditHealthy' \in BOOLEAN
    BY <1>17, PublishEffect DEF RecordApproval, Events
  <2>2. status' = status \/ status' = Finalized(j, "failed")
    BY <1>17 DEF RecordApproval
  <2>3. status' \in [Jobs -> Statuses]
    BY <2>2, FinalizedEffect DEF TerminalStatuses
  <2> QED
    BY <2>1, <2>3, <1>17 DEF RecordApproval
<1>18. ASSUME NEW j \in Jobs, ExecApproved(j)
      PROVE  TypeOK'
  BY <1>18, AttachEffect DEF ExecApproved
<1>19. ASSUME NEW j \in Jobs, AnnounceApproved(j)
      PROVE  TypeOK'
  <2>1. CASE exec[j] = "ok"
    <3>1. PICK ok \in BOOLEAN : Publish(j, "started", ok)
      BY <2>1, <1>19 DEF AnnounceApproved
    <3>2. /\ trail' \in [Jobs -> SUBSET Events]
          /\ auditHealthy' \in BOOLEAN
      BY <3>1, PublishEffect DEF Events
    <3> QED
      BY <2>1, <3>2, <1>19 DEF AnnounceApproved
  <2>2. CASE exec[j] # "ok"
    BY <2>2, <1>19 DEF AnnounceApproved
  <2> QED
    BY <2>1, <2>2
<1>20. ASSUME NEW j \in Jobs, ReleaseApproval(j)
      PROVE  TypeOK'
  BY <1>20 DEF ReleaseApproval, ReserveClass
<1>21. ASSUME NEW j \in Jobs, Deny(j)
      PROVE  TypeOK'
  BY <1>21 DEF Deny, TakePending
<1>22. ASSUME NEW j \in Jobs, KillPending(j)
      PROVE  TypeOK'
  BY <1>22 DEF KillPending, TakePending
<1>23. ASSUME NEW j \in Jobs, Withdraw(j)
      PROVE  TypeOK'
  <2>1. /\ trail' \in [Jobs -> SUBSET Events]
        /\ auditHealthy' \in BOOLEAN
    BY <1>23, PublishEffect DEF Withdraw, Events
  <2>2. status' \in [Jobs -> Statuses]
    BY <1>23, FinalizedEffect DEF Withdraw, TerminalStatuses
  <2> QED
    BY <2>1, <2>2, <1>23 DEF Withdraw
<1>24. ASSUME NEW j \in Jobs, Complete(j)
      PROVE  TypeOK'
  BY <1>24, FinalizedEffect DEF Complete, TerminalStatuses
<1>25. ASSUME NEW j \in Jobs, Watch(j)
      PROVE  TypeOK'
  <2>1. /\ trail' \in [Jobs -> SUBSET Events]
        /\ auditHealthy' \in BOOLEAN
    BY <1>25, PublishEffect DEF Watch, Events
  <2> QED
    BY <2>1, <1>25 DEF Watch
<1>26. ASSUME NEW j \in Jobs, Collect(j)
      PROVE  TypeOK'
  BY <1>26 DEF Collect
<1>27. ASSUME NEW j \in Jobs, FinalizeDetached(j)
      PROVE  TypeOK'
  BY <1>27, FinalizedEffect DEF FinalizeDetached, TerminalStatuses
<1>28. ASSUME NEW s \in Sessions, ShellExits(s)
      PROVE  TypeOK'
  BY <1>28, TerminateEffect DEF ShellExits, CloseTransport
<1>29. ASSUME NEW s \in Sessions, BeginClose(s) \/ FinishClose(s)
      PROVE  TypeOK'
  BY <1>29, TerminateEffect DEF BeginClose, FinishClose, CloseTransport
<1>30. ASSUME NEW s \in Sessions, CloseSession(s)
      PROVE  TypeOK'
  BY <1>30 DEF CloseSession
<1>31. ASSUME NEW j \in Jobs, CloseAfterShutdown(j) \/ KillLate(j)
      PROVE  TypeOK'
  <2>1. SessOf(j) \in Sessions
    BY <1>31, EngineConstants DEF PathInv, CloseAfterShutdown, KillLate, SessOf
  <2> QED
    BY <2>1, <1>31, TerminateEffect DEF CloseAfterShutdown, KillLate, CloseTransport
<1>32. ASSUME Shutdown
      PROVE  TypeOK'
  BY <1>32 DEF Shutdown
<1>33. ASSUME Drain
      PROVE  TypeOK'
  BY <1>33 DEF Drain
<1>34. ASSUME AuditFails
      PROVE  TypeOK'
  BY <1>34 DEF AuditFails
<1>35. ASSUME UNCHANGED vars
      PROVE  TypeOK'
  BY <1>35
<1> QED
  BY <1>1, <1>2, <1>3, <1>4, <1>5, <1>6, <1>7, <1>8, <1>9, <1>10, <1>11, <1>12, <1>13,
     <1>14, <1>15, <1>16, <1>17, <1>18, <1>19, <1>20, <1>21, <1>22, <1>23, <1>24, <1>25,
     <1>26, <1>27, <1>28, <1>29, <1>30, <1>31, <1>32, <1>33, <1>34, <1>35
     DEF Next, JobStep, StartStep, ShellStep, ResolveStep, SessionStep, TimeOut, AtRest

-----------------------------------------------------------------------------
(* The inductive invariant *)

\* What a step does to a job it is not about: nothing the job's invariant reads
\* changes, except that its session may be closed, its command may leave the shell,
\* the sink may be cancelled and events other than a verdict may be recorded.
Undisturbed(k) ==
  /\ pc'[k] = pc[k] /\ req'[k] = req[k] /\ exec'[k] = exec[k] /\ resolver'[k] = resolver[k]
  /\ (k \in pending') = (k \in pending)
  /\ trail[k] \subseteq trail'[k]
  /\ trail'[k] \cap {"approved", "denied"} = trail[k] \cap {"approved", "denied"}
  /\ drained => drained'
  /\ dead \subseteq dead'
  /\ k \in onShell' => k \in onShell /\ (SessOf(k) \in reaped' => SessOf(k) \in reaped)
  /\ InFlight(k) => SessOf(k) \in dead' \/ current'[SessOf(k)] = current[SessOf(k)]

LEMMA UndisturbedKeeps ==
  ASSUME NEW k \in Jobs, JobInv(k), Undisturbed(k)
  PROVE  JobInv(k)'
<1> USE DEF JobInv, Undisturbed
<1>1. PathInv(k)'
  BY DEF PathInv
<1>2. OneExecInv(k)'
  BY DEF OneExecInv
<1>3. ShellInv(k)'
  BY DEF ShellInv, InFlight, SessOf
<1>4. RecordInv(k)'
  BY DEF RecordInv, Authorised
<1>5. VerdictInv(k)'
  BY DEF VerdictInv
<1> QED
  BY <1>1, <1>2, <1>3, <1>4, <1>5

LEMMA SafetyInit == Init => SafetyInv
<1> SUFFICES ASSUME Init PROVE (\A j \in Jobs : JobInv(j)) /\ LoneInv /\ DeadInv
  BY TypeInit DEF SafetyInv
<1>1. ASSUME NEW j \in Jobs PROVE JobInv(j)
  BY DEF Init, JobInv, PathInv, OneExecInv, ShellInv, InFlight, RecordInv, VerdictInv, AdmissionPCs, ConfirmPCs
<1>2. LoneInv /\ DeadInv
  BY DEF Init, LoneInv, DeadInv, InFlight
<1> QED
  BY <1>1, <1>2

LEMMA JobsNext ==
  ASSUME TypeOK, \A k \in Jobs : JobInv(k), [Next]_vars
  PROVE  TypeOK' /\ \A k \in Jobs : JobInv(k)'
<1>1. TypeOK /\ \A k \in Jobs : JobInv(k)
  OBVIOUS
<1>2. TypeOK'
  BY <1>1, TypeNext DEF JobInv
<1> SUFFICES \A k \in Jobs : JobInv(k)'
  BY <1>2
<1>u. ASSUME NEW j \in Jobs,
             \A s \in Sessions : current'[s] # current[s] => current[s] \in {NoJob, j}
      PROVE  \A k \in Jobs : k # j /\ InFlight(k) => SessOf(k) \in dead \/ current'[SessOf(k)] = current[SessOf(k)]
  <2> SUFFICES ASSUME NEW k \in Jobs, k # j, InFlight(k), SessOf(k) \notin dead
               PROVE  current'[SessOf(k)] = current[SessOf(k)]
    OBVIOUS
  <2>1. SessOf(k) \in Sessions /\ current[SessOf(k)] = k
    BY <1>1, EngineConstants DEF JobInv, PathInv, ShellInv, SessOf
  <2> QED
    BY <1>u, <2>1, NoJobIsNoJob
<1> USE DEF TypeOK, vars, lifeVars, registryVars, reserveVars, shellVars, jobVars, auditVars
<1>3. ASSUME NEW j \in Jobs, NEW r \in Requests, Arrive(j, r)
      PROVE  \A k \in Jobs : JobInv(k)'
  <2>1. /\ trail' \in [Jobs -> SUBSET Events]
        /\ \A k \in Jobs : /\ trail[k] \subseteq trail'[k]
                           /\ trail'[k] \cap {"approved", "denied"} = trail[k] \cap {"approved", "denied"}
    <3>1. UNCHANGED auditVars \/ \E ok \in BOOLEAN : Publish(j, "policy_denied", ok)
      BY <1>3 DEF Arrive
    <3> QED
      BY <1>1, <3>1, PublishKeeps DEF Events
  <2>2. \A k \in Jobs : k # j => Undisturbed(k)
    BY <1>1, <1>3, <2>1 DEF Arrive, Undisturbed
  <2>3. JobInv(j)'
    BY <1>1, <1>3, <2>1 DEF Arrive, JobInv, PathInv, OneExecInv, ShellInv, InFlight, RecordInv, VerdictInv, Authorised, AdmissionPCs, ConfirmPCs, SessOf
  <2> QED
    BY <1>1, <2>2, <2>3, UndisturbedKeeps
<1>4. ASSUME NEW j \in Jobs, Admit(j)
      PROVE  \A k \in Jobs : JobInv(k)'
  <2>1. \A k \in Jobs : k # j => Undisturbed(k)
    BY <1>1, <1>4 DEF Admit, Undisturbed
  <2>2. JobInv(j)'
    BY <1>1, <1>2, <1>4 DEF Admit, JobInv, PathInv, OneExecInv, ShellInv, InFlight, RecordInv, VerdictInv, Authorised, AdmissionPCs, ConfirmPCs, SessOf
  <2> QED
    BY <1>1, <2>1, <2>2, UndisturbedKeeps
<1>5. ASSUME NEW j \in Jobs, RecordIntent(j)
      PROVE  \A k \in Jobs : JobInv(k)'
  <2>1. /\ trail' \in [Jobs -> SUBSET Events]
        /\ \A k \in Jobs : /\ trail[k] \subseteq trail'[k]
                           /\ trail'[k] \cap {"approved", "denied"} = trail[k] \cap {"approved", "denied"}
        /\ pc'[j] = "intent" => drained \/ "start_requested" \in trail'[j]
    <3>1. PICK ok \in BOOLEAN : Publish(j, "start_requested", ok) /\ (pc'[j] = "intent" => ok)
      BY <1>1, <1>5 DEF RecordIntent
    <3> QED
      BY <1>1, <3>1, PublishKeeps DEF Events
  <2>2. /\ pc[j] = "reserved"
        /\ pc' \in {[pc EXCEPT ![j] = "intent"], [pc EXCEPT ![j] = "refused"]}
        /\ UNCHANGED <<drained, pending, dead, reaped, current, onShell, req, exec, resolver>>
    BY <1>5 DEF RecordIntent
  <2>3. \A k \in Jobs : k # j => Undisturbed(k)
    BY <1>1, <2>1, <2>2 DEF Undisturbed
  <2>4. JobInv(j)'
    BY <1>1, <2>1, <2>2 DEF JobInv, PathInv, OneExecInv, ShellInv, InFlight, RecordInv, VerdictInv, Authorised, AdmissionPCs, ConfirmPCs, SessOf
  <2> QED
    BY <1>1, <2>3, <2>4, UndisturbedKeeps
<1>6. ASSUME NEW j \in Jobs, ExecStart(j)
      PROVE  \A k \in Jobs : JobInv(k)'
  <2>1. \A k \in Jobs : k # j /\ InFlight(k) => SessOf(k) \in dead \/ current'[SessOf(k)] = current[SessOf(k)]
    BY <1>1, <1>6, <1>u, AttachEffect DEF ExecStart
  <2>2. \A k \in Jobs : k # j => Undisturbed(k)
    BY <1>1, <1>6, <2>1, AttachEffect, NoJobIsNoJob DEF ExecStart, Undisturbed, SessOf
  <2>3. ShellInv(j)'
    <3>1. SessOf(j) \in Sessions /\ pc'[j] # "idle" /\ j \notin onShell
      BY <1>1, <1>6, EngineConstants DEF ExecStart, JobInv, PathInv, OneExecInv, SessOf
    <3> QED
      BY <1>6, <3>1, AttachEffect DEF ExecStart, ShellInv, InFlight, SessOf
  <2>4. JobInv(j)'
    BY <1>1, <1>2, <1>6, <2>3, AttachEffect, NoJobIsNoJob DEF ExecStart, JobInv, PathInv, OneExecInv, RecordInv, VerdictInv, Authorised, AdmissionPCs, ConfirmPCs, SessOf
  <2> QED
    BY <1>1, <2>2, <2>4, UndisturbedKeeps
<1>7. ASSUME NEW j \in Jobs, SendLine(j)
      PROVE  \A k \in Jobs : JobInv(k)'
  <2>1. \A k \in Jobs : k # j => Undisturbed(k)
    BY <1>1, <1>7 DEF SendLine, Undisturbed
  <2>2. JobInv(j)'
    BY <1>1, <1>2, <1>7 DEF SendLine, JobInv, PathInv, OneExecInv, ShellInv, InFlight, RecordInv, VerdictInv, Authorised, AdmissionPCs, ConfirmPCs, SessOf
  <2> QED
    BY <1>1, <2>1, <2>2, UndisturbedKeeps
<1>8. ASSUME NEW j \in Jobs, SendFails(j) \/ WriteTimesOut(j)
      PROVE  \A k \in Jobs : JobInv(k)'
  <2>1. /\ exec[j] \in {"writing", "sent"} /\ exec' = [exec EXCEPT ![j] = "failed"]
        /\ StartFailed(j)
        /\ UNCHANGED <<lifeVars, registryVars, dead, detached, req, background, pc, resolver, watch, auditVars>>
        /\ onShell' \subseteq onShell
        /\ \A k \in onShell' : SessOf(k) \in reaped' => SessOf(k) \in reaped
        /\ j \in onShell' => SessOf(j) \in dead \/ j \notin onShell
    BY <1>1, <1>8 DEF SendFails, WriteTimesOut, StartFailed, CloseTransport, JobInv, OneExecInv
  <2>2. \A k \in Jobs : k # j /\ InFlight(k) => SessOf(k) \in dead \/ current'[SessOf(k)] = current[SessOf(k)]
    BY <1>1, <2>1, <1>u, StartFailedEffect
  <2>3. \A k \in Jobs : k # j => Undisturbed(k)
    BY <1>1, <2>1, <2>2 DEF Undisturbed, SessOf
  <2>4. JobInv(j)'
    BY <1>1, <1>2, <2>1 DEF JobInv, PathInv, OneExecInv, ShellInv, InFlight, RecordInv, VerdictInv, Authorised, AdmissionPCs, ConfirmPCs, SessOf
  <2> QED
    BY <1>1, <2>3, <2>4, UndisturbedKeeps
<1>9. ASSUME NEW j \in Jobs, SendReturns(j)
      PROVE  \A k \in Jobs : JobInv(k)'
  <2>1. \A k \in Jobs : k # j => Undisturbed(k)
    BY <1>1, <1>9 DEF SendReturns, Undisturbed
  <2>2. JobInv(j)'
    BY <1>1, <1>2, <1>9 DEF SendReturns, JobInv, PathInv, OneExecInv, ShellInv, InFlight, RecordInv, VerdictInv, Authorised, AdmissionPCs, ConfirmPCs, SessOf
  <2> QED
    BY <1>1, <2>1, <2>2, UndisturbedKeeps
<1>10. ASSUME NEW j \in Jobs, Register(j)
      PROVE  \A k \in Jobs : JobInv(k)'
  <2>1. \A k \in Jobs : k # j => Undisturbed(k)
    BY <1>1, <1>10 DEF Register, Undisturbed
  <2>2. JobInv(j)'
    BY <1>1, <1>2, <1>10 DEF Register, JobInv, PathInv, OneExecInv, ShellInv, InFlight, RecordInv, VerdictInv, Authorised, AdmissionPCs, ConfirmPCs, SessOf
  <2> QED
    BY <1>1, <2>1, <2>2, UndisturbedKeeps
<1>11. ASSUME NEW j \in Jobs, RegisterFailed(j)
      PROVE  \A k \in Jobs : JobInv(k)'
  <2>1. \A k \in Jobs : k # j => Undisturbed(k)
    BY <1>1, <1>11 DEF RegisterFailed, Undisturbed
  <2>2. JobInv(j)'
    BY <1>1, <1>2, <1>11 DEF RegisterFailed, JobInv, PathInv, OneExecInv, ShellInv, InFlight, RecordInv, VerdictInv, Authorised, AdmissionPCs, ConfirmPCs, SessOf
  <2> QED
    BY <1>1, <2>1, <2>2, UndisturbedKeeps
<1>12. ASSUME NEW j \in Jobs, Announce(j)
      PROVE  \A k \in Jobs : JobInv(k)'
  <2>1. /\ trail' \in [Jobs -> SUBSET Events]
        /\ \A k \in Jobs : /\ trail[k] \subseteq trail'[k]
                           /\ trail'[k] \cap {"approved", "denied"} = trail[k] \cap {"approved", "denied"}
    <3>1. PICK ok \in BOOLEAN : Publish(j, "started", ok)
      BY <1>12 DEF Announce
    <3> QED
      BY <1>1, <3>1, PublishKeeps DEF Events
  <2>2. \A k \in Jobs : k # j => Undisturbed(k)
    BY <1>1, <1>12, <2>1 DEF Announce, Undisturbed
  <2>3. JobInv(j)'
    BY <1>1, <1>12, <2>1 DEF Announce, JobInv, PathInv, OneExecInv, ShellInv, InFlight, RecordInv, VerdictInv, Authorised, AdmissionPCs, ConfirmPCs, SessOf
  <2> QED
    BY <1>1, <2>2, <2>3, UndisturbedKeeps
<1>13. ASSUME NEW j \in Jobs, HandBack(j)
      PROVE  \A k \in Jobs : JobInv(k)'
  <2>1. \A k \in Jobs : k # j => Undisturbed(k)
    BY <1>1, <1>13 DEF HandBack, Undisturbed
  <2>2. JobInv(j)'
    BY <1>1, <1>2, <1>13 DEF HandBack, JobInv, PathInv, OneExecInv, ShellInv, InFlight, RecordInv, VerdictInv, Authorised, AdmissionPCs, ConfirmPCs, SessOf
  <2> QED
    BY <1>1, <2>1, <2>2, UndisturbedKeeps
<1>14. ASSUME NEW j \in Jobs, Park(j)
      PROVE  \A k \in Jobs : JobInv(k)'
  <2>1. \A k \in Jobs : k # j => Undisturbed(k)
    BY <1>1, <1>14 DEF Park, Undisturbed
  <2>2. JobInv(j)'
    BY <1>1, <1>2, <1>14 DEF Park, JobInv, PathInv, OneExecInv, ShellInv, InFlight, RecordInv, VerdictInv, Authorised, AdmissionPCs, ConfirmPCs, SessOf
  <2> QED
    BY <1>1, <2>1, <2>2, UndisturbedKeeps
<1>15. ASSUME NEW j \in Jobs, PersistParked(j)
      PROVE  \A k \in Jobs : JobInv(k)'
  <2>1. \A k \in Jobs : k # j => Undisturbed(k)
    BY <1>1, <1>15 DEF PersistParked, Undisturbed
  <2>2. JobInv(j)'
    BY <1>1, <1>2, <1>15 DEF PersistParked, JobInv, PathInv, OneExecInv, ShellInv, InFlight, RecordInv, VerdictInv, Authorised, AdmissionPCs, ConfirmPCs, SessOf
  <2> QED
    BY <1>1, <2>1, <2>2, UndisturbedKeeps
<1>16. ASSUME NEW j \in Jobs, AskHuman(j)
      PROVE  \A k \in Jobs : JobInv(k)'
  <2>1. /\ trail' \in [Jobs -> SUBSET Events]
        /\ \A k \in Jobs : /\ trail[k] \subseteq trail'[k]
                           /\ trail'[k] \cap {"approved", "denied"} = trail[k] \cap {"approved", "denied"}
    <3>1. PICK ok \in BOOLEAN : Publish(j, "confirm_requested", ok) /\ (pc'[j] = "arming" => ok)
      BY <1>1, <1>16 DEF AskHuman
    <3> QED
      BY <1>1, <3>1, PublishKeeps DEF Events
  <2>2. /\ pc[j] = "asking"
        /\ pc' \in {[pc EXCEPT ![j] = "arming"], [pc EXCEPT ![j] = "refused"]}
        /\ pending' \in {pending, pending \ {j}}
        /\ UNCHANGED <<drained, dead, reaped, current, onShell, req, exec, resolver>>
    BY <1>16 DEF AskHuman
  <2>3. \A k \in Jobs : k # j => Undisturbed(k)
    BY <1>1, <2>1, <2>2 DEF Undisturbed
  <2>4. JobInv(j)'
    BY <1>1, <2>1, <2>2 DEF JobInv, PathInv, OneExecInv, ShellInv, InFlight, RecordInv, VerdictInv, Authorised, AdmissionPCs, ConfirmPCs, SessOf
  <2> QED
    BY <1>1, <2>3, <2>4, UndisturbedKeeps
<1>17. ASSUME NEW j \in Jobs, ArmTimer(j)
      PROVE  \A k \in Jobs : JobInv(k)'
  <2>1. \A k \in Jobs : k # j => Undisturbed(k)
    BY <1>1, <1>17 DEF ArmTimer, Undisturbed
  <2>2. JobInv(j)'
    BY <1>1, <1>2, <1>17 DEF ArmTimer, JobInv, PathInv, OneExecInv, ShellInv, InFlight, RecordInv, VerdictInv, Authorised, AdmissionPCs, ConfirmPCs, SessOf
  <2> QED
    BY <1>1, <2>1, <2>2, UndisturbedKeeps
<1>18. ASSUME NEW j \in Jobs, Approve(j)
      PROVE  \A k \in Jobs : JobInv(k)'
  <2>1. \A k \in Jobs : k # j => Undisturbed(k)
    BY <1>1, <1>18 DEF Approve, TakePending, Undisturbed
  <2>2. JobInv(j)'
    BY <1>1, <1>2, <1>18 DEF Approve, TakePending, JobInv, PathInv, OneExecInv, ShellInv, InFlight, RecordInv, VerdictInv, Authorised, AdmissionPCs, ConfirmPCs, SessOf
  <2> QED
    BY <1>1, <2>1, <2>2, UndisturbedKeeps
<1>19. ASSUME NEW j \in Jobs, RecordApproval(j)
      PROVE  \A k \in Jobs : JobInv(k)'
  <2>1. PICK ok \in BOOLEAN : Publish(j, "approved", ok) /\ (resolver'[j] = "authorised" => ok)
    BY <1>1, <1>19 DEF RecordApproval
  <2>2. /\ trail' \in [Jobs -> SUBSET Events]
        /\ \A k \in Jobs : k # j => trail'[k] = trail[k]
        /\ trail'[j] = trail[j] \/ trail'[j] = trail[j] \cup {"approved"}
        /\ ok => drained \/ "approved" \in trail'[j]
    <3>1. "approved" \in Events
      BY DEF Events
    <3> QED
      BY <1>1, <2>1, <3>1, PublishEffect, SMTT(60)
  <2>3. \A k \in Jobs : k # j => Undisturbed(k)
    BY <1>1, <1>19, <2>2, ZenonT(60) DEF RecordApproval, Undisturbed
  <2>4. ShellInv(j)'
    BY <1>1, <1>19 DEF RecordApproval, JobInv, ShellInv, InFlight, SessOf
  <2>5. JobInv(j)'
    BY <1>1, <1>19, <2>1, <2>2, <2>4, ZenonT(60) DEF RecordApproval, JobInv, PathInv, OneExecInv, RecordInv, VerdictInv, Authorised, AdmissionPCs, ConfirmPCs, SessOf
  <2> QED
    BY <1>1, <2>3, <2>5, UndisturbedKeeps
<1>20. ASSUME NEW j \in Jobs, ExecApproved(j)
      PROVE  \A k \in Jobs : JobInv(k)'
  <2>1. \A k \in Jobs : k # j /\ InFlight(k) => SessOf(k) \in dead \/ current'[SessOf(k)] = current[SessOf(k)]
    BY <1>1, <1>20, <1>u, AttachEffect DEF ExecApproved
  <2>2. \A k \in Jobs : k # j => Undisturbed(k)
    BY <1>1, <1>20, <2>1, AttachEffect, NoJobIsNoJob DEF ExecApproved, Undisturbed, SessOf
  <2>3. ShellInv(j)'
    <3>1. SessOf(j) \in Sessions /\ pc'[j] # "idle" /\ j \notin onShell
      BY <1>1, <1>20, EngineConstants DEF ExecApproved, JobInv, PathInv, OneExecInv, SessOf
    <3> QED
      BY <1>20, <3>1, AttachEffect DEF ExecApproved, ShellInv, InFlight, SessOf
  <2>4. JobInv(j)'
    BY <1>1, <1>2, <1>20, <2>3, AttachEffect, NoJobIsNoJob DEF ExecApproved, JobInv, PathInv, OneExecInv, RecordInv, VerdictInv, Authorised, AdmissionPCs, ConfirmPCs, SessOf
  <2> QED
    BY <1>1, <2>2, <2>4, UndisturbedKeeps
<1>21. ASSUME NEW j \in Jobs, AnnounceApproved(j)
      PROVE  \A k \in Jobs : JobInv(k)'
  <2>1. /\ trail' \in [Jobs -> SUBSET Events]
        /\ \A k \in Jobs : /\ trail[k] \subseteq trail'[k]
                           /\ trail'[k] \cap {"approved", "denied"} = trail[k] \cap {"approved", "denied"}
    <3>1. CASE exec[j] = "ok"
      <4>1. PICK ok \in BOOLEAN : Publish(j, "started", ok)
        BY <3>1, <1>21 DEF AnnounceApproved
      <4> QED
        BY <1>1, <4>1, PublishKeeps DEF Events
    <3>2. CASE exec[j] # "ok"
      BY <1>1, <3>2, <1>21 DEF AnnounceApproved
    <3> QED
      BY <3>1, <3>2
  <2>2. \A k \in Jobs : k # j => Undisturbed(k)
    BY <1>1, <1>21, <2>1 DEF AnnounceApproved, Undisturbed
  <2>3. JobInv(j)'
    BY <1>1, <1>21, <2>1 DEF AnnounceApproved, JobInv, PathInv, OneExecInv, ShellInv, InFlight, RecordInv, VerdictInv, Authorised, AdmissionPCs, ConfirmPCs, SessOf
  <2> QED
    BY <1>1, <2>2, <2>3, UndisturbedKeeps
<1>22. ASSUME NEW j \in Jobs, ReleaseApproval(j)
      PROVE  \A k \in Jobs : JobInv(k)'
  <2>1. \A k \in Jobs : k # j => Undisturbed(k)
    BY <1>1, <1>22 DEF ReleaseApproval, Undisturbed
  <2>2. JobInv(j)'
    BY <1>1, <1>2, <1>22 DEF ReleaseApproval, JobInv, PathInv, OneExecInv, ShellInv, InFlight, RecordInv, VerdictInv, Authorised, AdmissionPCs, ConfirmPCs, SessOf
  <2> QED
    BY <1>1, <2>1, <2>2, UndisturbedKeeps
<1>23. ASSUME NEW j \in Jobs, Deny(j)
      PROVE  \A k \in Jobs : JobInv(k)'
  <2>1. \A k \in Jobs : k # j => Undisturbed(k)
    BY <1>1, <1>23 DEF Deny, TakePending, Undisturbed
  <2>2. JobInv(j)'
    BY <1>1, <1>2, <1>23 DEF Deny, TakePending, JobInv, PathInv, OneExecInv, ShellInv, InFlight, RecordInv, VerdictInv, Authorised, AdmissionPCs, ConfirmPCs, SessOf
  <2> QED
    BY <1>1, <2>1, <2>2, UndisturbedKeeps
<1>24. ASSUME NEW j \in Jobs, KillPending(j)
      PROVE  \A k \in Jobs : JobInv(k)'
  <2>1. \A k \in Jobs : k # j => Undisturbed(k)
    BY <1>1, <1>24 DEF KillPending, TakePending, Undisturbed
  <2>2. JobInv(j)'
    BY <1>1, <1>2, <1>24 DEF KillPending, TakePending, JobInv, PathInv, OneExecInv, ShellInv, InFlight, RecordInv, VerdictInv, Authorised, AdmissionPCs, ConfirmPCs, SessOf
  <2> QED
    BY <1>1, <2>1, <2>2, UndisturbedKeeps
<1>25. ASSUME NEW j \in Jobs, Withdraw(j)
      PROVE  \A k \in Jobs : JobInv(k)'
  <2>2. /\ trail' \in [Jobs -> SUBSET Events]
        /\ \A k \in Jobs : k # j => trail'[k] = trail[k]
        /\ trail'[j] = trail[j] \/ trail'[j] = trail[j] \cup {"denied"}
    <3>1. CASE UNCHANGED auditVars
      BY <1>1, <3>1
    <3>2. CASE \E ok \in BOOLEAN : Publish(j, "denied", ok)
      <4>1. PICK ok \in BOOLEAN : Publish(j, "denied", ok)
        BY <3>2
      <4>2. "denied" \in Events
        BY DEF Events
      <4> QED
        BY <1>1, <4>1, <4>2, PublishEffect, SMTT(60)
    <3> QED
      BY <1>25, <3>1, <3>2 DEF Withdraw
  <2>3. \A k \in Jobs : k # j => Undisturbed(k)
    BY <1>1, <1>25, <2>2 DEF Withdraw, Undisturbed
  <2>4. JobInv(j)'
    BY <1>1, <1>25, <2>2 DEF Withdraw, JobInv, PathInv, OneExecInv, ShellInv, InFlight, RecordInv, VerdictInv, Authorised, AdmissionPCs, ConfirmPCs, SessOf
  <2> QED
    BY <1>1, <2>3, <2>4, UndisturbedKeeps
<1>26. ASSUME NEW j \in Jobs, Complete(j)
      PROVE  \A k \in Jobs : JobInv(k)'
  <2>1. \A k \in Jobs : k # j /\ InFlight(k) => SessOf(k) \in dead \/ current'[SessOf(k)] = current[SessOf(k)]
    BY <1>1, <1>26, <1>u DEF Complete
  <2>2. \A k \in Jobs : k # j => Undisturbed(k)
    BY <1>1, <1>26, <2>1 DEF Complete, Undisturbed, SessOf
  <2>3. JobInv(j)'
    BY <1>1, <1>2, <1>26 DEF Complete, JobInv, PathInv, OneExecInv, ShellInv, InFlight, RecordInv, VerdictInv, Authorised, AdmissionPCs, ConfirmPCs, SessOf
  <2> QED
    BY <1>1, <2>2, <2>3, UndisturbedKeeps
<1>27. ASSUME NEW j \in Jobs, Watch(j)
      PROVE  \A k \in Jobs : JobInv(k)'
  <2>1. /\ trail' \in [Jobs -> SUBSET Events]
        /\ \A k \in Jobs : /\ trail[k] \subseteq trail'[k]
                           /\ trail'[k] \cap {"approved", "denied"} = trail[k] \cap {"approved", "denied"}
    <3>1. PICK ok \in BOOLEAN : Publish(j, "finished", ok)
      BY <1>27 DEF Watch
    <3> QED
      BY <1>1, <3>1, PublishKeeps DEF Events
  <2>2. \A k \in Jobs : k # j => Undisturbed(k)
    BY <1>1, <1>27, <2>1 DEF Watch, Undisturbed
  <2>3. JobInv(j)'
    BY <1>1, <1>27, <2>1 DEF Watch, JobInv, PathInv, OneExecInv, ShellInv, InFlight, RecordInv, VerdictInv, Authorised, AdmissionPCs, ConfirmPCs, SessOf
  <2> QED
    BY <1>1, <2>2, <2>3, UndisturbedKeeps
<1>28. ASSUME NEW j \in Jobs, Collect(j)
      PROVE  \A k \in Jobs : JobInv(k)'
  <2>1. \A k \in Jobs : k # j => Undisturbed(k)
    BY <1>1, <1>28 DEF Collect, Undisturbed
  <2>2. JobInv(j)'
    BY <1>1, <1>2, <1>28 DEF Collect, JobInv, PathInv, OneExecInv, ShellInv, InFlight, RecordInv, VerdictInv, Authorised, AdmissionPCs, ConfirmPCs, SessOf
  <2> QED
    BY <1>1, <2>1, <2>2, UndisturbedKeeps
<1>29. ASSUME NEW j \in Jobs, FinalizeDetached(j)
      PROVE  \A k \in Jobs : JobInv(k)'
  <2>1. \A k \in Jobs : k # j => Undisturbed(k)
    BY <1>1, <1>29 DEF FinalizeDetached, Undisturbed
  <2>2. JobInv(j)'
    BY <1>1, <1>2, <1>29 DEF FinalizeDetached, JobInv, PathInv, OneExecInv, ShellInv, InFlight, RecordInv, VerdictInv, Authorised, AdmissionPCs, ConfirmPCs, SessOf
  <2> QED
    BY <1>1, <2>1, <2>2, UndisturbedKeeps
\* A step that closes a session, or kills its shell.
<1>c. ASSUME NEW s \in Sessions, dead \subseteq dead', s \in dead' \/ UNCHANGED current,
             \A q \in Sessions : q # s => current'[q] = current[q], onShell' \subseteq onShell,
             \A k \in onShell' : SessOf(k) \in reaped' => SessOf(k) \in reaped,
             UNCHANGED <<drained, pending, req, exec, resolver, trail>>,
             NEW k \in Jobs, pc'[k] = pc[k]
      PROVE  Undisturbed(k)
  <2>1. InFlight(k) => SessOf(k) \in Sessions
    BY <1>1, EngineConstants DEF JobInv, PathInv, ShellInv, SessOf
  <2> QED
    BY <1>c, <2>1 DEF Undisturbed
<1>30. ASSUME NEW s \in Sessions, ShellExits(s)
      PROVE  \A k \in Jobs : JobInv(k)'
  <2>1. /\ onShell' \subseteq onShell
        /\ \A k \in onShell' : SessOf(k) \in reaped' => SessOf(k) \in reaped
        /\ UNCHANGED <<drained, pending, pc, req, exec, resolver, trail>>
    BY <1>30 DEF ShellExits, CloseTransport
  <2>2. /\ dead \subseteq dead' /\ (s \in dead' \/ UNCHANGED current)
        /\ \A q \in Sessions : q # s => current'[q] = current[q]
    BY <1>1, <1>30, TerminateEffect DEF ShellExits
  <2>3. \A k \in Jobs : Undisturbed(k)
    BY <1>c, <2>1, <2>2
  <2> QED
    BY <1>1, <2>3, UndisturbedKeeps
<1>31. ASSUME NEW s \in Sessions, BeginClose(s) \/ FinishClose(s)
      PROVE  \A k \in Jobs : JobInv(k)'
  <2>1. /\ onShell' \subseteq onShell
        /\ \A k \in onShell' : SessOf(k) \in reaped' => SessOf(k) \in reaped
        /\ UNCHANGED <<drained, pending, pc, req, exec, resolver, trail>>
    BY <1>31 DEF BeginClose, FinishClose, CloseTransport
  <2>2. /\ dead \subseteq dead' /\ (s \in dead' \/ UNCHANGED current)
        /\ \A q \in Sessions : q # s => current'[q] = current[q]
    BY <1>1, <1>31, TerminateEffect DEF BeginClose, FinishClose
  <2>3. \A k \in Jobs : Undisturbed(k)
    BY <1>c, <2>1, <2>2
  <2> QED
    BY <1>1, <2>3, UndisturbedKeeps
<1>32. ASSUME NEW j \in Jobs, CloseAfterShutdown(j) \/ KillLate(j)
      PROVE  \A k \in Jobs : JobInv(k)'
  <2>1. SessOf(j) \in Sessions /\ pc[j] \in {"closing", "killing"} /\ pc' \in {[pc EXCEPT ![j] = "killing"], [pc EXCEPT ![j] = "refused"]}
    BY <1>1, <1>32, EngineConstants DEF JobInv, PathInv, CloseAfterShutdown, KillLate, SessOf
  <2>2. /\ onShell' \subseteq onShell
        /\ \A k \in onShell' : SessOf(k) \in reaped' => SessOf(k) \in reaped
        /\ UNCHANGED <<drained, pending, req, exec, resolver, trail>>
    BY <1>32 DEF CloseAfterShutdown, KillLate, CloseTransport
  <2>3. /\ dead \subseteq dead' /\ (SessOf(j) \in dead' \/ UNCHANGED current)
        /\ \A q \in Sessions : q # SessOf(j) => current'[q] = current[q]
    BY <1>1, <1>32, <2>1, TerminateEffect DEF CloseAfterShutdown, KillLate
  <2>4. \A k \in Jobs : k # j => Undisturbed(k)
    BY <1>1, <1>c, <2>1, <2>2, <2>3
  <2>5. ShellInv(j)'
    BY <1>1, <2>1, <2>2, <2>3 DEF JobInv, ShellInv, InFlight, SessOf
  <2>6. JobInv(j)'
    BY <1>1, <2>1, <2>2, <2>5 DEF JobInv, PathInv, OneExecInv, RecordInv, VerdictInv, Authorised, AdmissionPCs, ConfirmPCs, SessOf
  <2> QED
    BY <1>1, <2>4, <2>6, UndisturbedKeeps
<1>33. ASSUME NEW s \in Sessions, CloseSession(s)
      PROVE  \A k \in Jobs : JobInv(k)'
  <2> SUFFICES ASSUME NEW k \in Jobs PROVE JobInv(k)'
    OBVIOUS
  <2>1. CASE k \in pending /\ k \notin pending'
    BY <1>1, <1>33, <2>1 DEF CloseSession, JobInv, PathInv, OneExecInv, ShellInv, InFlight, RecordInv, VerdictInv, Authorised, AdmissionPCs, ConfirmPCs, SessOf
  <2>2. CASE (k \in pending') = (k \in pending)
    <3>1. Undisturbed(k)
      BY <1>1, <1>33, <2>2 DEF CloseSession, Undisturbed
    <3> QED
      BY <1>1, <3>1, UndisturbedKeeps
  <2>3. pending' \subseteq pending
    BY <1>33 DEF CloseSession
  <2> QED
    BY <2>1, <2>2, <2>3
<1>34. ASSUME Shutdown
      PROVE  \A k \in Jobs : JobInv(k)'
  <2> SUFFICES ASSUME NEW k \in Jobs PROVE JobInv(k)'
    OBVIOUS
  <2>1. CASE k \in pending /\ k \notin pending'
    BY <1>1, <1>34, <2>1 DEF Shutdown, JobInv, PathInv, OneExecInv, ShellInv, InFlight, RecordInv, VerdictInv, Authorised, AdmissionPCs, ConfirmPCs, SessOf
  <2>2. CASE (k \in pending') = (k \in pending)
    <3>1. Undisturbed(k)
      BY <1>1, <1>34, <2>2 DEF Shutdown, Undisturbed
    <3> QED
      BY <1>1, <3>1, UndisturbedKeeps
  <2>3. pending' \subseteq pending
    BY <1>34 DEF Shutdown
  <2> QED
    BY <2>1, <2>2, <2>3
<1>35. ASSUME Drain
      PROVE  \A k \in Jobs : JobInv(k)'
  <2>1. \A k \in Jobs : Undisturbed(k)
    BY <1>1, <1>35 DEF Drain, Undisturbed
  <2> QED
    BY <1>1, <2>1, UndisturbedKeeps
<1>36. ASSUME AuditFails
      PROVE  \A k \in Jobs : JobInv(k)'
  <2>1. \A k \in Jobs : Undisturbed(k)
    BY <1>1, <1>36 DEF AuditFails, Undisturbed
  <2> QED
    BY <1>1, <2>1, UndisturbedKeeps
<1>37. ASSUME UNCHANGED vars
      PROVE  \A k \in Jobs : JobInv(k)'
  <2>1. \A k \in Jobs : Undisturbed(k)
    BY <1>1, <1>37 DEF Undisturbed
  <2> QED
    BY <1>1, <2>1, UndisturbedKeeps
<1> QED
  BY <1>3, <1>4, <1>5, <1>6, <1>7, <1>8, <1>9, <1>10, <1>11, <1>12, <1>13, <1>14, <1>15,
     <1>16, <1>17, <1>18, <1>19, <1>20, <1>21, <1>22, <1>23, <1>24, <1>25, <1>26, <1>27,
     <1>28, <1>29, <1>30, <1>31, <1>32, <1>33, <1>34, <1>35, <1>36, <1>37
     DEF Next, JobStep, StartStep, ShellStep, ResolveStep, SessionStep, TimeOut, AtRest

\* A session takes the next command only when it is open and has none, and whatever
\* is in flight on an open session is its current command.
LEMMA LoneNext ==
  ASSUME TypeOK, \A k \in Jobs : JobInv(k), LoneInv, [Next]_vars
  PROVE  LoneInv'
<1> USE DEF vars, lifeVars, registryVars, shellVars, jobVars, auditVars
<1>q. ASSUME \A k \in Jobs : InFlight(k)' => InFlight(k) /\ req'[k] = req[k]
      PROVE  LoneInv'
  BY <1>q DEF LoneInv, SessOf
<1>1. ASSUME NEW j \in Jobs, NEW r \in Requests, Arrive(j, r) PROVE LoneInv'
  <2>1. ~InFlight(j) /\ \A k \in Jobs : k # j => req'[k] = req[k]
    BY <1>1 DEF Arrive, JobInv, ShellInv, TypeOK
  <2> QED
    BY <1>1, <1>q, <2>1 DEF Arrive, InFlight
<1>2. ASSUME NEW j \in Jobs, ExecStart(j) \/ ExecApproved(j) PROVE LoneInv'
  <2>1. Attach(j) /\ UNCHANGED <<req, onShell>>
    BY <1>2 DEF ExecStart, ExecApproved
  <2>2. \A k \in Jobs : k # j => exec'[k] = exec[k]
    BY <2>1, AttachEffect
  <2>3. CASE exec'[j] = "writing"
    <3>1. SessOf(j) \notin dead /\ current[SessOf(j)] = NoJob
      BY <2>1, <2>3 DEF Attach, TypeOK
    <3>2. \A k \in Jobs : InFlight(k) => SessOf(k) # SessOf(j)
      BY <3>1, NoJobIsNoJob DEF JobInv, ShellInv
    <3>3. \A k \in Jobs : InFlight(k)' /\ k # j => InFlight(k)
      BY <2>1, <2>2 DEF InFlight
    <3> QED
      BY <2>1, <3>2, <3>3 DEF LoneInv, SessOf
  <2>4. CASE exec'[j] # "writing"
    BY <1>q, <2>1, <2>2, <2>4 DEF InFlight
  <2> QED
    BY <2>3, <2>4
<1>3. ASSUME NEW j \in Jobs, ShellStep(j) PROVE LoneInv'
  <2>1. /\ UNCHANGED req
        /\ \A k \in Jobs : exec'[k] = "writing" => exec[k] = "writing"
        /\ \A k \in Jobs : k \in onShell' => k \in onShell \/ exec[k] = "writing"
    BY <1>3 DEF ShellStep, SendLine, SendFails, WriteTimesOut, SendReturns, StartFailed, CloseTransport, TypeOK
  <2> QED
    BY <1>q, <2>1 DEF InFlight
<1>4. ASSUME NEW j \in Jobs,
             \/ Admit(j) \/ RecordIntent(j) \/ Register(j) \/ RegisterFailed(j) \/ Announce(j)
             \/ Park(j) \/ PersistParked(j) \/ AskHuman(j) \/ ArmTimer(j) \/ CloseAfterShutdown(j)
             \/ KillLate(j)
      PROVE  LoneInv'
  <2>1. UNCHANGED <<req, exec>> /\ onShell' \subseteq onShell
    BY <1>4 DEF Admit, RecordIntent, Register, RegisterFailed, Announce, Park, PersistParked, AskHuman,
       ArmTimer, CloseAfterShutdown, KillLate, CloseTransport
  <2> QED
    BY <1>q, <2>1 DEF InFlight
<1>5. ASSUME NEW j \in Jobs,
             \/ RecordApproval(j) \/ AnnounceApproved(j) \/ ReleaseApproval(j) \/ Withdraw(j)
             \/ HandBack(j) \/ Approve(j) \/ Deny(j) \/ TimeOut(j) \/ KillPending(j)
             \/ Complete(j) \/ Watch(j) \/ Collect(j) \/ FinalizeDetached(j)
      PROVE  LoneInv'
  <2>1. UNCHANGED <<req, exec>> /\ onShell' \subseteq onShell
    BY <1>5 DEF RecordApproval, AnnounceApproved, ReleaseApproval, Withdraw, HandBack, Approve, Deny,
       TimeOut, KillPending, Complete, Watch, Collect, FinalizeDetached
  <2> QED
    BY <1>q, <2>1 DEF InFlight
<1>6. ASSUME \/ \E s \in Sessions : SessionStep(s)
             \/ Shutdown \/ Drain \/ AuditFails \/ UNCHANGED vars
      PROVE  LoneInv'
  <2>1. UNCHANGED <<req, exec>> /\ onShell' \subseteq onShell
    BY <1>6 DEF SessionStep, ShellExits, CloseSession, BeginClose, FinishClose, CloseTransport, Shutdown,
       Drain, AuditFails
  <2> QED
    BY <1>q, <2>1 DEF InFlight
<1> QED
  BY <1>1, <1>2, <1>3, <1>4, <1>5, <1>6 DEF Next, JobStep, StartStep, ResolveStep, AtRest

\* Whoever closes a session, or finds it closed on the way, kills its shell.
LEMMA DeadNext ==
  ASSUME TypeOK, \A k \in Jobs : JobInv(k), DeadInv, [Next]_vars
  PROVE  DeadInv'
<1> USE DEF vars, lifeVars, registryVars, shellVars, jobVars, auditVars
<1>q. ASSUME dead' \ reaped' \subseteq dead \ reaped,
             \A s \in Sessions : closing[s] # "none" => closing'[s] # "none" \/ s \in reaped',
             \A k \in Jobs : pc[k] \in {"closing", "killing"} =>
               req'[k] = req[k] /\ (pc'[k] \in {"closing", "killing"} \/ SessOf(k) \in reaped')
      PROVE  DeadInv'
  <2> SUFFICES ASSUME NEW s \in dead' \ reaped' PROVE Dying(s)'
    BY DEF DeadInv
  <2>1. s \in dead' /\ s \notin reaped' /\ s \in Sessions /\ Dying(s)
    BY <1>q DEF DeadInv, TypeOK
  <2> QED
    BY <1>q, <2>1 DEF Dying, SessOf
<1>1. ASSUME NEW j \in Jobs, NEW r \in Requests, Arrive(j, r) PROVE DeadInv'
  <2>1. /\ UNCHANGED <<dead, reaped, closing>>
        /\ pc[j] = "idle" /\ \A k \in Jobs : k # j => req'[k] = req[k] /\ pc'[k] = pc[k]
    BY <1>1 DEF Arrive, TypeOK
  <2> QED
    BY <1>q, <2>1
<1>2. ASSUME NEW j \in Jobs,
             \/ Admit(j) \/ RecordIntent(j) \/ ExecStart(j) \/ Register(j) \/ RegisterFailed(j)
             \/ Announce(j) \/ HandBack(j)
             \/ Park(j) \/ PersistParked(j) \/ AskHuman(j) \/ ArmTimer(j)
      PROVE  DeadInv'
  <2>1. UNCHANGED <<dead, reaped, closing, req>> /\ pc[j] \notin {"closing", "killing"}
    BY <1>2 DEF Admit, RecordIntent, ExecStart, Register, RegisterFailed, Announce, HandBack, Park,
       PersistParked, AskHuman, ArmTimer
  <2>2. \A k \in Jobs : k # j => pc'[k] = pc[k]
    BY <1>2, ZenonT(60) DEF Admit, RecordIntent, ExecStart, Register, RegisterFailed, Announce, HandBack, Park,
       PersistParked, AskHuman, ArmTimer, TypeOK
  <2> QED
    BY <1>q, <2>1, <2>2
<1>3. ASSUME NEW j \in Jobs, ShellStep(j) PROVE DeadInv'
  <2>1. UNCHANGED <<dead, closing, req, pc>> /\ reaped \subseteq reaped'
    BY <1>3 DEF ShellStep, SendLine, SendFails, WriteTimesOut, SendReturns, CloseTransport
  <2> QED
    BY <1>q, <2>1
<1>4. ASSUME NEW j \in Jobs, CloseAfterShutdown(j) \/ KillLate(j) PROVE DeadInv'
  <2>1. SessOf(j) \in Sessions
    BY <1>4, EngineConstants DEF JobInv, PathInv, CloseAfterShutdown, KillLate, SessOf
  <2>2. UNCHANGED <<closing, req>> /\ \A k \in Jobs : k # j => pc'[k] = pc[k]
    BY <1>4 DEF CloseAfterShutdown, KillLate, TypeOK
  <2>3. CASE Terminate(SessOf(j), "start") /\ pc' = [pc EXCEPT ![j] = "killing"] /\ UNCHANGED <<reaped, onShell>>
    <3>1. dead' = dead \cup {SessOf(j)} /\ pc'[j] = "killing" /\ UNCHANGED reaped
      BY <2>1, <2>3, TerminateEffect DEF TypeOK
    <3>2. \A s \in Sessions : s = SessOf(j) => Dying(s)'
      BY <2>2, <3>1 DEF Dying, SessOf
    <3>3. \A s \in Sessions : Dying(s) => Dying(s)'
      BY <2>2, <3>1 DEF Dying, SessOf
    <3>4. \A s \in dead' \ reaped' : s \in Sessions /\ (s = SessOf(j) \/ Dying(s))
      BY <2>1, <3>1 DEF DeadInv, TypeOK
    <3>5. \A s \in dead' \ reaped' : Dying(s)'
      BY <3>2, <3>3, <3>4
    <3> QED
      BY <3>5 DEF DeadInv
  <2>4. CASE CloseTransport(SessOf(j)) /\ UNCHANGED dead
    <3>1. UNCHANGED <<dead, closing, req>> /\ reaped' = reaped \cup {SessOf(j)}
      BY <2>2, <2>4 DEF CloseTransport
    <3>2. \A k \in Jobs : pc[k] \in {"closing", "killing"} => pc'[k] \in {"closing", "killing"} \/ SessOf(k) \in reaped'
      BY <2>2, <3>1
    <3> QED
      BY <1>q, <3>1, <3>2
  <2> QED
    BY <1>4, <2>3, <2>4 DEF CloseAfterShutdown, KillLate
<1>5. ASSUME NEW j \in Jobs,
             \/ RecordApproval(j) \/ ExecApproved(j) \/ AnnounceApproved(j) \/ ReleaseApproval(j)
             \/ Withdraw(j) \/ Approve(j) \/ Deny(j) \/ TimeOut(j) \/ KillPending(j)
             \/ Complete(j) \/ Watch(j) \/ Collect(j) \/ FinalizeDetached(j)
      PROVE  DeadInv'
  <2>1. UNCHANGED <<dead, reaped, closing, req, pc>>
    BY <1>5 DEF RecordApproval, ExecApproved, AnnounceApproved, ReleaseApproval, Withdraw, Approve, Deny,
       TimeOut, KillPending, Complete, Watch, Collect, FinalizeDetached
  <2> QED
    BY <1>q, <2>1
<1>6. ASSUME NEW s \in Sessions, SessionStep(s) PROVE DeadInv'
  <2>1. UNCHANGED <<req, pc>>
    BY <1>6 DEF SessionStep, ShellExits, CloseSession, BeginClose, FinishClose
  <2>2. CASE ShellExits(s)
    <3>1. UNCHANGED closing /\ reaped' = reaped \cup {s} /\ dead' \subseteq dead \cup {s}
      BY <2>2, TerminateEffect DEF ShellExits, CloseTransport
    <3> QED
      BY <1>q, <2>1, <3>1
  <2>3. CASE CloseSession(s)
    <3>1. UNCHANGED <<dead, reaped>> /\ \A q \in Sessions : closing[q] # "none" => closing'[q] # "none"
      BY <2>3 DEF CloseSession, TypeOK
    <3> QED
      BY <1>q, <2>1, <3>1
  <2>4. CASE BeginClose(s)
    <3>1. closing[s] # "none" /\ UNCHANGED <<closing, reaped>> /\ dead' = dead \cup {s}
      BY <2>4, TerminateEffect DEF BeginClose
    <3> QED
      BY <2>1, <3>1 DEF DeadInv, Dying, SessOf
  <2>5. CASE FinishClose(s)
    <3>1. UNCHANGED dead /\ reaped' = reaped \cup {s} /\ \A q \in Sessions : q # s => closing'[q] = closing[q]
      BY <2>5 DEF FinishClose, CloseTransport, TypeOK
    <3> QED
      BY <1>q, <2>1, <3>1
  <2> QED
    BY <1>6, <2>2, <2>3, <2>4, <2>5 DEF SessionStep
<1>7. ASSUME Shutdown PROVE DeadInv'
  <2>1. UNCHANGED <<dead, reaped, req, pc>> /\ \A q \in Sessions : closing[q] # "none" => closing'[q] # "none"
    BY <1>7 DEF Shutdown
  <2> QED
    BY <1>q, <2>1
<1>8. ASSUME Drain \/ AuditFails \/ UNCHANGED vars PROVE DeadInv'
  <2>1. UNCHANGED <<dead, reaped, closing, req, pc>>
    BY <1>8 DEF Drain, AuditFails
  <2> QED
    BY <1>q, <2>1
<1> QED
  BY <1>1, <1>2, <1>3, <1>4, <1>5, <1>6, <1>7, <1>8 DEF Next, JobStep, StartStep, ResolveStep, AtRest

LEMMA SafetyNext ==
  ASSUME SafetyInv, [Next]_vars
  PROVE  SafetyInv'
BY JobsNext, LoneNext, DeadNext DEF SafetyInv

-----------------------------------------------------------------------------
(* Theorems *)

\* The inductive invariant holds of every behaviour: the path a request takes, who
\* may call startJob for it, what a shell runs, and which records exist by then.
THEOREM Safety == Spec => []SafetyInv
BY SafetyInit, SafetyNext, PTL DEF Spec

\* Every variable of Manager, Session and Job keeps its type.
THEOREM TypeCorrect == Spec => []TypeOK
<1>1. SafetyInv => TypeOK
  BY DEF SafetyInv
<1> QED
  BY Safety, <1>1, PTL

\* A shell has one command at a time, and while its session is open that is the one
\* the session calls current; the shell of a closed session is being killed by
\* somebody as long as it has one.  For any number of jobs and sessions, with writes
\* that are refused, that time out or that overtake a close (startJob, writeCurrent,
\* terminate).
THEOREM ShellExclusive == Spec => []OneCommandPerShell
<1>1. SafetyInv => OneCommandPerShell
  <2> SUFFICES ASSUME SafetyInv, NEW j \in onShell
               PROVE  /\ \A k \in onShell : SessOf(k) = SessOf(j) => k = j
                      /\ IF SessOf(j) \in dead THEN Dying(SessOf(j)) ELSE current[SessOf(j)] = j
    BY DEF OneCommandPerShell
  <2>1. onShell \subseteq Jobs /\ ShellInv(j)
    BY DEF SafetyInv, TypeOK, JobInv
  <2>2. \A k \in onShell : SessOf(k) = SessOf(j) => k = j
    BY <2>1 DEF SafetyInv, LoneInv, InFlight
  <2>3. SessOf(j) \in dead => Dying(SessOf(j))
    BY <2>1 DEF SafetyInv, DeadInv, ShellInv
  <2> QED
    BY <2>1, <2>2, <2>3 DEF ShellInv, InFlight
<1> QED
  BY Safety, <1>1, PTL

\* No command reaches a shell before the record that authorises it, whatever fails
\* in the audit log, the mission store or the encoder, and whenever.
THEOREM Recorded == Spec => []NothingRunsUnrecorded
<1>1. SafetyInv => NothingRunsUnrecorded
  BY DEF SafetyInv, TypeOK, JobInv, RecordInv, NothingRunsUnrecorded
<1> QED
  BY Safety, <1>1, PTL

\* However approvals, denials, deadlines, kills, closes and shutdown race, a
\* confirmation has one verdict and a denied command is never given to startJob.
THEOREM SingleVerdict == Spec => []OneVerdict
<1>1. SafetyInv => OneVerdict
  BY DEF SafetyInv, JobInv, VerdictInv, OneVerdict
<1> QED
  BY Safety, <1>1, PTL

-----------------------------------------------------------------------------
(* The registry and the places promised in it *)

\* A registry of finitely many jobs that leaves room for every promise.
RegistryInv == IsFiniteSet(registry) /\ RegistryBounded

\* Dropping jobs and promises keeps it.
LEMMA RegistryShrinks ==
  ASSUME TypeOK, RegistryInv, registry' \subseteq registry,
         reservedJobs' \in Int, reservedJobs' <= reservedJobs
  PROVE  RegistryInv'
<1>1. IsFiniteSet(registry') /\ Cardinality(registry') <= Cardinality(registry)
  BY FS_Subset DEF RegistryInv
<1>2. Cardinality(registry) \in Nat /\ Cardinality(registry') \in Nat
  BY <1>1, FS_CardinalityType DEF RegistryInv
<1> QED
  BY <1>1, <1>2, EngineConstants DEF RegistryInv, RegistryBounded, TypeOK

\* What makeJobRoomLocked leaves has room for one more job, or is one job short.
LEMMA RoomMade ==
  ASSUME TypeOK, RegistryInv, NEW r \in RoomyRegistries
  PROVE  /\ r \subseteq registry /\ IsFiniteSet(r) /\ Cardinality(r) \in Nat
         /\ Cardinality(r) <= Cardinality(registry)
         /\ Cardinality(r) + 1 + reservedJobs <= MaxJobsInMemory
<1>1. r \subseteq registry /\ IsFiniteSet(registry)
  BY RoomyEffect DEF RegistryInv
<1>2. IsFiniteSet(r) /\ Cardinality(r) <= Cardinality(registry)
  BY <1>1, FS_Subset
<1>3. Cardinality(r) \in Nat /\ Cardinality(registry) \in Nat /\ reservedJobs \in Int /\ MaxJobsInMemory \in Nat
  BY <1>1, <1>2, FS_CardinalityType, EngineConstants DEF TypeOK
<1>4. CASE r = registry /\ Cardinality(registry) + reservedJobs < MaxJobsInMemory
  BY <1>1, <1>2, <1>3, <1>4
<1>5. CASE \E v \in registry : r = registry \ {v}
  <2>1. Cardinality(r) = Cardinality(registry) - 1
    BY <1>1, <1>5, FS_RemoveElement
  <2> QED
    BY <1>1, <1>2, <1>3, <2>1 DEF RegistryInv, RegistryBounded
<1> QED
  BY <1>4, <1>5 DEF RoomyRegistries

\* One more job takes at most one more place.
LEMMA RegistryGrows ==
  ASSUME NEW r, NEW j, IsFiniteSet(r), registry' = r \cup {j},
         reservedJobs' \in Int, Cardinality(r) + 1 + reservedJobs' <= MaxJobsInMemory
  PROVE  RegistryInv'
<1>1. IsFiniteSet(r \cup {j}) /\ Cardinality(r \cup {j}) \in {Cardinality(r), Cardinality(r) + 1}
  BY FS_AddElement
<1>2. Cardinality(r) \in Nat
  BY FS_CardinalityType
<1> QED
  BY <1>1, <1>2, EngineConstants DEF RegistryInv, RegistryBounded

LEMMA RegistryInit == Init => RegistryInv
<1> SUFFICES ASSUME Init PROVE RegistryInv
  OBVIOUS
<1>1. registry = {} /\ reservedJobs = 0
  BY DEF Init
<1> QED
  BY <1>1, FS_EmptySet, EngineConstants DEF RegistryInv, RegistryBounded

LEMMA RegistryNext ==
  ASSUME SafetyInv, RegistryInv, [Next]_vars
  PROVE  RegistryInv'
<1>t. TypeOK /\ reservedJobs \in Int
  BY DEF SafetyInv, TypeOK
<1> USE DEF vars, lifeVars, registryVars, reserveVars, shellVars, jobVars, auditVars
<1>1. ASSUME registry' \subseteq registry, UNCHANGED reservedJobs
      PROVE  RegistryInv'
  BY <1>t, <1>1, RegistryShrinks
<1>2. ASSUME NEW j \in Jobs, Admit(j) PROVE RegistryInv'
  <2>1. CASE UNCHANGED reserveVars
    <3>1. registry' \subseteq registry
      BY <1>2, RoomyEffect DEF Admit
    <3> QED
      BY <1>1, <2>1, <3>1
  <2>2. CASE registry' \in RoomyRegistries /\ HasRoom(registry') /\ ReserveStart(j, 1)
    <3>1. /\ IsFiniteSet(registry') /\ Cardinality(registry') \in Nat
          /\ Cardinality(registry') + 1 + reservedJobs <= MaxJobsInMemory
      BY <1>t, <2>2, RoomMade
    <3> QED
      BY <1>t, <2>2, <3>1, EngineConstants DEF ReserveStart, RegistryInv, RegistryBounded
  <2> QED
    BY <1>2, <2>1, <2>2 DEF Admit
<1>3. ASSUME NEW j \in Jobs, RecordIntent(j) PROVE RegistryInv'
  <2>1. UNCHANGED registry /\ (UNCHANGED reservedJobs \/ reservedJobs' = reservedJobs - 1)
    BY <1>3, <1>t DEF RecordIntent, ReserveStart
  <2> QED
    BY <1>t, <2>1, RegistryShrinks
<1>4. ASSUME NEW j \in Jobs, Register(j) PROVE RegistryInv'
  <2>1. reservedJobs' = reservedJobs - 1 /\ reservedJobs' \in Int /\ (registry' = registry \/ registry' = registry \cup {j})
    <3>1. reservedJobs' = reservedJobs + -1
      BY <1>4 DEF Register, ReserveStart
    <3>2. registry' = registry \/ registry' = registry \cup {j}
      BY <1>4 DEF Register
    <3> QED
      BY <1>t, <3>1, <3>2
  <2>2. IsFiniteSet(registry) /\ Cardinality(registry) \in Nat
    BY FS_CardinalityType DEF RegistryInv
  <2>3. Cardinality(registry) + 1 + reservedJobs' <= MaxJobsInMemory
    BY <1>t, <2>1, <2>2, EngineConstants DEF RegistryInv, RegistryBounded
  <2>4. CASE registry' = registry
    BY <1>t, <2>1, <2>4, RegistryShrinks
  <2>5. CASE registry' = registry \cup {j}
    BY <2>1, <2>2, <2>3, <2>5, RegistryGrows, Zenon
  <2> QED
    BY <2>1, <2>4, <2>5
<1>5. ASSUME NEW j \in Jobs, RegisterFailed(j) PROVE RegistryInv'
  <2>1. CASE UNCHANGED registry
    BY <1>5, <1>1, <2>1 DEF RegisterFailed
  <2>2. CASE \E r \in RoomyRegistries : registry' = r \cup {j}
    BY <1>t, <1>5, <2>2, RoomMade, RegistryGrows DEF RegisterFailed
  <2> QED
    BY <1>5, <2>1, <2>2 DEF RegisterFailed
<1>6. ASSUME NEW j \in Jobs, Park(j) PROVE RegistryInv'
  <2>1. CASE registry' \subseteq registry
    BY <1>6, <1>1, <2>1 DEF Park
  <2>2. CASE \E r \in RoomyRegistries : registry' = r \cup {j}
    BY <1>t, <1>6, <2>2, RoomMade, RegistryGrows DEF Park
  <2> QED
    BY <1>6, <2>1, <2>2, RoomyEffect DEF Park
<1>7. ASSUME NEW j \in Jobs, PersistParked(j) \/ Collect(j) PROVE RegistryInv'
  BY <1>7, <1>1 DEF PersistParked, Collect
<1>8. ASSUME NEW j \in Jobs,
             \/ \E r \in Requests : Arrive(j, r)
             \/ ShellStep(j) \/ HandBack(j) \/ Complete(j) \/ Watch(j) \/ FinalizeDetached(j)
      PROVE  RegistryInv'
  BY <1>8, <1>1 DEF Arrive, ShellStep, SendLine, SendFails, WriteTimesOut, StartFailed, SendReturns, HandBack, Complete, Watch,
     FinalizeDetached
<1>9. ASSUME NEW j \in Jobs, ResolveStep(j) \/ Approve(j) \/ Deny(j) \/ TimeOut(j) \/ KillPending(j)
      PROVE  RegistryInv'
  BY <1>9, <1>1 DEF ResolveStep, RecordApproval, ExecApproved, AnnounceApproved, ReleaseApproval,
     Withdraw, Approve, Deny, TimeOut, KillPending, TakePending, ReserveClass
<1>10. ASSUME NEW s \in Sessions, SessionStep(s) PROVE RegistryInv'
  BY <1>10, <1>1 DEF SessionStep, ShellExits, CloseSession, BeginClose, FinishClose
<1>11. ASSUME Shutdown \/ Drain \/ AuditFails \/ UNCHANGED vars PROVE RegistryInv'
  BY <1>11, <1>1 DEF Shutdown, Drain, AuditFails
<1>12. ASSUME NEW j \in Jobs, StartStep(j) PROVE RegistryInv'
  <2>1. CASE ExecStart(j) \/ Announce(j) \/ AskHuman(j) \/ ArmTimer(j) \/ CloseAfterShutdown(j) \/ KillLate(j)
    BY <2>1, <1>1 DEF ExecStart, Announce, AskHuman, ArmTimer, CloseAfterShutdown, KillLate
  <2> QED
    BY <1>12, <1>2, <1>3, <1>4, <1>5, <1>6, <1>7, <2>1 DEF StartStep
<1> QED
  BY <1>7, <1>8, <1>9, <1>10, <1>11, <1>12 DEF Next, JobStep, AtRest

\* The registry never outgrows its limit, the promises to starts in flight
\* included, however admissions, evictions, failures and collection interleave
\* (makeJobRoomLocked, Start, registerPending, register).
THEOREM RegistryKept == Spec => []RegistryBounded
<1>1. RegistryInv => RegistryBounded
  BY DEF RegistryInv
<1> QED
  BY SafetyInit, SafetyNext, RegistryInit, RegistryNext, <1>1, PTL DEF Spec
-----------------------------------------------------------------------------
(* The reservation counters *)

\* The starts and approvals that hold a reservation, and whose they are.
Holds(j) == pc[j] \in {"reserved", "intent", "execing"}
HeldBy(o) == {j \in Starting("foreground") \cup Starting("background") : OwnerOf(j) = o}

\* Every counter is the number of its holders, of which there are finitely many.
LedgerInv ==
  /\ ReservationsExact
  /\ \A mode \in Modes : IsFiniteSet(Starting(mode)) /\ IsFiniteSet(ApprovingIn(mode))

\* A step that lets no holder in or out, and touches no counter.
LEMMA SameHolders ==
  ASSUME TypeOK, LedgerInv, UNCHANGED <<reserveVars, reservedQuotaJobs>>,
         \A k \in Jobs : /\ Holds(k)' = Holds(k)
                         /\ (k \in Approving)' = (k \in Approving)
                         /\ Holds(k) \/ k \in Approving => req'[k] = req[k]
  PROVE  LedgerInv'
<1>1. Approving' = Approving
  BY DEF Approving
<1>2. \A mode \in Modes : Starting(mode)' = Starting(mode) /\ ApprovingIn(mode)' = ApprovingIn(mode)
  BY <1>1 DEF Starting, ApprovingIn, Holds, Approving
<1>3. \A o \in Owners : HeldBy(o)' = HeldBy(o)
  BY DEF HeldBy, Starting, Holds, OwnerOf, SessOf
<1> QED
  BY <1>1, <1>2, <1>3 DEF LedgerInv, ReservationsExact, HeldBy, Modes, reserveVars

\* One element more, one element less.
LEMMA OneMore ==
  ASSUME NEW S, NEW T, NEW e, IsFiniteSet(S), e \notin S, T = S \cup {e}
  PROVE  IsFiniteSet(T) /\ Cardinality(T) = Cardinality(S) + 1 /\ Cardinality(S) \in Nat
BY FS_AddElement, FS_CardinalityType

LEMMA OneLess ==
  ASSUME NEW S, NEW T, NEW e, IsFiniteSet(S), e \in S, T = S \ {e}
  PROVE  IsFiniteSet(T) /\ Cardinality(T) = Cardinality(S) - 1 /\ Cardinality(S) \in Nat
BY FS_RemoveElement, FS_CardinalityType

LEMMA HeldFinite == ASSUME LedgerInv, NEW o PROVE IsFiniteSet(HeldBy(o))
<1>1. IsFiniteSet(Starting("foreground") \cup Starting("background"))
  BY FS_Union DEF LedgerInv, Modes
<1> QED
  BY <1>1, FS_Subset DEF HeldBy

\* Start takes a reservation of each kind at once.
LEMMA StartTakes ==
  ASSUME TypeOK, LedgerInv, NEW j \in Jobs, req[j] \in Requests, ~Holds(j), Holds(j)',
         \A k \in Jobs : k # j => Holds(k)' = Holds(k),
         UNCHANGED <<req, resolver, reservedQuotaJobs>>, ReserveStart(j, 1)
  PROVE  LedgerInv'
<1> DEFINE m == req[j].mode
<1>0. PICK w \in Owners : w = OwnerOf(j)
  BY EngineConstants DEF OwnerOf, SessOf
<1>1. m \in Modes
  BY EngineConstants
<1>2. j \notin Starting(m) /\ Starting(m)' = Starting(m) \cup {j}
  BY DEF Starting, Holds
<1>3. \A mode \in Modes : mode # m => Starting(mode)' = Starting(mode)
  BY DEF Starting, Holds
<1>4. IsFiniteSet(Starting(m)') /\ Cardinality(Starting(m)') = Cardinality(Starting(m)) + 1 /\ Cardinality(Starting(m)) \in Nat
  <2>1. IsFiniteSet(Starting(m))
    BY <1>1 DEF LedgerInv
  <2> QED
    BY <2>1, <1>2, OneMore
<1>5. Approving' = Approving /\ \A mode \in Modes : ApprovingIn(mode)' = ApprovingIn(mode)
  BY DEF Approving, ApprovingIn
<1>6. j \notin HeldBy(w) /\ HeldBy(w)' = HeldBy(w) \cup {j}
  BY <1>0, <1>1, <1>2, <1>3 DEF HeldBy, Starting, Holds, OwnerOf, SessOf, Modes
<1>7. \A o \in Owners : o # w => HeldBy(o)' = HeldBy(o)
  BY <1>0, <1>1, <1>2, <1>3 DEF HeldBy, Starting, Holds, OwnerOf, SessOf, Modes
<1>8. Cardinality(HeldBy(w)') = Cardinality(HeldBy(w)) + 1
  BY <1>6, HeldFinite, OneMore
<1>9. \A o \in Owners : reservedByAgent'[o] = Cardinality(HeldBy(o)')
  <2>1. \A o \in Owners : reservedByAgent[o] = Cardinality(HeldBy(o))
    BY DEF LedgerInv, ReservationsExact, HeldBy
  <2>2. reservedByAgent' = [reservedByAgent EXCEPT ![w] = reservedByAgent[w] + 1]
    BY <1>0 DEF ReserveStart
  <2>3. reservedByAgent'[w] = Cardinality(HeldBy(w)')
    BY <1>8, <2>1, <2>2 DEF TypeOK
  <2>4. ASSUME NEW o \in Owners, o # w PROVE reservedByAgent'[o] = Cardinality(HeldBy(o)')
    <3>1. reservedByAgent'[o] = reservedByAgent[o]
      BY <2>2, <2>4 DEF TypeOK
    <3> QED
      BY <1>7, <2>1, <2>4, <3>1
  <2> QED
    BY <2>3, <2>4
<1>10. \A mode \in Modes : Cardinality(Starting(mode)) \in Nat /\ Cardinality(ApprovingIn(mode)) \in Nat
  BY FS_CardinalityType DEF LedgerInv
<1>11. \A mode \in Modes : Cardinality(Starting(mode)') = Cardinality(Starting(mode)) + (IF mode = m THEN 1 ELSE 0)
  BY <1>3, <1>4, <1>10
<1>12. reservedJobs' = Cardinality(Starting("foreground")') + Cardinality(Starting("background")')
  BY <1>1, <1>10, <1>11 DEF ReserveStart, LedgerInv, ReservationsExact, Modes
<1>13. /\ reservedForeground' = (IF MaxForegroundJobs > 0 THEN Cardinality(Starting("foreground")') ELSE 0)
                                  + Cardinality(ApprovingIn("foreground"))
       /\ reservedBackground' = (IF MaxBackgroundJobs > 0 THEN Cardinality(Starting("background")') ELSE 0)
                                  + Cardinality(ApprovingIn("background"))
  BY <1>1, <1>10, <1>11 DEF ReserveStart, LedgerInv, ReservationsExact, Modes
<1>14. reservedQuotaJobs' = Approving'
  BY <1>5 DEF LedgerInv, ReservationsExact
<1>15. \A mode \in Modes : IsFiniteSet(Starting(mode)') /\ IsFiniteSet(ApprovingIn(mode)')
  BY <1>3, <1>4, <1>5 DEF LedgerInv
<1> QED
  BY <1>5, <1>9, <1>12, <1>13, <1>14, <1>15 DEF LedgerInv, ReservationsExact, HeldBy, Modes

\* Every way out of Start gives each of them back.
LEMMA StartGivesBack ==
  ASSUME TypeOK, LedgerInv, NEW j \in Jobs, req[j] \in Requests, Holds(j), ~Holds(j)',
         \A k \in Jobs : k # j => Holds(k)' = Holds(k),
         UNCHANGED <<req, resolver, reservedQuotaJobs>>, ReserveStart(j, -1)
  PROVE  LedgerInv'
<1> DEFINE m == req[j].mode
<1>0. PICK w \in Owners : w = OwnerOf(j)
  BY EngineConstants DEF OwnerOf, SessOf
<1>1. m \in Modes
  BY EngineConstants
<1>2. j \in Starting(m) /\ Starting(m)' = Starting(m) \ {j}
  BY DEF Starting, Holds
<1>3. \A mode \in Modes : mode # m => Starting(mode)' = Starting(mode)
  BY DEF Starting, Holds
<1>4. IsFiniteSet(Starting(m)') /\ Cardinality(Starting(m)') = Cardinality(Starting(m)) - 1 /\ Cardinality(Starting(m)) \in Nat
  <2>1. IsFiniteSet(Starting(m))
    BY <1>1 DEF LedgerInv
  <2> QED
    BY <2>1, <1>2, OneLess
<1>5. Approving' = Approving /\ \A mode \in Modes : ApprovingIn(mode)' = ApprovingIn(mode)
  BY DEF Approving, ApprovingIn
<1>6. j \in HeldBy(w) /\ HeldBy(w)' = HeldBy(w) \ {j}
  BY <1>0, <1>1, <1>2, <1>3 DEF HeldBy, Starting, Holds, OwnerOf, SessOf, Modes
<1>7. \A o \in Owners : o # w => HeldBy(o)' = HeldBy(o)
  BY <1>0, <1>1, <1>2, <1>3 DEF HeldBy, Starting, Holds, OwnerOf, SessOf, Modes
<1>8. Cardinality(HeldBy(w)') = Cardinality(HeldBy(w)) - 1 /\ Cardinality(HeldBy(w)) \in Nat
  BY <1>6, HeldFinite, OneLess
<1>9. \A o \in Owners : reservedByAgent'[o] = Cardinality(HeldBy(o)')
  <2>1. \A o \in Owners : reservedByAgent[o] = Cardinality(HeldBy(o))
    BY DEF LedgerInv, ReservationsExact, HeldBy
  <2>2. reservedByAgent' = [reservedByAgent EXCEPT ![w] = reservedByAgent[w] + -1]
    BY <1>0 DEF ReserveStart
  <2>3. reservedByAgent'[w] = Cardinality(HeldBy(w)')
    BY <1>8, <2>1, <2>2 DEF TypeOK
  <2>4. ASSUME NEW o \in Owners, o # w PROVE reservedByAgent'[o] = Cardinality(HeldBy(o)')
    <3>1. reservedByAgent'[o] = reservedByAgent[o]
      BY <2>2, <2>4 DEF TypeOK
    <3> QED
      BY <1>7, <2>1, <2>4, <3>1
  <2> QED
    BY <2>3, <2>4
<1>10. \A mode \in Modes : Cardinality(Starting(mode)) \in Nat /\ Cardinality(ApprovingIn(mode)) \in Nat
  BY FS_CardinalityType DEF LedgerInv
<1>11. \A mode \in Modes : Cardinality(Starting(mode)') = Cardinality(Starting(mode)) - (IF mode = m THEN 1 ELSE 0)
  BY <1>3, <1>4, <1>10
<1>12. reservedJobs' = Cardinality(Starting("foreground")') + Cardinality(Starting("background")')
  BY <1>1, <1>10, <1>11 DEF ReserveStart, LedgerInv, ReservationsExact, Modes
<1>13. /\ reservedForeground' = (IF MaxForegroundJobs > 0 THEN Cardinality(Starting("foreground")') ELSE 0)
                                  + Cardinality(ApprovingIn("foreground"))
       /\ reservedBackground' = (IF MaxBackgroundJobs > 0 THEN Cardinality(Starting("background")') ELSE 0)
                                  + Cardinality(ApprovingIn("background"))
  BY <1>1, <1>10, <1>11 DEF ReserveStart, LedgerInv, ReservationsExact, Modes
<1>14. reservedQuotaJobs' = Approving'
  BY <1>5 DEF LedgerInv, ReservationsExact
<1>15. \A mode \in Modes : IsFiniteSet(Starting(mode)') /\ IsFiniteSet(ApprovingIn(mode)')
  BY <1>3, <1>4, <1>5 DEF LedgerInv
<1> QED
  BY <1>5, <1>9, <1>12, <1>13, <1>14, <1>15 DEF LedgerInv, ReservationsExact, HeldBy, Modes

\* An approval takes a slot of its class ...
LEMMA ApprovalTakes ==
  ASSUME TypeOK, LedgerInv, NEW j \in Jobs, req[j] \in Requests, j \notin Approving, (j \in Approving)',
         \A k \in Jobs : k # j => (k \in Approving)' = (k \in Approving),
         UNCHANGED <<req, pc, reservedJobs, reservedByAgent>>,
         ReserveClass(j, 1), reservedQuotaJobs' = reservedQuotaJobs \cup {j}
  PROVE  LedgerInv'
<1>1. PICK m \in Modes : m = req[j].mode
  BY EngineConstants
<1>2. Approving' = Approving \cup {j}
  BY DEF Approving
<1>3. j \notin ApprovingIn(m) /\ ApprovingIn(m)' = ApprovingIn(m) \cup {j}
  BY <1>1, <1>2 DEF ApprovingIn
<1>4. \A mode \in Modes : mode # m => ApprovingIn(mode)' = ApprovingIn(mode)
  BY <1>1, <1>2 DEF ApprovingIn
<1>5. \A mode \in Modes : Starting(mode)' = Starting(mode)
  BY DEF Starting
<1>6. \A o \in Owners : HeldBy(o)' = HeldBy(o)
  BY DEF HeldBy, Starting, OwnerOf, SessOf
<1>7. IsFiniteSet(ApprovingIn(m)') /\ Cardinality(ApprovingIn(m)') = Cardinality(ApprovingIn(m)) + 1
  BY <1>3, OneMore DEF LedgerInv
<1>8. \A mode \in Modes : Cardinality(Starting(mode)) \in Nat /\ Cardinality(ApprovingIn(mode)) \in Nat
  BY FS_CardinalityType DEF LedgerInv
<1>9. \A mode \in Modes : Cardinality(ApprovingIn(mode)') = Cardinality(ApprovingIn(mode)) + (IF mode = m THEN 1 ELSE 0)
  BY <1>4, <1>7, <1>8
<1>10. /\ reservedForeground' = (IF MaxForegroundJobs > 0 THEN Cardinality(Starting("foreground")) ELSE 0)
                                  + Cardinality(ApprovingIn("foreground")')
       /\ reservedBackground' = (IF MaxBackgroundJobs > 0 THEN Cardinality(Starting("background")) ELSE 0)
                                  + Cardinality(ApprovingIn("background")')
  BY <1>1, <1>8, <1>9 DEF ReserveClass, LedgerInv, ReservationsExact, Modes
<1>11. \A mode \in Modes : IsFiniteSet(Starting(mode)') /\ IsFiniteSet(ApprovingIn(mode)')
  BY <1>4, <1>5, <1>7 DEF LedgerInv
<1> QED
  BY <1>2, <1>5, <1>6, <1>10, <1>11 DEF LedgerInv, ReservationsExact, HeldBy, Modes

\* ... and gives it back when it is over, however it ended.
LEMMA ApprovalGivesBack ==
  ASSUME TypeOK, LedgerInv, NEW j \in Jobs, req[j] \in Requests, j \in Approving, ~(j \in Approving)',
         \A k \in Jobs : k # j => (k \in Approving)' = (k \in Approving),
         UNCHANGED <<req, pc, reservedJobs, reservedByAgent>>,
         ReserveClass(j, -1), reservedQuotaJobs' = reservedQuotaJobs \ {j}
  PROVE  LedgerInv'
<1>1. PICK m \in Modes : m = req[j].mode
  BY EngineConstants
<1>2. Approving' = Approving \ {j}
  BY DEF Approving
<1>3. j \in ApprovingIn(m) /\ ApprovingIn(m)' = ApprovingIn(m) \ {j}
  BY <1>1, <1>2 DEF ApprovingIn
<1>4. \A mode \in Modes : mode # m => ApprovingIn(mode)' = ApprovingIn(mode)
  BY <1>1, <1>2 DEF ApprovingIn
<1>5. \A mode \in Modes : Starting(mode)' = Starting(mode)
  BY DEF Starting
<1>6. \A o \in Owners : HeldBy(o)' = HeldBy(o)
  BY DEF HeldBy, Starting, OwnerOf, SessOf
<1>7. IsFiniteSet(ApprovingIn(m)') /\ Cardinality(ApprovingIn(m)') = Cardinality(ApprovingIn(m)) - 1
  BY <1>3, OneLess DEF LedgerInv
<1>8. \A mode \in Modes : Cardinality(Starting(mode)) \in Nat /\ Cardinality(ApprovingIn(mode)) \in Nat
  BY FS_CardinalityType DEF LedgerInv
<1>9. \A mode \in Modes : Cardinality(ApprovingIn(mode)') = Cardinality(ApprovingIn(mode)) - (IF mode = m THEN 1 ELSE 0)
  BY <1>4, <1>7, <1>8
<1>10. /\ reservedForeground' = (IF MaxForegroundJobs > 0 THEN Cardinality(Starting("foreground")) ELSE 0)
                                  + Cardinality(ApprovingIn("foreground")')
       /\ reservedBackground' = (IF MaxBackgroundJobs > 0 THEN Cardinality(Starting("background")) ELSE 0)
                                  + Cardinality(ApprovingIn("background")')
  BY <1>1, <1>8, <1>9 DEF ReserveClass, LedgerInv, ReservationsExact, Modes
<1>11. \A mode \in Modes : IsFiniteSet(Starting(mode)') /\ IsFiniteSet(ApprovingIn(mode)')
  BY <1>4, <1>5, <1>7 DEF LedgerInv
<1> QED
  BY <1>2, <1>5, <1>6, <1>10, <1>11 DEF LedgerInv, ReservationsExact, HeldBy, Modes

LEMMA LedgerInit == Init => LedgerInv
<1> SUFFICES ASSUME Init PROVE LedgerInv
  OBVIOUS
<1>1. /\ \A mode \in Modes : Starting(mode) = {} /\ ApprovingIn(mode) = {}
      /\ Approving = {} /\ \A o \in Owners : HeldBy(o) = {}
  BY DEF Init, Starting, ApprovingIn, Approving, HeldBy
<1>2. Cardinality({}) = 0 /\ IsFiniteSet({})
  BY FS_EmptySet
<1>3. /\ reservedForeground = 0 /\ reservedBackground = 0 /\ reservedJobs = 0
      /\ reservedByAgent = [o \in Owners |-> 0] /\ reservedQuotaJobs = {}
  BY DEF Init
<1> QED
  BY <1>1, <1>2, <1>3 DEF LedgerInv, ReservationsExact, HeldBy, Modes

LEMMA LedgerNext ==
  ASSUME SafetyInv, LedgerInv, [Next]_vars
  PROVE  LedgerInv'
<1>t. TypeOK /\ \A k \in Jobs : PathInv(k)
  BY DEF SafetyInv, JobInv
<1>r. \A k \in Jobs : pc[k] # "idle" => req[k] \in Requests
  BY <1>t DEF PathInv
<1> USE DEF vars, lifeVars, registryVars, shellVars, jobVars, auditVars
\* A step that moves one request or one resolution, past no reservation.
<1>p. ASSUME NEW j \in Jobs, NEW p, UNCHANGED <<reserveVars, reservedQuotaJobs, req, resolver>>,
             pc' = [pc EXCEPT ![j] = p],
             Holds(j) <=> p \in {"reserved", "intent", "execing"}
      PROVE  LedgerInv'
  <2>1. \A k \in Jobs : Holds(k)' = Holds(k) /\ (k \in Approving)' = (k \in Approving)
    BY <1>t, <1>p DEF Holds, Approving, TypeOK
  <2> QED
    BY <1>t, <1>p, <2>1, SameHolders
<1>q. ASSUME NEW j \in Jobs, NEW p, UNCHANGED <<reserveVars, reservedQuotaJobs, req, pc>>,
             resolver' = [resolver EXCEPT ![j] = p],
             j \in Approving <=> p \in {"approved", "authorised", "execing", "releasing"}
      PROVE  LedgerInv'
  <2>1. \A k \in Jobs : Holds(k)' = Holds(k) /\ (k \in Approving)' = (k \in Approving)
    BY <1>t, <1>q DEF Holds, Approving, TypeOK
  <2> QED
    BY <1>t, <1>q, <2>1, SameHolders
<1>u. ASSUME UNCHANGED <<reserveVars, reservedQuotaJobs, req, pc, resolver>>
      PROVE  LedgerInv'
  <2>1. \A k \in Jobs : Holds(k)' = Holds(k) /\ (k \in Approving)' = (k \in Approving)
    BY <1>u DEF Holds, Approving
  <2> QED
    BY <1>t, <1>u, <2>1, SameHolders
<1>1. ASSUME NEW j \in Jobs, NEW r \in Requests, Arrive(j, r) PROVE LedgerInv'
  <2>1. pc[j] = "idle" /\ resolver[j] = "none" /\ req' = [req EXCEPT ![j] = r]
    BY <1>t, <1>1 DEF Arrive, PathInv
  <2>2. PICK p \in {"refused", "parking", "admitting"} : pc' = [pc EXCEPT ![j] = p]
    BY <1>1 DEF Arrive
  <2>3. UNCHANGED <<reserveVars, reservedQuotaJobs, resolver>>
    BY <1>1 DEF Arrive
  <2>4. \A k \in Jobs : /\ Holds(k)' = Holds(k)
                        /\ (k \in Approving)' = (k \in Approving)
                        /\ Holds(k) \/ k \in Approving => req'[k] = req[k]
    BY <1>t, <2>1, <2>2, <2>3 DEF Holds, Approving, TypeOK
  <2> QED
    BY <1>t, <2>3, <2>4, SameHolders
<1>2. ASSUME NEW j \in Jobs, Admit(j) PROVE LedgerInv'
  <2>1. pc[j] = "admitting" /\ UNCHANGED <<reservedQuotaJobs, req, resolver>>
    BY <1>2 DEF Admit
  <2>2. CASE pc' = [pc EXCEPT ![j] = "refused"] /\ UNCHANGED reserveVars
    BY <2>1, <2>2, <1>p DEF Holds
  <2>3. CASE pc' = [pc EXCEPT ![j] = "reserved"] /\ ReserveStart(j, 1)
    <3>1. ~Holds(j) /\ Holds(j)' /\ \A k \in Jobs : k # j => Holds(k)' = Holds(k)
      BY <1>t, <2>1, <2>3 DEF Holds, TypeOK
    <3> QED
      BY <1>t, <1>r, <2>1, <2>3, <3>1, StartTakes
  <2> QED
    BY <1>2, <2>2, <2>3 DEF Admit
<1>3. ASSUME NEW j \in Jobs, RecordIntent(j) PROVE LedgerInv'
  <2>1. pc[j] = "reserved" /\ UNCHANGED <<reservedQuotaJobs, req, resolver>>
    BY <1>3 DEF RecordIntent
  <2>2. CASE pc' = [pc EXCEPT ![j] = "intent"] /\ UNCHANGED reserveVars
    BY <2>1, <2>2, <1>p DEF Holds
  <2>3. CASE pc' = [pc EXCEPT ![j] = "refused"] /\ ReserveStart(j, -1)
    <3>1. Holds(j) /\ ~Holds(j)' /\ \A k \in Jobs : k # j => Holds(k)' = Holds(k)
      BY <1>t, <2>1, <2>3 DEF Holds, TypeOK
    <3> QED
      BY <1>t, <1>r, <2>1, <2>3, <3>1, StartGivesBack
  <2> QED
    BY <1>3, <2>2, <2>3 DEF RecordIntent
<1>4. ASSUME NEW j \in Jobs, Register(j) PROVE LedgerInv'
  <2>1. pc[j] = "execing" /\ ReserveStart(j, -1) /\ UNCHANGED <<reservedQuotaJobs, req, resolver>>
    BY <1>4 DEF Register
  <2>2. PICK p \in {"closing", "registered", "failed"} : pc' = [pc EXCEPT ![j] = p]
    BY <1>4 DEF Register
  <2>3. Holds(j) /\ ~Holds(j)' /\ \A k \in Jobs : k # j => Holds(k)' = Holds(k)
    BY <1>t, <2>1, <2>2 DEF Holds, TypeOK
  <2> QED
    BY <1>t, <1>r, <2>1, <2>3, StartGivesBack
<1>5. ASSUME NEW j \in Jobs, ExecStart(j) PROVE LedgerInv'
  BY <1>5, <1>p DEF ExecStart, Holds
<1>6. ASSUME NEW j \in Jobs,
             \/ RegisterFailed(j) \/ Announce(j) \/ AskHuman(j) \/ ArmTimer(j)
             \/ CloseAfterShutdown(j) \/ KillLate(j) \/ HandBack(j) \/ Park(j) \/ PersistParked(j)
      PROVE  LedgerInv'
  <2>1. UNCHANGED <<reserveVars, reservedQuotaJobs, req, resolver>>
    BY <1>6 DEF RegisterFailed, Announce, AskHuman, ArmTimer, CloseAfterShutdown, KillLate, HandBack, Park, PersistParked
  <2>2. PICK p \in StartPCs \ {"reserved", "intent", "execing"} : pc' = [pc EXCEPT ![j] = p]
    BY <1>6 DEF RegisterFailed, Announce, AskHuman, ArmTimer, CloseAfterShutdown, KillLate, HandBack, Park,
       PersistParked, StartPCs
  <2>3. ~Holds(j)
    BY <1>6 DEF RegisterFailed, Announce, AskHuman, ArmTimer, CloseAfterShutdown, KillLate, HandBack, Park,
       PersistParked, Holds
  <2> QED
    BY <2>1, <2>2, <2>3, <1>p
<1>7. ASSUME NEW j \in Jobs, Approve(j) PROVE LedgerInv'
  <2>1. j \in pending /\ resolver[j] = "none" /\ pc[j] # "idle"
    BY <1>t, <1>7 DEF Approve, TakePending, PathInv
  <2>2. resolver' = [resolver EXCEPT ![j] = "approved"]
    BY <1>7 DEF Approve, TakePending
  <2>3. /\ UNCHANGED <<req, pc, reservedJobs, reservedByAgent>>
        /\ ReserveClass(j, 1) /\ reservedQuotaJobs' = reservedQuotaJobs \cup {j}
    BY <1>7 DEF Approve, ReserveClass
  <2>4. /\ j \notin Approving /\ (j \in Approving)'
        /\ \A k \in Jobs : k # j => (k \in Approving)' = (k \in Approving)
    BY <1>t, <2>1, <2>2 DEF Approving, TypeOK
  <2> QED
    BY <1>t, <1>r, <2>1, <2>3, <2>4, ApprovalTakes
<1>8. ASSUME NEW j \in Jobs, ReleaseApproval(j) PROVE LedgerInv'
  <2>1. resolver[j] = "releasing" /\ pc[j] # "idle"
    BY <1>t, <1>8 DEF ReleaseApproval, PathInv
  <2>2. resolver' = [resolver EXCEPT ![j] = "done"]
    BY <1>8 DEF ReleaseApproval
  <2>3. /\ UNCHANGED <<req, pc, reservedJobs, reservedByAgent>>
        /\ ReserveClass(j, -1) /\ reservedQuotaJobs' = reservedQuotaJobs \ {j}
    BY <1>8 DEF ReleaseApproval, ReserveClass
  <2>4. /\ j \in Approving /\ ~(j \in Approving)'
        /\ \A k \in Jobs : k # j => (k \in Approving)' = (k \in Approving)
    BY <1>t, <2>1, <2>2 DEF Approving, TypeOK
  <2> QED
    BY <1>t, <1>r, <2>1, <2>3, <2>4, ApprovalGivesBack
<1>9. ASSUME NEW j \in Jobs, RecordApproval(j) \/ ExecApproved(j) \/ AnnounceApproved(j)
      PROVE  LedgerInv'
  <2>1. UNCHANGED <<reserveVars, reservedQuotaJobs, req, pc>> /\ j \in Approving
    BY <1>9 DEF RecordApproval, ExecApproved, AnnounceApproved, Approving
  <2>2. PICK p \in {"authorised", "execing", "releasing"} : resolver' = [resolver EXCEPT ![j] = p]
    BY <1>9 DEF RecordApproval, ExecApproved, AnnounceApproved
  <2> QED
    BY <2>1, <2>2, <1>q
<1>10. ASSUME NEW j \in Jobs, Deny(j) \/ TimeOut(j) \/ KillPending(j) \/ Withdraw(j)
       PROVE  LedgerInv'
  <2>1. UNCHANGED <<reserveVars, reservedQuotaJobs, req, pc>> /\ j \notin Approving
    BY <1>t, <1>10 DEF Deny, TimeOut, KillPending, Withdraw, TakePending, Approving, PathInv
  <2>2. PICK p \in {"denied", "cancelled", "done"} : resolver' = [resolver EXCEPT ![j] = p]
    BY <1>10 DEF Deny, TimeOut, KillPending, Withdraw, TakePending
  <2> QED
    BY <2>1, <2>2, <1>q
<1>11. ASSUME NEW j \in Jobs, ShellStep(j) \/ Complete(j) \/ Watch(j) \/ Collect(j) \/ FinalizeDetached(j)
       PROVE  LedgerInv'
  BY <1>11, <1>u DEF ShellStep, SendLine, SendFails, WriteTimesOut, StartFailed, SendReturns, Complete, Watch, Collect, FinalizeDetached
<1>12. ASSUME NEW s \in Sessions, SessionStep(s) PROVE LedgerInv'
  <2>1. CASE ShellExits(s) \/ BeginClose(s) \/ FinishClose(s)
    BY <2>1, <1>u DEF ShellExits, BeginClose, FinishClose
  <2>2. CASE CloseSession(s)
    <3>1. UNCHANGED <<reserveVars, reservedQuotaJobs, req, pc>>
      BY <2>2 DEF CloseSession
    <3>2. \A k \in Jobs : Holds(k)' = Holds(k) /\ (k \in Approving)' = (k \in Approving)
      BY <1>t, <2>2, <3>1 DEF CloseSession, Holds, Approving, PathInv
    <3> QED
      BY <1>t, <3>1, <3>2, SameHolders
  <2> QED
    BY <1>12, <2>1, <2>2 DEF SessionStep
<1>13. ASSUME Shutdown PROVE LedgerInv'
  <2>1. UNCHANGED <<reserveVars, reservedQuotaJobs, req, pc>>
    BY <1>13 DEF Shutdown
  <2>2. \A k \in Jobs : Holds(k)' = Holds(k) /\ (k \in Approving)' = (k \in Approving)
    BY <1>t, <1>13, <2>1 DEF Shutdown, Holds, Approving, PathInv
  <2> QED
    BY <1>t, <2>1, <2>2, SameHolders
<1>14. ASSUME Drain \/ AuditFails \/ UNCHANGED vars PROVE LedgerInv'
  BY <1>14, <1>u DEF Drain, AuditFails
<1> QED
  BY <1>1, <1>2, <1>3, <1>4, <1>5, <1>6, <1>7, <1>8, <1>9, <1>10, <1>11, <1>12, <1>13, <1>14
     DEF Next, JobStep, StartStep, ResolveStep, AtRest

\* No error path of Start or resolveConfirm leaks a reservation or returns one
\* twice: each counter of Manager is the number of calls that hold it.
THEOREM LedgerKept == Spec => []ReservationsExact
<1>1. LedgerInv => ReservationsExact
  BY DEF LedgerInv
<1> QED
  BY SafetyInit, SafetyNext, LedgerInit, LedgerNext, <1>1, PTL DEF Spec

-----------------------------------------------------------------------------
(* Confirmations on offer *)

\* What a shell holds, or has just given up, was handed to startJob.
HandedInv ==
  /\ \A k \in Jobs : detached[k] # "none" => exec[k] # "none"
  /\ \A s \in Sessions : current[s] # NoJob => exec[current[s]] # "none"

\* What is on offer is listed and still awaits its answer.
OfferInv == \A k \in pending : k \in registry /\ status[k] = "awaiting_confirmation"

LEMMA OfferInit == Init => HandedInv /\ OfferInv
BY DEF Init, HandedInv, OfferInv

LEMMA HandedNext ==
  ASSUME TypeOK, \A k \in Jobs : PathInv(k), HandedInv, [Next]_vars
  PROVE  HandedInv'
<1> USE DEF vars, lifeVars, registryVars, shellVars, jobVars, auditVars
<1>q. ASSUME UNCHANGED <<current, detached, exec>> PROVE HandedInv'
  BY <1>q DEF HandedInv
<1>1. ASSUME NEW j \in Jobs, ExecStart(j) \/ ExecApproved(j) PROVE HandedInv'
  <2>1. Attach(j) /\ UNCHANGED detached
    BY <1>1 DEF ExecStart, ExecApproved
  <2>2. exec'[j] # "none" /\ \A k \in Jobs : k # j => exec'[k] = exec[k]
    BY <2>1, AttachEffect
  <2>3. \A s \in Sessions : current'[s] = current[s] \/ current'[s] = j
    BY <2>1 DEF Attach, TypeOK
  <2> QED
    BY <2>1, <2>2, <2>3, NoJobIsNoJob DEF HandedInv, TypeOK
<1>2. ASSUME NEW j \in Jobs, ShellStep(j) PROVE HandedInv'
  <2>1. UNCHANGED detached /\ exec'[j] # "none" /\ \A k \in Jobs : k # j => exec'[k] = exec[k]
    BY <1>2 DEF ShellStep, SendLine, SendFails, WriteTimesOut, StartFailed, SendReturns, TypeOK
  <2>2. \A s \in Sessions : current'[s] = current[s] \/ current'[s] = NoJob
    BY <1>2 DEF ShellStep, SendLine, SendFails, WriteTimesOut, StartFailed, SendReturns, TypeOK
  <2> QED
    BY <2>1, <2>2, NoJobIsNoJob DEF HandedInv, TypeOK
<1>3. ASSUME NEW j \in Jobs, Complete(j) \/ FinalizeDetached(j) PROVE HandedInv'
  <2>1. /\ UNCHANGED exec
        /\ \A k \in Jobs : detached'[k] # "none" => detached[k] # "none"
        /\ \A s \in Sessions : current'[s] = current[s] \/ current'[s] = NoJob
    BY <1>3 DEF Complete, FinalizeDetached, TypeOK
  <2> QED
    BY <2>1 DEF HandedInv
<1>4. ASSUME NEW s \in Sessions, NEW by, Terminate(s, by), UNCHANGED exec
      PROVE  HandedInv'
  <2>1. /\ \A k \in Jobs : detached'[k] # "none" => detached[k] # "none" \/ (current[s] = k /\ k # NoJob)
        /\ \A q \in Sessions : current'[q] = current[q] \/ current'[q] = NoJob
    BY <1>4, NoJobIsNoJob DEF Terminate, TypeOK
  <2> QED
    BY <1>4, <2>1 DEF HandedInv
<1>5. ASSUME NEW j \in Jobs, CloseAfterShutdown(j) \/ KillLate(j) PROVE HandedInv'
  <2>1. SessOf(j) \in Sessions /\ UNCHANGED exec
    BY <1>5, EngineConstants DEF CloseAfterShutdown, KillLate, PathInv, SessOf
  <2>2. UNCHANGED <<current, detached>> \/ Terminate(SessOf(j), "start")
    BY <1>5 DEF CloseAfterShutdown, KillLate
  <2> QED
    BY <1>4, <1>q, <2>1, <2>2
<1>6. ASSUME NEW s \in Sessions, SessionStep(s) PROVE HandedInv'
  BY <1>4, <1>6, <1>q DEF SessionStep, ShellExits, BeginClose, FinishClose, CloseSession
<1>7. ASSUME NEW j \in Jobs,
             \/ \E r \in Requests : Arrive(j, r)
             \/ Admit(j) \/ RecordIntent(j) \/ Register(j) \/ RegisterFailed(j) \/ Announce(j)
             \/ Park(j) \/ PersistParked(j) \/ AskHuman(j) \/ ArmTimer(j) \/ HandBack(j)
      PROVE  HandedInv'
  BY <1>7, <1>q DEF Arrive, Admit, RecordIntent, Register, RegisterFailed, Announce, Park,
     PersistParked, AskHuman, ArmTimer, HandBack
<1>8. ASSUME NEW j \in Jobs,
             \/ RecordApproval(j) \/ AnnounceApproved(j) \/ ReleaseApproval(j) \/ Withdraw(j)
             \/ Approve(j) \/ Deny(j) \/ TimeOut(j) \/ KillPending(j) \/ Watch(j) \/ Collect(j)
      PROVE  HandedInv'
  BY <1>8, <1>q DEF RecordApproval, AnnounceApproved, ReleaseApproval, Withdraw, Approve, Deny,
     TimeOut, KillPending, TakePending, Watch, Collect
<1>9. ASSUME Shutdown \/ Drain \/ AuditFails \/ UNCHANGED vars PROVE HandedInv'
  BY <1>9, <1>q DEF Shutdown, Drain, AuditFails
<1> QED
  BY <1>1, <1>2, <1>3, <1>5, <1>6, <1>7, <1>8, <1>9 DEF Next, JobStep, StartStep, ResolveStep, AtRest

LEMMA OfferNext ==
  ASSUME SafetyInv, HandedInv, OfferInv, [Next]_vars
  PROVE  OfferInv'
<1>t. TypeOK /\ \A k \in Jobs : PathInv(k) /\ OneExecInv(k)
  BY DEF SafetyInv, JobInv
<1>o. \A k \in pending : /\ k \in Jobs /\ k \in registry /\ status[k] = "awaiting_confirmation"
                         /\ ~Terminal(status[k]) /\ exec[k] = "none" /\ detached[k] = "none"
                         /\ resolver[k] = "none" /\ req[k].gate = "confirm" /\ k \notin onShell
  BY <1>t DEF PathInv, OneExecInv, HandedInv, OfferInv, Terminal, TerminalStatuses, TypeOK
<1> USE DEF vars, lifeVars, registryVars, shellVars, jobVars, auditVars
<1>k. ASSUME \A k \in pending' : k \in pending /\ k \in registry' /\ status'[k] = status[k]
      PROVE  OfferInv'
  BY <1>k DEF OfferInv
\* Making room evicts nothing on offer, and an end comes to one job only.
<1>1. \A r \in RoomyRegistries : pending \subseteq r
  BY <1>o DEF RoomyRegistries
<1>f. ASSUME NEW j \in Jobs, NEW st, status' = Finalized(j, st)
      PROVE  \A k \in Jobs : k # j => status'[k] = status[k]
  BY <1>t, <1>f DEF Finalized, TypeOK
<1>2. ASSUME NEW j \in Jobs, Admit(j) PROVE OfferInv'
  BY <1>o, <1>1, <1>2, <1>k DEF Admit
<1>3. ASSUME NEW j \in Jobs, \/ \E r \in Requests : Arrive(j, r)
                             \/ RecordIntent(j) \/ Announce(j) \/ ArmTimer(j) \/ HandBack(j) \/ Watch(j)
      PROVE  OfferInv'
  BY <1>o, <1>3, <1>k DEF Arrive, RecordIntent, Announce, ArmTimer, HandBack, Watch
<1>4. ASSUME NEW j \in Jobs, ExecStart(j) \/ ExecApproved(j) PROVE OfferInv'
  <2>1. j \notin pending /\ Attach(j) /\ UNCHANGED <<registry, pending>>
    BY <1>t, <1>o, <1>4 DEF ExecStart, ExecApproved, PathInv, AdmissionPCs
  <2>2. \A k \in Jobs : k # j => status'[k] = status[k]
    BY <1>t, <2>1 DEF Attach, Finalized, TypeOK
  <2> QED
    BY <1>o, <1>k, <2>1, <2>2
<1>5. ASSUME NEW j \in Jobs, ShellStep(j) PROVE OfferInv'
  <2>1. j \notin pending /\ UNCHANGED <<registry, pending>>
    BY <1>o, <1>5 DEF ShellStep, SendLine, SendFails, WriteTimesOut, StartFailed, SendReturns
  <2>2. \A k \in Jobs : k # j => status'[k] = status[k]
    BY <1>t, <1>5 DEF ShellStep, SendLine, SendFails, WriteTimesOut, StartFailed, SendReturns, Finalized, TypeOK
  <2> QED
    BY <1>o, <1>k, <2>1, <2>2
<1>6. ASSUME NEW j \in Jobs, Register(j) \/ RegisterFailed(j) PROVE OfferInv'
  <2>1. pending' = pending /\ status' = status /\ pending \subseteq registry'
    BY <1>o, <1>1, <1>6 DEF Register, RegisterFailed
  <2> QED
    BY <1>k, <2>1
<1>7. ASSUME NEW j \in Jobs, Park(j) PROVE OfferInv'
  <2>1. CASE UNCHANGED <<pending, status>> /\ pending \subseteq registry'
    BY <1>k, <2>1
  <2>2. CASE \E r \in RoomyRegistries : /\ registry' = r \cup {j} /\ pending' = pending \cup {j}
                                        /\ status' = [status EXCEPT ![j] = "awaiting_confirmation"]
    BY <1>t, <1>o, <1>1, <2>2 DEF OfferInv, TypeOK
  <2> QED
    BY <1>o, <1>1, <1>7, <2>1, <2>2 DEF Park
<1>8. ASSUME NEW j \in Jobs, PersistParked(j) PROVE OfferInv'
  BY <1>o, <1>8, <1>k DEF PersistParked
<1>9. ASSUME NEW j \in Jobs, AskHuman(j) PROVE OfferInv'
  <2>1. CASE UNCHANGED <<registry, pending, status>>
    BY <1>o, <2>1, <1>k
  <2>2. CASE registry' = registry /\ pending' = pending \ {j} /\ status' = Finalized(j, "failed")
    BY <1>o, <1>f, <2>2, <1>k
  <2> QED
    BY <1>9, <2>1, <2>2 DEF AskHuman
<1>10. ASSUME NEW j \in Jobs, Approve(j) \/ Deny(j) \/ TimeOut(j) \/ KillPending(j) PROVE OfferInv'
  BY <1>o, <1>10, <1>k DEF Approve, Deny, TimeOut, KillPending, TakePending
<1>11. ASSUME NEW j \in Jobs, RecordApproval(j) \/ AnnounceApproved(j) \/ ReleaseApproval(j) \/ Withdraw(j)
       PROVE  OfferInv'
  <2>1. j \notin pending /\ UNCHANGED <<registry, pending>>
    BY <1>o, <1>11 DEF RecordApproval, AnnounceApproved, ReleaseApproval, Withdraw
  <2>2. \A k \in Jobs : k # j => status'[k] = status[k]
    BY <1>f, <1>11 DEF RecordApproval, AnnounceApproved, ReleaseApproval, Withdraw
  <2> QED
    BY <1>o, <1>k, <2>1, <2>2
<1>12. ASSUME NEW j \in Jobs, Complete(j) \/ FinalizeDetached(j) PROVE OfferInv'
  <2>1. j \notin pending /\ UNCHANGED <<registry, pending>>
    BY <1>o, <1>12 DEF Complete, FinalizeDetached
  <2>2. \A k \in Jobs : k # j => status'[k] = status[k]
    BY <1>f, <1>12 DEF Complete, FinalizeDetached
  <2> QED
    BY <1>o, <1>k, <2>1, <2>2
<1>13. ASSUME NEW j \in Jobs, Collect(j) \/ CloseAfterShutdown(j) \/ KillLate(j) PROVE OfferInv'
  BY <1>o, <1>13, <1>k DEF Collect, CloseAfterShutdown, KillLate
<1>14. ASSUME NEW s \in Sessions, SessionStep(s) PROVE OfferInv'
  BY <1>o, <1>14, <1>k DEF SessionStep, ShellExits, BeginClose, FinishClose, CloseSession
<1>15. ASSUME Shutdown \/ Drain \/ AuditFails \/ UNCHANGED vars PROVE OfferInv'
  BY <1>o, <1>15, <1>k DEF Shutdown, Drain, AuditFails
<1> QED
  BY <1>2, <1>3, <1>4, <1>5, <1>6, <1>7, <1>8, <1>9, <1>10, <1>11, <1>12, <1>13, <1>14, <1>15
     DEF Next, JobStep, StartStep, ResolveStep, AtRest

\* Whatever a human is asked to confirm is a listed job that still awaits it and
\* that nobody has answered (registerPending, enqueueConfirm, resolveConfirm).
THEOREM OffersStand == Spec => []PendingIsActionable
<1>1. SafetyInv /\ OfferInv => PendingIsActionable
  BY DEF SafetyInv, TypeOK, JobInv, PathInv, OfferInv, PendingIsActionable
<1>2. SafetyInv /\ HandedInv /\ [Next]_vars => HandedInv'
  BY HandedNext DEF SafetyInv, JobInv
<1> QED
  BY SafetyInit, SafetyNext, OfferInit, OfferNext, <1>1, <1>2, PTL DEF Spec

-----------------------------------------------------------------------------
(* The order of a job's events *)

\* A watcher is reserved before its job can be announced, waits for that, and
\* is the only one to report the end.
WatchInv(j) ==
  /\ pc[j] \in {"idle", "admitting", "reserved", "intent", "execing", "parking"} => watch[j] = "none"
  /\ pc[j] = "registered" => watch[j] = "held"
  /\ j \in pending => watch[j] = "none"
  /\ resolver[j] \in {"approved", "authorised", "execing"} => watch[j] = "held"
  /\ "finished" \in trail[j] => watch[j] = "done"

\* A publication about one job is not about another, and adds its event only.
LEMMA PublishAdds ==
  ASSUME NEW j \in Jobs, NEW e \in Events \ {"finished"}, NEW ok \in BOOLEAN, TypeOK, Publish(j, e, ok)
  PROVE  /\ \A k \in Jobs : "finished" \in trail'[k] <=> "finished" \in trail[k]
         /\ e # "started" => \A k \in Jobs : "started" \in trail'[k] => "started" \in trail[k]
         /\ \A k \in Jobs : k # j => trail'[k] = trail[k]
BY PublishEffect

LEMMA WatchInit == Init => \A k \in Jobs : WatchInv(k)
BY DEF Init, WatchInv

LEMMA WatchNext ==
  ASSUME SafetyInv, \A k \in Jobs : WatchInv(k), [Next]_vars
  PROVE  /\ \A k \in Jobs : WatchInv(k)'
         /\ \A k \in Jobs : "started" \in trail'[k] \ trail[k] => "finished" \notin trail[k]
<1>t. TypeOK /\ \A k \in Jobs : PathInv(k)
  BY DEF SafetyInv, JobInv
<1> USE DEF vars, lifeVars, registryVars, shellVars, jobVars, auditVars
<1> DEFINE Ordered == \A k \in Jobs : "started" \in trail'[k] \ trail[k] => "finished" \notin trail[k]
           Goal == (\A k \in Jobs : WatchInv(k)') /\ Ordered
           Told == \A k \in Jobs : "finished" \in trail'[k] <=> "finished" \in trail[k]
           Unsaid == \A k \in Jobs : "started" \in trail'[k] => "started" \in trail[k]
<1> SUFFICES Goal
  OBVIOUS
\* Who moves what: a request, its watcher, or the call that resolved it.
<1>p. ASSUME NEW j \in Jobs, NEW p \in StartPCs \ {"idle", "registered"}, Told, Unsaid,
             pc' = [pc EXCEPT ![j] = p], UNCHANGED <<watch, resolver>>, pending' \subseteq pending,
             p \in {"admitting", "reserved", "intent", "execing", "parking"} => watch[j] = "none"
      PROVE  Goal
  BY <1>t, <1>p DEF WatchInv, TypeOK, StartPCs
<1>r. ASSUME NEW j \in Jobs, NEW p, Told, Unsaid, resolver' = [resolver EXCEPT ![j] = p],
             UNCHANGED <<watch, pc>>, pending' \subseteq pending,
             p \in {"approved", "authorised", "execing"} => watch[j] = "held"
      PROVE  Goal
  BY <1>t, <1>r DEF WatchInv, TypeOK
<1>u. ASSUME UNCHANGED <<pc, watch, resolver, pending, trail>>
      PROVE  Goal
  BY <1>u DEF WatchInv
<1>1. ASSUME NEW j \in Jobs, NEW r \in Requests, Arrive(j, r) PROVE Goal
  <2>1. Told /\ Unsaid
    BY <1>t, <1>1, PublishAdds DEF Arrive, Events
  <2>2. PICK p \in {"refused", "parking", "admitting"} : pc' = [pc EXCEPT ![j] = p]
    BY <1>1 DEF Arrive
  <2>3. watch[j] = "none" /\ UNCHANGED <<watch, resolver, pending>>
    BY <1>1 DEF Arrive, WatchInv
  <2> QED
    BY <1>p, <2>1, <2>2, <2>3 DEF StartPCs
<1>2. ASSUME NEW j \in Jobs, Admit(j) \/ ExecStart(j) PROVE Goal
  <2>1. PICK p \in {"refused", "reserved", "execing"} : pc' = [pc EXCEPT ![j] = p]
    BY <1>2 DEF Admit, ExecStart
  <2>2. watch[j] = "none" /\ UNCHANGED <<watch, resolver, pending, trail>>
    BY <1>2 DEF Admit, ExecStart, WatchInv
  <2>3. Told /\ Unsaid
    BY <2>2
  <2>4. p \in StartPCs \ {"idle", "registered"} /\ pending' \subseteq pending
    BY <2>2 DEF StartPCs
  <2> QED
    BY <1>p, <2>1, <2>2, <2>3, <2>4
<1>3. ASSUME NEW j \in Jobs, RecordIntent(j) PROVE Goal
  <2>1. Told /\ Unsaid
    <3>1. PICK ok \in BOOLEAN : Publish(j, "start_requested", ok)
      BY <1>3 DEF RecordIntent
    <3> QED
      BY <1>t, <3>1, PublishAdds DEF Events
  <2>2. PICK p \in {"refused", "intent"} : pc' = [pc EXCEPT ![j] = p]
    BY <1>3 DEF RecordIntent
  <2>3. watch[j] = "none" /\ UNCHANGED <<watch, resolver, pending>>
    BY <1>3 DEF RecordIntent, WatchInv
  <2> QED
    BY <1>p, <2>1, <2>2, <2>3 DEF StartPCs
<1>4. ASSUME NEW j \in Jobs, Register(j) PROVE Goal
  <2>1. pc[j] = "execing" /\ watch[j] = "none" /\ UNCHANGED <<pending, resolver, trail>>
    BY <1>4 DEF Register, WatchInv
  <2>2. CASE UNCHANGED watch /\ pc' \in {[pc EXCEPT ![j] = "closing"], [pc EXCEPT ![j] = "failed"]}
    BY <1>p, <2>1, <2>2 DEF StartPCs
  <2>3. CASE watch' = [watch EXCEPT ![j] = "held"] /\ pc' = [pc EXCEPT ![j] = "registered"]
    <3>1. j \notin pending
      BY <1>t, <2>1 DEF PathInv, AdmissionPCs
    <3> QED
      BY <1>t, <2>1, <2>3, <3>1 DEF WatchInv, TypeOK
  <2> QED
    BY <1>4, <2>2, <2>3 DEF Register
<1>5. ASSUME NEW j \in Jobs, RegisterFailed(j) \/ CloseAfterShutdown(j) \/ KillLate(j) \/ HandBack(j)
                             \/ (Park(j) /\ pc'[j] = "refused") \/ PersistParked(j) \/ ArmTimer(j)
      PROVE  Goal
  <2>1. PICK p \in {"refused", "handed", "asking", "returned", "killing"} : pc' = [pc EXCEPT ![j] = p]
    BY <1>t, <1>5 DEF RegisterFailed, CloseAfterShutdown, KillLate, HandBack, Park, PersistParked, ArmTimer, TypeOK
  <2>2. UNCHANGED <<watch, resolver, trail>> /\ pending' \subseteq pending
    BY <1>t, <1>5, <2>1 DEF RegisterFailed, CloseAfterShutdown, KillLate, HandBack, Park, PersistParked, ArmTimer, TypeOK
  <2> QED
    BY <1>p, <2>1, <2>2 DEF StartPCs
<1>6. ASSUME NEW j \in Jobs, Park(j), pc'[j] # "refused" PROVE Goal
  <2>1. /\ pc[j] = "parking" /\ pc' = [pc EXCEPT ![j] = "parked"] /\ pending' = pending \cup {j}
        /\ UNCHANGED <<watch, resolver, trail>>
    BY <1>t, <1>6 DEF Park, TypeOK
  <2> QED
    BY <1>t, <2>1 DEF WatchInv, TypeOK
<1>7. ASSUME NEW j \in Jobs, Announce(j) PROVE Goal
  <2>1. Told /\ \A k \in Jobs : k # j => trail'[k] = trail[k]
    BY <1>t, <1>7, PublishAdds DEF Announce, Events
  <2>2. /\ watch[j] = "held" /\ pc[j] = "registered" /\ "finished" \notin trail[j]
        /\ watch' = [watch EXCEPT ![j] = "ready"] /\ pc' = [pc EXCEPT ![j] = "returned"]
        /\ UNCHANGED <<pending, resolver>>
    BY <1>7 DEF Announce, WatchInv
  <2>3. j \notin pending /\ resolver[j] = "none"
    BY <1>t, <2>2 DEF PathInv, AdmissionPCs
  <2>4. WatchInv(j)'
    BY <1>t, <2>1, <2>2, <2>3 DEF WatchInv, TypeOK
  <2>5. \A k \in Jobs : k # j => WatchInv(k)'
    BY <1>t, <2>1, <2>2 DEF WatchInv, TypeOK
  <2>6. Ordered
    BY <2>1, <2>2
  <2> QED
    BY <2>4, <2>5, <2>6 DEF WatchInv
<1>8. ASSUME NEW j \in Jobs, AskHuman(j) PROVE Goal
  <2>1. Told /\ Unsaid
    <3>1. PICK ok \in BOOLEAN : Publish(j, "confirm_requested", ok)
      BY <1>8 DEF AskHuman
    <3> QED
      BY <1>t, <3>1, PublishAdds DEF Events
  <2>2. PICK p \in {"refused", "arming"} : pc' = [pc EXCEPT ![j] = p]
    BY <1>8 DEF AskHuman
  <2>3. UNCHANGED <<watch, resolver>> /\ pending' \subseteq pending
    BY <1>8 DEF AskHuman
  <2> QED
    BY <1>p, <2>1, <2>2, <2>3 DEF StartPCs
<1>9. ASSUME NEW j \in Jobs, Approve(j) PROVE Goal
  <2>1. /\ j \in pending /\ watch[j] = "none" /\ pending' = pending \ {j} /\ UNCHANGED <<pc, trail>>
        /\ resolver' = [resolver EXCEPT ![j] = "approved"] /\ watch' = [watch EXCEPT ![j] = "held"]
    BY <1>9 DEF Approve, TakePending, WatchInv
  <2>2. /\ pc[j] \notin {"idle", "admitting", "reserved", "intent", "execing", "parking", "registered"}
    BY <1>t, <2>1 DEF PathInv, AdmissionPCs
  <2>3. WatchInv(j)'
    BY <1>t, <2>1, <2>2 DEF WatchInv, TypeOK
  <2>4. \A k \in Jobs : k # j => WatchInv(k)'
    BY <1>t, <2>1 DEF WatchInv, TypeOK
  <2>5. Ordered
    BY <2>1
  <2> QED
    BY <2>3, <2>4, <2>5 DEF WatchInv
<1>10. ASSUME NEW j \in Jobs, RecordApproval(j) \/ Withdraw(j) PROVE Goal
  <2>1. Told /\ Unsaid
    <3>1. CASE UNCHANGED trail
      BY <3>1
    <3>2. CASE \E ok \in BOOLEAN, e \in {"approved", "denied"} : Publish(j, e, ok)
      BY <1>t, <3>2, PublishAdds DEF Events
    <3> QED
      BY <1>10, <3>1, <3>2 DEF RecordApproval, Withdraw
  <2>2. PICK p \in {"authorised", "releasing", "done"} : resolver' = [resolver EXCEPT ![j] = p] /\ (p = "authorised" => resolver[j] = "approved")
    BY <1>10 DEF RecordApproval, Withdraw
  <2>3. UNCHANGED <<watch, pc, pending>>
    BY <1>10 DEF RecordApproval, Withdraw
  <2> QED
    BY <1>r, <2>1, <2>2, <2>3 DEF WatchInv
<1>11. ASSUME NEW j \in Jobs, ExecApproved(j) PROVE Goal
  BY <1>11, <1>r DEF ExecApproved, WatchInv
<1>12. ASSUME NEW j \in Jobs, AnnounceApproved(j) PROVE Goal
  <2>1. Told /\ \A k \in Jobs : k # j => trail'[k] = trail[k]
    BY <1>t, <1>12, PublishAdds DEF AnnounceApproved, Events
  <2>2. /\ watch[j] = "held" /\ "finished" \notin trail[j] /\ resolver[j] = "execing"
        /\ resolver' = [resolver EXCEPT ![j] = "releasing"] /\ UNCHANGED <<pc, pending>>
        /\ watch' \in {watch, [watch EXCEPT ![j] = "ready"]}
    BY <1>12 DEF AnnounceApproved, WatchInv
  <2>3. /\ j \notin pending
        /\ pc[j] \notin {"idle", "admitting", "reserved", "intent", "execing", "parking", "registered"}
    BY <1>t, <2>2 DEF PathInv, AdmissionPCs
  <2> QED
    BY <1>t, <2>1, <2>2, <2>3 DEF WatchInv, TypeOK
<1>13. ASSUME NEW j \in Jobs, ReleaseApproval(j) PROVE Goal
  <2>1. /\ resolver[j] = "releasing" /\ resolver' = [resolver EXCEPT ![j] = "done"]
        /\ watch' = watch \/ (watch[j] = "held" /\ watch' = [watch EXCEPT ![j] = "ready"])
        /\ UNCHANGED <<pc, pending, trail>>
    BY <1>13 DEF ReleaseApproval
  <2>2. /\ j \notin pending
        /\ pc[j] \notin {"idle", "admitting", "reserved", "intent", "execing", "parking", "registered"}
    BY <1>t, <2>1 DEF PathInv, AdmissionPCs
  <2> QED
    BY <1>t, <2>1, <2>2 DEF WatchInv, TypeOK
<1>14. ASSUME NEW j \in Jobs, Deny(j) \/ TimeOut(j) \/ KillPending(j) PROVE Goal
  <2>1. PICK p \in {"denied", "cancelled"} : resolver' = [resolver EXCEPT ![j] = p]
    BY <1>14 DEF Deny, TimeOut, KillPending, TakePending
  <2>2. UNCHANGED <<watch, pc, trail>> /\ pending' \subseteq pending
    BY <1>14 DEF Deny, TimeOut, KillPending, TakePending
  <2> QED
    BY <1>r, <2>1, <2>2
<1>15. ASSUME NEW j \in Jobs, Watch(j) PROVE Goal
  <2>1. \A k \in Jobs : trail'[k] = trail[k] \/ (k = j /\ trail'[k] = trail[k] \cup {"finished"})
    BY <1>t, <1>15, PublishEffect DEF Watch, Events
  <2>2. watch[j] = "ready" /\ watch' = [watch EXCEPT ![j] = "done"] /\ UNCHANGED <<pc, pending, resolver>>
    BY <1>15 DEF Watch
  <2> QED
    BY <1>t, <2>1, <2>2 DEF WatchInv, TypeOK
<1>16. ASSUME NEW j \in Jobs, ShellStep(j) \/ Complete(j) \/ Collect(j) \/ FinalizeDetached(j) PROVE Goal
  BY <1>16, <1>u DEF ShellStep, SendLine, SendFails, WriteTimesOut, StartFailed, SendReturns, Complete, Collect, FinalizeDetached
<1>17. ASSUME NEW s \in Sessions, SessionStep(s) PROVE Goal
  BY <1>t, <1>17, <1>u DEF SessionStep, ShellExits, BeginClose, FinishClose, CloseSession, WatchInv, PathInv
<1>18. ASSUME Shutdown PROVE Goal
  BY <1>t, <1>18 DEF Shutdown, WatchInv
<1>19. ASSUME Drain \/ AuditFails \/ UNCHANGED vars PROVE Goal
  BY <1>19, <1>u DEF Drain, AuditFails
<1> QED
  BY <1>1, <1>2, <1>3, <1>4, <1>5, <1>6, <1>7, <1>8, <1>9, <1>10, <1>11, <1>12, <1>13, <1>14, <1>15,
     <1>16, <1>17, <1>18, <1>19
     DEF Next, JobStep, StartStep, ResolveStep, AtRest

\* job.finished never precedes job.started: the watcher is held until the call
\* that started the command has announced it (prepareWatchLocked, publishStarted).
THEOREM EventsInOrder == Spec => StartedBeforeFinished
<1>1. SafetyInv /\ (\A k \in Jobs : WatchInv(k)) /\ [Next]_vars
        => (\A k \in Jobs : WatchInv(k))' /\ [\A j \in Jobs : "started" \in trail'[j] \ trail[j] => "finished" \notin trail[j]]_vars
  BY WatchNext
<1> QED
  BY SafetyInit, SafetyNext, WatchInit, <1>1, PTL DEF Spec, StartedBeforeFinished

-----------------------------------------------------------------------------
(* The foreground pool *)

\* A command runs before it is listed or while its approval counts for it, and
\* one that failed to start does not run.
PoolInv(j) ==
  /\ pc[j] \in {"idle", "admitting", "reserved", "intent", "execing", "parking"} => j \notin registry
  /\ pc[j] = "failed" => exec[j] = "failed"
  /\ exec[j] = "failed" => status[j] # "running"
  /\ resolver[j] = "releasing" /\ status[j] = "running" /\ req[j].mode = "background" => j \in background

LEMMA PoolInit == Init => \A k \in Jobs : PoolInv(k)
BY DEF Init, PoolInv

LEMMA PoolNext ==
  ASSUME SafetyInv, \A k \in Jobs : PoolInv(k), [Next]_vars
  PROVE  \A k \in Jobs : PoolInv(k)'
<1>t. TypeOK /\ \A k \in Jobs : PathInv(k) /\ OneExecInv(k)
  BY DEF SafetyInv, JobInv
<1> USE DEF vars, lifeVars, registryVars, reserveVars, shellVars, jobVars, auditVars
<1>f. ASSUME NEW j \in Jobs, NEW st \in TerminalStatuses
      PROVE  Finalized(j, st)[j] # "running" /\ \A k \in Jobs : k # j => Finalized(j, st)[k] = status[k]
  BY <1>t DEF Finalized, Terminal, TerminalStatuses, TypeOK
\* A step of j that starts nothing: no job it is not about is listed by it.
<1>p. ASSUME NEW j \in Jobs, UNCHANGED <<exec, resolver, req>>, background \subseteq background',
             \A k \in Jobs : k # j => pc'[k] = pc[k] /\ (k \in registry' => k \in registry),
             \A k \in Jobs : status'[k] = "running" => status[k] = "running",
             pc'[j] \in {"idle", "admitting", "reserved", "intent", "execing", "parking"} => j \notin registry',
             pc'[j] = "failed" => exec[j] = "failed"
      PROVE  \A k \in Jobs : PoolInv(k)'
  BY <1>p DEF PoolInv
\* A step that moves no request.
<1>u. ASSUME UNCHANGED <<pc, req>>, registry' \subseteq registry, background \subseteq background',
             \A k \in Jobs : /\ status'[k] = "running" => status[k] = "running"
                             /\ exec'[k] = "failed" => exec[k] = "failed" \/ status'[k] # "running"
                             /\ exec[k] = "failed" => exec'[k] = "failed"
                             /\ resolver'[k] = "releasing" =>
                                  resolver[k] = "releasing" \/ status'[k] # "running" \/ req[k].mode # "background"
                                  \/ k \in background'
      PROVE  \A k \in Jobs : PoolInv(k)'
  BY <1>u DEF PoolInv
<1>1. ASSUME NEW j \in Jobs, NEW r \in Requests, Arrive(j, r) PROVE \A k \in Jobs : PoolInv(k)'
  <2>1. /\ pc[j] = "idle" /\ resolver[j] = "none" /\ exec[j] = "none" /\ j \notin registry
        /\ UNCHANGED <<registry, exec, resolver, background, status>>
        /\ req' = [req EXCEPT ![j] = r]
    BY <1>t, <1>1 DEF Arrive, PathInv, PoolInv
  <2>2. PICK p \in {"refused", "parking", "admitting"} : pc' = [pc EXCEPT ![j] = p]
    BY <1>1 DEF Arrive
  <2> QED
    BY <1>t, <2>1, <2>2 DEF PoolInv, TypeOK
<1>2. ASSUME NEW j \in Jobs, Admit(j) PROVE \A k \in Jobs : PoolInv(k)'
  <2>1. pc[j] = "admitting" /\ j \notin registry /\ registry' \subseteq registry
    BY <1>2, RoomyEffect DEF Admit, PoolInv
  <2>2. PICK p \in {"refused", "reserved"} : pc' = [pc EXCEPT ![j] = p]
    BY <1>2 DEF Admit
  <2> QED
    BY <1>t, <1>2, <1>p, <2>1, <2>2 DEF Admit, TypeOK
<1>3. ASSUME NEW j \in Jobs, RecordIntent(j) PROVE \A k \in Jobs : PoolInv(k)'
  <2>1. pc[j] = "reserved" /\ j \notin registry
    BY <1>3 DEF RecordIntent, PoolInv
  <2>2. PICK p \in {"refused", "intent"} : pc' = [pc EXCEPT ![j] = p]
    BY <1>3 DEF RecordIntent
  <2>3. UNCHANGED <<registry, exec, resolver, req, background, status>>
    BY <1>3 DEF RecordIntent
  <2> QED
    BY <1>t, <1>p, <2>1, <2>2, <2>3 DEF TypeOK
<1>4. ASSUME NEW j \in Jobs, ExecStart(j) PROVE \A k \in Jobs : PoolInv(k)'
  <2>1. /\ pc[j] = "intent" /\ j \notin registry /\ resolver[j] = "none" /\ Attach(j)
        /\ pc' = [pc EXCEPT ![j] = "execing"] /\ UNCHANGED <<registry, resolver, req, background>>
    BY <1>t, <1>4 DEF ExecStart, PoolInv, PathInv, AdmissionPCs
  <2>2. exec'[j] = "failed" => status'[j] # "running"
    BY <1>t, <1>f, <2>1 DEF Attach, Terminal, TerminalStatuses, TypeOK
  <2>3. \A k \in Jobs : k # j => exec'[k] = exec[k] /\ status'[k] = status[k]
    BY <1>t, <2>1 DEF Attach, Finalized, TypeOK
  <2> QED
    BY <1>t, <2>1, <2>2, <2>3 DEF PoolInv, TypeOK
<1>5. ASSUME NEW j \in Jobs, Register(j) PROVE \A k \in Jobs : PoolInv(k)'
  <2>1. /\ pc[j] = "execing" /\ j \notin registry /\ registry' \subseteq registry \cup {j}
        /\ background \subseteq background' /\ UNCHANGED <<exec, resolver, req, status>>
    BY <1>5 DEF Register, PoolInv
  <2>2. PICK p \in {"closing", "registered", "failed"} :
          pc' = [pc EXCEPT ![j] = p] /\ (p = "failed" => exec[j] = "failed")
    BY <1>5 DEF Register
  <2> QED
    BY <1>t, <1>p, <2>1, <2>2 DEF TypeOK
<1>6. ASSUME NEW j \in Jobs,
             \/ RegisterFailed(j) \/ Announce(j) \/ HandBack(j) \/ PersistParked(j)
             \/ ArmTimer(j) \/ CloseAfterShutdown(j) \/ KillLate(j)
      PROVE  \A k \in Jobs : PoolInv(k)'
  <2>1. PICK p \in {"refused", "returned", "handed", "asking", "killing"} : pc' = [pc EXCEPT ![j] = p]
    BY <1>6 DEF RegisterFailed, Announce, HandBack, PersistParked, ArmTimer, CloseAfterShutdown, KillLate
  <2>2. /\ registry' \subseteq registry \cup {j} /\ background \subseteq background'
        /\ UNCHANGED <<exec, resolver, req, status>>
    BY <1>6, RoomyEffect DEF RegisterFailed, Announce, HandBack, PersistParked, ArmTimer, CloseAfterShutdown, KillLate
  <2> QED
    BY <1>t, <1>p, <2>1, <2>2 DEF TypeOK
<1>7. ASSUME NEW j \in Jobs, Park(j) PROVE \A k \in Jobs : PoolInv(k)'
  <2>1. PICK p \in {"refused", "parked"} : pc' = [pc EXCEPT ![j] = p]
    BY <1>7 DEF Park
  <2>2. /\ registry' \subseteq registry \cup {j} /\ UNCHANGED <<exec, resolver, req, background>>
        /\ \A k \in Jobs : status'[k] = "running" => status[k] = "running"
    BY <1>t, <1>7, RoomyEffect DEF Park, TypeOK
  <2> QED
    BY <1>t, <1>p, <2>1, <2>2 DEF TypeOK
<1>8. ASSUME NEW j \in Jobs, AskHuman(j) PROVE \A k \in Jobs : PoolInv(k)'
  <2>1. PICK p \in {"refused", "arming"} : pc' = [pc EXCEPT ![j] = p]
    BY <1>8 DEF AskHuman
  <2>2. UNCHANGED <<registry, exec, resolver, req, background>> /\ (status' = status \/ status' = Finalized(j, "failed"))
    BY <1>8 DEF AskHuman
  <2>3. \A k \in Jobs : status'[k] = "running" => status[k] = "running"
    BY <1>f, <2>2 DEF TerminalStatuses
  <2> QED
    BY <1>t, <1>p, <2>1, <2>2, <2>3 DEF TypeOK
<1>9. ASSUME NEW j \in Jobs, ShellStep(j) PROVE \A k \in Jobs : PoolInv(k)'
  <2>1. exec[j] \in {"writing", "sent"} /\ UNCHANGED <<registry, pc, resolver, req, background>>
    BY <1>9 DEF ShellStep, SendLine, SendFails, WriteTimesOut, StartFailed, SendReturns
  <2>2. \/ exec' \in {[exec EXCEPT ![j] = "sent"], [exec EXCEPT ![j] = "ok"]} /\ status' = status
        \/ exec' = [exec EXCEPT ![j] = "failed"] /\ status' = Finalized(j, "failed")
    BY <1>9 DEF ShellStep, SendLine, SendFails, WriteTimesOut, StartFailed, SendReturns
  <2>3. /\ exec'[j] = "failed" => status'[j] # "running"
        /\ \A k \in Jobs : status'[k] = "running" => status[k] = "running"
        /\ \A k \in Jobs : k # j => exec'[k] = exec[k]
    BY <1>t, <1>f, <2>2 DEF TypeOK, TerminalStatuses
  <2> QED
    BY <1>u, <2>1, <2>3
<1>10. ASSUME NEW j \in Jobs, Approve(j) \/ Deny(j) \/ TimeOut(j) \/ KillPending(j)
       PROVE  \A k \in Jobs : PoolInv(k)'
  <2>1. PICK p \in {"approved", "denied", "cancelled"} : resolver' = [resolver EXCEPT ![j] = p]
    BY <1>10 DEF Approve, Deny, TimeOut, KillPending, TakePending
  <2>2. UNCHANGED <<registry, pc, exec, req, background, status>>
    BY <1>10 DEF Approve, Deny, TimeOut, KillPending, TakePending
  <2> QED
    BY <1>t, <1>u, <2>1, <2>2 DEF TypeOK
<1>11. ASSUME NEW j \in Jobs, RecordApproval(j) \/ Withdraw(j) PROVE \A k \in Jobs : PoolInv(k)'
  <2>1. PICK p \in {"authorised", "releasing", "done"} : resolver' = [resolver EXCEPT ![j] = p]
    BY <1>11 DEF RecordApproval, Withdraw
  <2>2. UNCHANGED <<registry, pc, exec, req, background>>
    BY <1>11 DEF RecordApproval, Withdraw
  <2>3. status' = status \/ \E st \in TerminalStatuses : status' = Finalized(j, st)
    BY <1>11 DEF RecordApproval, Withdraw, TerminalStatuses
  <2>4. p = "releasing" => \E st \in TerminalStatuses : status' = Finalized(j, st)
    BY <1>t, <1>11, <2>1 DEF RecordApproval, Withdraw, TerminalStatuses, TypeOK
  <2> QED
    BY <1>t, <1>u, <1>f, <2>1, <2>2, <2>3, <2>4 DEF TypeOK
<1>12. ASSUME NEW j \in Jobs, ExecApproved(j) PROVE \A k \in Jobs : PoolInv(k)'
  <2>1. /\ resolver[j] = "authorised" /\ exec[j] = "none" /\ Attach(j)
        /\ resolver' = [resolver EXCEPT ![j] = "execing"] /\ UNCHANGED <<registry, pc, req, background>>
        /\ pc[j] # "failed"
    BY <1>t, <1>12 DEF ExecApproved, OneExecInv, PathInv, AdmissionPCs
  <2>2. exec'[j] = "failed" => status'[j] # "running"
    BY <1>t, <1>f, <2>1 DEF Attach, Terminal, TerminalStatuses, TypeOK
  <2>3. \A k \in Jobs : k # j => exec'[k] = exec[k] /\ status'[k] = status[k]
    BY <1>t, <2>1 DEF Attach, Finalized, TypeOK
  <2> QED
    BY <1>t, <2>1, <2>2, <2>3 DEF PoolInv, TypeOK
<1>13. ASSUME NEW j \in Jobs, AnnounceApproved(j) PROVE \A k \in Jobs : PoolInv(k)'
  <2>1. /\ exec[j] \in {"ok", "failed"} /\ resolver' = [resolver EXCEPT ![j] = "releasing"]
        /\ UNCHANGED <<registry, pc, exec, req, status>> /\ background \subseteq background'
        /\ exec[j] = "ok" /\ req[j].mode = "background" => j \in background'
    BY <1>13 DEF AnnounceApproved
  <2>2. exec[j] = "failed" => status[j] # "running"
    BY DEF PoolInv
  <2> QED
    BY <1>t, <1>u, <2>1, <2>2 DEF TypeOK
<1>14. ASSUME NEW j \in Jobs, ReleaseApproval(j) PROVE \A k \in Jobs : PoolInv(k)'
  <2>1. resolver' = [resolver EXCEPT ![j] = "done"] /\ UNCHANGED <<registry, pc, exec, req, background, status>>
    BY <1>14 DEF ReleaseApproval
  <2> QED
    BY <1>t, <1>u, <2>1 DEF TypeOK
<1>15. ASSUME NEW j \in Jobs, Complete(j) \/ FinalizeDetached(j) PROVE \A k \in Jobs : PoolInv(k)'
  <2>1. PICK st \in TerminalStatuses : status' = Finalized(j, st)
    BY <1>t, <1>15 DEF Complete, FinalizeDetached, TerminalStatuses, TypeOK
  <2>2. UNCHANGED <<registry, pc, exec, resolver, req, background>>
    BY <1>15 DEF Complete, FinalizeDetached
  <2> QED
    BY <1>f, <1>u, <2>1, <2>2
<1>16. ASSUME NEW j \in Jobs, Watch(j) \/ Collect(j) PROVE \A k \in Jobs : PoolInv(k)'
  BY <1>16, <1>u DEF Watch, Collect
<1>17. ASSUME NEW s \in Sessions, SessionStep(s) PROVE \A k \in Jobs : PoolInv(k)'
  <2>1. /\ UNCHANGED <<registry, pc, exec, req, background, status>>
        /\ \A k \in Jobs : resolver'[k] = "releasing" => resolver[k] = "releasing"
    BY <1>17 DEF SessionStep, ShellExits, BeginClose, FinishClose, CloseSession
  <2> QED
    BY <1>u, <2>1
<1>18. ASSUME Shutdown \/ Drain \/ AuditFails \/ UNCHANGED vars PROVE \A k \in Jobs : PoolInv(k)'
  <2>1. /\ UNCHANGED <<registry, pc, exec, req, background, status>>
        /\ \A k \in Jobs : resolver'[k] = "releasing" => resolver[k] = "releasing"
    BY <1>18 DEF Shutdown, Drain, AuditFails
  <2> QED
    BY <1>u, <2>1
<1> QED
  BY <1>1, <1>2, <1>3, <1>4, <1>5, <1>6, <1>7, <1>8, <1>9, <1>10, <1>11, <1>12, <1>13, <1>14, <1>15,
     <1>16, <1>17, <1>18
     DEF Next, JobStep, StartStep, ResolveStep, AtRest

\* The pool with finitely many jobs listed.
ForegroundInv == IsFiniteSet(registry) /\ ForegroundPoolBounded

\* The commands that activeForeground counts.
Counted == {j \in registry \ reservedQuotaJobs : status[j] = "running" /\ j \notin background}

LEMMA CountedIsActive == ActiveForeground = Cardinality(Counted) /\ ActiveForeground' = Cardinality(Counted')
<1>1. \A j, S : ((j \in S) = FALSE) <=> j \notin S
  OBVIOUS
<1>2. ActiveIn(FALSE) = Counted
  BY <1>1, Zenon DEF ActiveIn, Counted
<1>3. ActiveIn(FALSE)' = Counted'
  BY <1>1, Zenon DEF ActiveIn, Counted
<1> QED
  BY <1>2, <1>3 DEF ActiveForeground

\* A step after which no more commands count, and none is newly promised.
LEMMA PoolShrinks ==
  ASSUME TypeOK, ForegroundInv, MaxForegroundJobs > 0, IsFiniteSet(registry'),
         Counted' \subseteq Counted,
         reservedForeground' \in Int, reservedForeground' <= reservedForeground
  PROVE  ForegroundInv'
<1>1. IsFiniteSet(Counted)
  BY FS_Subset DEF Counted, ForegroundInv
<1>2. IsFiniteSet(Counted') /\ Cardinality(Counted') <= Cardinality(Counted)
  BY <1>1, FS_Subset
<1>3. Cardinality(Counted) \in Nat /\ Cardinality(Counted') \in Nat
  BY <1>1, <1>2, FS_CardinalityType
<1> QED
  BY <1>2, <1>3, CountedIsActive, EngineConstants DEF ForegroundInv, ForegroundPoolBounded, TypeOK

\* A promise is kept by at most the one command it was made for.
LEMMA PoolSwaps ==
  ASSUME TypeOK, ForegroundInv, MaxForegroundJobs > 0, IsFiniteSet(registry'), NEW j,
         Counted' \subseteq Counted \cup {j},
         reservedForeground' = reservedForeground - 1
  PROVE  ForegroundInv'
<1>1. IsFiniteSet(Counted)
  BY FS_Subset DEF Counted, ForegroundInv
<1>2. /\ IsFiniteSet(Counted \cup {j})
      /\ Cardinality(Counted \cup {j}) \in {Cardinality(Counted), Cardinality(Counted) + 1}
  BY <1>1, FS_AddElement
<1>3. IsFiniteSet(Counted') /\ Cardinality(Counted') <= Cardinality(Counted \cup {j})
  BY <1>2, FS_Subset
<1>4. Cardinality(Counted) \in Nat /\ Cardinality(Counted') \in Nat
  BY <1>1, <1>3, FS_CardinalityType
<1> QED
  BY <1>2, <1>3, <1>4, CountedIsActive, EngineConstants DEF ForegroundInv, ForegroundPoolBounded, TypeOK

\* A promise is made only while the pool has room for it.
LEMMA PoolTakes ==
  ASSUME TypeOK, ForegroundInv, MaxForegroundJobs > 0, IsFiniteSet(registry'), ~ForegroundFull,
         Counted' \subseteq Counted, reservedForeground' = reservedForeground + 1
  PROVE  ForegroundInv'
<1>1. IsFiniteSet(Counted)
  BY FS_Subset DEF Counted, ForegroundInv
<1>2. IsFiniteSet(Counted') /\ Cardinality(Counted') <= Cardinality(Counted)
  BY <1>1, FS_Subset
<1>3. Cardinality(Counted) \in Nat /\ Cardinality(Counted') \in Nat
  BY <1>1, <1>2, FS_CardinalityType
<1> QED
  BY <1>2, <1>3, CountedIsActive, EngineConstants DEF ForegroundInv, ForegroundPoolBounded, ForegroundFull, TypeOK

LEMMA ForegroundInit == Init => ForegroundInv
<1> SUFFICES ASSUME Init PROVE ForegroundInv
  OBVIOUS
<1>1. registry = {} /\ reservedForeground = 0 /\ Counted = {}
  BY DEF Init, Counted
<1> QED
  BY <1>1, FS_EmptySet, CountedIsActive, EngineConstants DEF ForegroundInv, ForegroundPoolBounded

LEMMA ForegroundNext ==
  ASSUME SafetyInv, LedgerInv, \A k \in Jobs : PoolInv(k), ForegroundInv, IsFiniteSet(registry'), [Next]_vars
  PROVE  ForegroundInv'
<1>t. /\ TypeOK /\ reservedForeground \in Int /\ registry \subseteq Jobs
      /\ \A k \in Jobs : PathInv(k) /\ OneExecInv(k)
      /\ reservedQuotaJobs = Approving
  BY DEF SafetyInv, JobInv, TypeOK, LedgerInv, ReservationsExact
<1> SUFFICES ASSUME MaxForegroundJobs > 0 PROVE ForegroundInv'
  BY DEF ForegroundInv, ForegroundPoolBounded
<1> USE DEF vars, lifeVars, registryVars, reserveVars, shellVars, jobVars, auditVars
\* A step that lists nothing, starts nothing and promises nothing.
<1>u. ASSUME UNCHANGED reservedForeground,
             \A k \in Jobs : /\ k \in registry' /\ status'[k] = "running" => k \in registry /\ status[k] = "running"
                             /\ k \in background => k \in background'
                             /\ k \in reservedQuotaJobs => k \in reservedQuotaJobs',
             registry' \subseteq Jobs
      PROVE  ForegroundInv'
  <2>1. Counted' \subseteq Counted
    BY <1>u DEF Counted
  <2> QED
    BY <1>t, <1>u, <2>1, PoolShrinks
<1>f. ASSUME NEW j \in Jobs, NEW st \in TerminalStatuses, NEW k \in Jobs, Finalized(j, st)[k] = "running"
      PROVE  status[k] = "running"
  BY <1>t, <1>f DEF Finalized, Terminal, TerminalStatuses, TypeOK
<1>r. \A r \in RoomyRegistries : r \subseteq registry
  BY RoomyEffect
<1>1. ASSUME NEW j \in Jobs, Admit(j) PROVE ForegroundInv'
  <2>1. registry' \subseteq registry /\ UNCHANGED <<reservedQuotaJobs, status, background>>
    BY <1>1, <1>r DEF Admit
  <2>2. Counted' \subseteq Counted
    BY <2>1 DEF Counted
  <2>3. CASE UNCHANGED reserveVars
    BY <1>t, <2>2, <2>3, PoolShrinks
  <2>4. CASE ReserveStart(j, 1) /\ ~ClassFull(req[j].mode)
    <3>1. CASE req[j].mode = "background"
      <4>1. reservedForeground' = reservedForeground
        BY <1>t, <2>4, <3>1 DEF ReserveStart
      <4> QED
        BY <1>t, <2>2, <4>1, PoolShrinks
    <3>2. CASE req[j].mode # "background"
      <4>1. reservedForeground' = reservedForeground + 1 /\ ~ForegroundFull
        BY <1>t, <2>4, <3>2 DEF ReserveStart, ClassFull
      <4> QED
        BY <1>t, <2>2, <4>1, PoolTakes
    <3> QED
      BY <3>1, <3>2
  <2> QED
    BY <1>1, <2>3, <2>4 DEF Admit
<1>2. ASSUME NEW j \in Jobs, RecordIntent(j) PROVE ForegroundInv'
  <2>1. UNCHANGED <<registry, reservedQuotaJobs, status, background>>
    BY <1>2 DEF RecordIntent
  <2>2. Counted' \subseteq Counted
    BY <2>1 DEF Counted
  <2>3. reservedForeground' = reservedForeground \/ reservedForeground' = reservedForeground - 1
    <3>1. CASE UNCHANGED reserveVars
      BY <3>1
    <3>2. CASE ReserveStart(j, -1)
      BY <1>t, <3>2 DEF ReserveStart
    <3> QED
      BY <1>2, <3>1, <3>2 DEF RecordIntent
  <2> QED
    BY <1>t, <2>2, <2>3, PoolShrinks
<1>3. ASSUME NEW j \in Jobs, Register(j) PROVE ForegroundInv'
  <2>1. /\ registry' \subseteq registry \cup {j} /\ UNCHANGED <<reservedQuotaJobs, status>>
        /\ background' = IF req[j].mode = "background" THEN background \cup {j} ELSE background
        /\ ReserveStart(j, -1)
    BY <1>3 DEF Register
  <2>2. CASE req[j].mode = "background"
    <3>1. Counted' \subseteq Counted
      BY <2>1, <2>2 DEF Counted
    <3>2. reservedForeground' = reservedForeground
      BY <1>t, <2>1, <2>2 DEF ReserveStart
    <3> QED
      BY <1>t, <3>1, <3>2, PoolShrinks
  <2>3. CASE req[j].mode # "background"
    <3>1. Counted' \subseteq Counted \cup {j}
      BY <2>1, <2>3 DEF Counted
    <3>2. reservedForeground' = reservedForeground - 1
      BY <1>t, <2>1, <2>3 DEF ReserveStart
    <3> QED
      BY <1>t, <3>1, <3>2, PoolSwaps
  <2> QED
    BY <2>2, <2>3
<1>4. ASSUME NEW j \in Jobs, RegisterFailed(j) PROVE ForegroundInv'
  <2>1. /\ registry' \subseteq registry \cup {j} /\ UNCHANGED <<reservedQuotaJobs, status, background, reservedForeground>>
    BY <1>4, <1>r DEF RegisterFailed
  <2>2. status[j] # "running"
    BY <1>4 DEF RegisterFailed, PoolInv
  <2>3. Counted' \subseteq Counted
    BY <2>1, <2>2 DEF Counted
  <2> QED
    BY <1>t, <2>1, <2>3, PoolShrinks
<1>5. ASSUME NEW j \in Jobs, ExecStart(j) \/ ExecApproved(j) PROVE ForegroundInv'
  <2>1. Attach(j) /\ UNCHANGED <<registry, reservedQuotaJobs, background, reservedForeground>>
    BY <1>5 DEF ExecStart, ExecApproved
  <2>2. \A k \in Jobs : k # j => status'[k] = status[k]
    BY <1>t, <2>1 DEF Attach, Finalized, TypeOK
  <2>3. j \notin registry \/ j \in reservedQuotaJobs
    BY <1>t, <1>5 DEF ExecStart, ExecApproved, PoolInv, Approving
  <2>4. Counted' \subseteq Counted
    BY <1>t, <2>1, <2>2, <2>3 DEF Counted
  <2> QED
    BY <1>t, <2>1, <2>4, PoolShrinks
<1>6. ASSUME NEW j \in Jobs, Park(j) PROVE ForegroundInv'
  <2>1. /\ registry' \subseteq registry \cup {j} /\ UNCHANGED <<reservedQuotaJobs, background, reservedForeground>>
        /\ \A k \in Jobs : k # j => status'[k] = status[k]
        /\ (registry' \subseteq registry /\ status' = status) \/ status'[j] # "running"
    BY <1>t, <1>6, <1>r DEF Park, TypeOK
  <2>2. Counted' \subseteq Counted
    BY <1>t, <2>1 DEF Counted
  <2> QED
    BY <1>t, <2>1, <2>2, PoolShrinks
<1>7. ASSUME NEW j \in Jobs, Approve(j) PROVE ForegroundInv'
  <2>1. /\ ReserveClass(j, 1) /\ ~ClassFull(req[j].mode)
        /\ UNCHANGED <<registry, status, background>> /\ reservedQuotaJobs \subseteq reservedQuotaJobs'
    BY <1>7 DEF Approve
  <2>2. Counted' \subseteq Counted
    BY <2>1 DEF Counted
  <2>3. CASE req[j].mode = "background"
    <3>1. reservedForeground' = reservedForeground
      BY <1>t, <2>1, <2>3 DEF ReserveClass
    <3> QED
      BY <1>t, <2>2, <3>1, PoolShrinks
  <2>4. CASE req[j].mode # "background"
    <3>1. reservedForeground' = reservedForeground + 1 /\ ~ForegroundFull
      BY <1>t, <2>1, <2>4 DEF ReserveClass, ClassFull
    <3> QED
      BY <1>t, <2>2, <3>1, PoolTakes
  <2> QED
    BY <2>3, <2>4
<1>8. ASSUME NEW j \in Jobs, ReleaseApproval(j) PROVE ForegroundInv'
  <2>1. /\ ReserveClass(j, -1) /\ UNCHANGED <<registry, status, background>> /\ resolver[j] = "releasing"
        /\ reservedQuotaJobs' = reservedQuotaJobs \ {j}
    BY <1>8 DEF ReleaseApproval
  <2>2. CASE req[j].mode = "background"
    <3>1. Counted' \subseteq Counted
      BY <2>1, <2>2 DEF Counted, PoolInv
    <3>2. reservedForeground' = reservedForeground
      BY <1>t, <2>1, <2>2 DEF ReserveClass
    <3> QED
      BY <1>t, <3>1, <3>2, PoolShrinks
  <2>3. CASE req[j].mode # "background"
    <3>1. Counted' \subseteq Counted \cup {j}
      BY <2>1 DEF Counted
    <3>2. reservedForeground' = reservedForeground - 1
      BY <1>t, <2>1, <2>3 DEF ReserveClass
    <3> QED
      BY <1>t, <3>1, <3>2, PoolSwaps
  <2> QED
    BY <2>2, <2>3
<1>9. ASSUME NEW j \in Jobs, ShellStep(j) \/ Complete(j) \/ FinalizeDetached(j) \/ AskHuman(j) \/ Withdraw(j) \/ RecordApproval(j)
      PROVE  ForegroundInv'
  <2>1. status' = status \/ \E st \in TerminalStatuses : status' = Finalized(j, st)
    BY <1>t, <1>9 DEF ShellStep, SendLine, SendFails, WriteTimesOut, StartFailed, SendReturns, Complete, FinalizeDetached, AskHuman,
       Withdraw, RecordApproval, TerminalStatuses, TypeOK
  <2>2. UNCHANGED <<registry, reservedForeground, reservedQuotaJobs, background>>
    BY <1>9 DEF ShellStep, SendLine, SendFails, WriteTimesOut, StartFailed, SendReturns, Complete, FinalizeDetached, AskHuman,
       Withdraw, RecordApproval
  <2> QED
    BY <1>t, <1>f, <1>u, <2>1, <2>2
<1>10. ASSUME NEW j \in Jobs,
              \/ \E r \in Requests : Arrive(j, r)
              \/ Announce(j) \/ PersistParked(j) \/ ArmTimer(j) \/ CloseAfterShutdown(j) \/ KillLate(j) \/ HandBack(j)
              \/ AnnounceApproved(j) \/ Watch(j) \/ Collect(j) \/ Deny(j) \/ TimeOut(j) \/ KillPending(j)
       PROVE  ForegroundInv'
  <2>1. /\ UNCHANGED <<reservedForeground, reservedQuotaJobs, status>>
        /\ registry' \subseteq registry /\ background \subseteq background'
    BY <1>10 DEF Arrive, Announce, PersistParked, ArmTimer, CloseAfterShutdown, KillLate, HandBack, AnnounceApproved,
       Watch, Collect, Deny, TimeOut, KillPending, TakePending
  <2> QED
    BY <1>t, <1>u, <2>1
<1>11. ASSUME \/ \E s \in Sessions : SessionStep(s)
              \/ Shutdown \/ Drain \/ AuditFails \/ UNCHANGED vars
       PROVE  ForegroundInv'
  <2>1. UNCHANGED <<registry, reservedForeground, reservedQuotaJobs, status, background>>
    BY <1>11 DEF SessionStep, ShellExits, BeginClose, FinishClose, CloseSession, Shutdown, Drain, AuditFails
  <2> QED
    BY <1>t, <1>u, <2>1
<1> QED
  BY <1>1, <1>2, <1>3, <1>4, <1>5, <1>6, <1>7, <1>8, <1>9, <1>10, <1>11
     DEF Next, JobStep, StartStep, ResolveStep, AtRest

\* Foreground commands, with those promised to starts and approvals in flight,
\* never exceed MaxForegroundJobs on either path to a shell (Start,
\* resolveConfirm).  The background pool has no such theorem: engine_background
\* shows why.
THEOREM ForegroundKept == Spec => []ForegroundPoolBounded
<1>1. ForegroundInv => ForegroundPoolBounded
  BY DEF ForegroundInv
<1>2. /\ SafetyInv /\ LedgerInv /\ (\A k \in Jobs : PoolInv(k)) /\ ForegroundInv /\ RegistryInv'
      /\ [Next]_vars
      => ForegroundInv'
  BY ForegroundNext DEF RegistryInv
<1>3. SafetyInv /\ (\A k \in Jobs : PoolInv(k)) /\ [Next]_vars => (\A k \in Jobs : PoolInv(k))'
  BY PoolNext
<1> QED
  BY SafetyInit, SafetyNext, RegistryInit, RegistryNext, LedgerInit, LedgerNext, PoolInit,
     ForegroundInit, <1>1, <1>2, <1>3, PTL DEF Spec

-----------------------------------------------------------------------------
(* What becomes of a command the engine accepted.                          *)

\* Nothing that AskHuman publishes can fail, so an approved command is never
\* declared failed under it (engine_terminal).
QuietAudit == Faults \cap {"append", "encode", "store"} = {}

\* No request waits for a human.
Ungated == \A r \in Requests : r.gate # "confirm"

-----------------------------------------------------------------------------
(* A command and the status of its job *)

\* The command is on the shell of an open session.
Live(j) == j \in onShell /\ SessOf(j) \notin dead

\* The shell is about to be given the line.
Given(j) == exec[j] = "writing" /\ SessOf(j) \notin dead /\ current[SessOf(j)] = j

\* No error path of AskHuman comes between the job and its command.
Spared(j) == req[j].gate = "allow" \/ QuietAudit

\* Where the call of an allowed command can be while the command runs.
LivePCs == {"execing", "closing", "registered", "returned", "handed"}

\* While its session is open a command on the shell has a job that is not over; what
\* a closed session still runs was taken from it when it was closed.
FateInv(j) ==
  /\ status[j] = "running" => exec[j] # "none"
  /\ exec[j] # "none" => req[j].gate \in {"allow", "confirm"}
  /\ exec[j] = "failed" => ~Live(j)
  /\ detached[j] # "none" => SessOf(j) \in dead
  /\ exec[j] = "writing" /\ req[j].gate = "allow" => pc[j] = "execing"
  /\ Live(j) /\ req[j].gate = "allow" => pc[j] \in LivePCs
  /\ (Given(j) \/ Live(j)) /\ Spared(j) => ~Terminal(status[j])

\* What a session calls current asked for that session.
SeatInv == \A s \in Sessions : current[s] # NoJob => SessOf(current[s]) = s

CalmInv == QuietAudit => auditHealthy

LEMMA CalmPublish ==
  ASSUME QuietAudit, auditHealthy, NEW j, NEW e, NEW ok \in BOOLEAN, Publish(j, e, ok)
  PROVE  ok /\ auditHealthy'
BY DEF QuietAudit, Publish, auditVars

LEMMA CalmNext ==
  ASSUME CalmInv, [Next]_vars
  PROVE  CalmInv'
<1> USE DEF vars, lifeVars, registryVars, shellVars, jobVars, auditVars
<1> SUFFICES ASSUME QuietAudit, auditHealthy PROVE auditHealthy'
  BY DEF CalmInv
<1>1. ASSUME NEW j \in Jobs, JobStep(j) PROVE auditHealthy'
  <2>1. CASE UNCHANGED auditHealthy
    BY <2>1
  <2>2. CASE \E e \in Events, ok \in BOOLEAN : Publish(j, e, ok)
    BY <2>2, CalmPublish
  <2>3. ASSUME StartStep(j) PROVE UNCHANGED auditHealthy \/ \E e \in Events, ok \in BOOLEAN : Publish(j, e, ok)
    BY <2>3 DEF StartStep, Admit, RecordIntent, ExecStart, Register, RegisterFailed, Announce, Park,
       PersistParked, AskHuman, ArmTimer, CloseAfterShutdown, KillLate, Events
  <2>4. ASSUME ResolveStep(j) \/ \E r \in Requests : Arrive(j, r)
        PROVE  UNCHANGED auditHealthy \/ \E e \in Events, ok \in BOOLEAN : Publish(j, e, ok)
    BY <2>4 DEF ResolveStep, RecordApproval, ExecApproved, AnnounceApproved, ReleaseApproval, Withdraw, Arrive, Events
  <2>5. ASSUME ShellStep(j) \/ HandBack(j) \/ Complete(j) \/ Watch(j) \/ Collect(j) \/ FinalizeDetached(j)
        PROVE  UNCHANGED auditHealthy \/ \E e \in Events, ok \in BOOLEAN : Publish(j, e, ok)
    BY <2>5 DEF ShellStep, SendLine, SendFails, WriteTimesOut, StartFailed, SendReturns, HandBack, Complete, Watch, Collect, FinalizeDetached, Events
  <2>6. ASSUME Approve(j) \/ Deny(j) \/ TimeOut(j) \/ KillPending(j) PROVE UNCHANGED auditHealthy
    BY <2>6 DEF Approve, Deny, TimeOut, KillPending
  <2> QED
    BY <1>1, <2>1, <2>2, <2>3, <2>4, <2>5, <2>6 DEF JobStep
<1>2. ASSUME NEW s \in Sessions, SessionStep(s) PROVE auditHealthy'
  BY <1>2 DEF SessionStep, ShellExits, BeginClose, FinishClose, CloseSession
<1>3. ASSUME Shutdown \/ Drain \/ UNCHANGED vars PROVE auditHealthy'
  BY <1>3 DEF Shutdown, Drain
<1>4. ~AuditFails
  BY DEF AuditFails, QuietAudit
<1> QED
  BY <1>1, <1>2, <1>3, <1>4 DEF Next, AtRest

\* A job that no step touches keeps its fate; its session may lose the shell.
LEMMA FateStays ==
  ASSUME NEW k, FateInv(k), req'[k] = req[k], status'[k] = status[k], exec'[k] = exec[k],
         detached'[k] = detached[k], k \in onShell' => k \in onShell, dead \subseteq dead',
         current'[SessOf(k)] = k => current[SessOf(k)] = k,
         \/ pc'[k] = pc[k]
         \/ req[k].gate # "allow"
         \/ exec[k] # "writing" /\ (Live(k)' => pc'[k] \in LivePCs)
  PROVE  FateInv(k)'
BY DEF FateInv, Given, Live, Spared, SessOf

\* A job whose command was never handed to startJob has no fate yet.
LEMMA FateUnmet ==
  ASSUME NEW k, exec'[k] = "none", detached'[k] = "none", k \notin onShell', status'[k] # "running"
  PROVE  FateInv(k)'
BY DEF FateInv, Given, Live

LEMMA FateInit == Init => (\A k \in Jobs : FateInv(k)) /\ SeatInv /\ CalmInv
BY DEF Init, FateInv, SeatInv, CalmInv, Given, Live

\* What a session calls current changes to the job it is given, or to none.
LEMMA SeatNext ==
  ASSUME SafetyInv, HandedInv, SeatInv, [Next]_vars
  PROVE  SeatInv'
<1>t. TypeOK /\ \A k \in Jobs : PathInv(k)
  BY DEF SafetyInv, JobInv
<1> USE DEF vars, lifeVars, registryVars, shellVars, jobVars, auditVars
<1>q. ASSUME UNCHANGED req, \A s \in Sessions : current'[s] \in {current[s], NoJob} PROVE SeatInv'
  BY <1>q DEF SeatInv, SessOf
<1>1. ASSUME NEW j \in Jobs, NEW r \in Requests, Arrive(j, r) PROVE SeatInv'
  <2>1. exec[j] = "none" /\ UNCHANGED current /\ req' = [req EXCEPT ![j] = r]
    BY <1>t, <1>1 DEF Arrive, PathInv
  <2>2. \A s \in Sessions : current[s] # NoJob => current[s] \in Jobs /\ current[s] # j
    BY <1>t, <2>1 DEF HandedInv, TypeOK
  <2>3. \A k \in Jobs : k # j => req'[k] = req[k]
    BY <1>t, <2>1 DEF TypeOK
  <2> QED
    BY <2>1, <2>2, <2>3 DEF SeatInv, SessOf
<1>2. ASSUME NEW j \in Jobs, ExecStart(j) \/ ExecApproved(j) PROVE SeatInv'
  <2>1. Attach(j) /\ UNCHANGED req
    BY <1>2 DEF ExecStart, ExecApproved
  <2>2. \A s \in Sessions : current'[s] = current[s] \/ (current'[s] = j /\ s = SessOf(j))
    BY <1>t, <2>1 DEF Attach, TypeOK
  <2> QED
    BY <2>1, <2>2 DEF SeatInv, SessOf
<1>3. ASSUME NEW j \in Jobs, ShellStep(j) \/ Complete(j) PROVE SeatInv'
  <2>1. UNCHANGED req /\ \A s \in Sessions : current'[s] \in {current[s], NoJob}
    BY <1>t, <1>3 DEF ShellStep, SendLine, SendFails, WriteTimesOut, StartFailed, SendReturns, Complete, TypeOK
  <2> QED
    BY <1>q, <2>1
<1>4. ASSUME NEW s, NEW st, Terminate(s, st), UNCHANGED req PROVE SeatInv'
  <2>1. \A q \in Sessions : current'[q] \in {current[q], NoJob}
    BY <1>t, <1>4 DEF Terminate, TypeOK
  <2> QED
    BY <1>q, <1>4, <2>1
<1>5. ASSUME NEW j \in Jobs, CloseAfterShutdown(j) \/ KillLate(j) PROVE SeatInv'
  <2>1. UNCHANGED req /\ (UNCHANGED current \/ Terminate(SessOf(j), "start"))
    BY <1>5 DEF CloseAfterShutdown, KillLate
  <2>2. CASE UNCHANGED current
    BY <1>q, <2>1, <2>2
  <2>3. CASE Terminate(SessOf(j), "start")
    BY <1>4, <2>1, <2>3
  <2> QED
    BY <2>1, <2>2, <2>3
<1>6. ASSUME NEW s \in Sessions, SessionStep(s) PROVE SeatInv'
  <2>1. UNCHANGED req /\ (UNCHANGED current \/ \E by \in {"closer", "reader"} : Terminate(s, by))
    BY <1>6 DEF SessionStep, ShellExits, BeginClose, FinishClose, CloseSession
  <2>2. CASE UNCHANGED current
    BY <1>q, <2>1, <2>2
  <2> QED
    BY <1>4, <2>1, <2>2
<1>7. ASSUME NEW j \in Jobs,
             \/ Admit(j) \/ RecordIntent(j) \/ Register(j) \/ RegisterFailed(j) \/ Announce(j)
             \/ Park(j) \/ PersistParked(j) \/ AskHuman(j) \/ ArmTimer(j) \/ HandBack(j)
             \/ RecordApproval(j) \/ AnnounceApproved(j) \/ ReleaseApproval(j) \/ Withdraw(j)
      PROVE  SeatInv'
  BY <1>7, <1>q DEF Admit, RecordIntent, Register, RegisterFailed, Announce, Park,
     PersistParked, AskHuman, ArmTimer, HandBack, RecordApproval, AnnounceApproved, ReleaseApproval, Withdraw
<1>8. ASSUME NEW j \in Jobs,
             \/ Approve(j) \/ Deny(j) \/ TimeOut(j) \/ KillPending(j) \/ Watch(j) \/ Collect(j)
             \/ FinalizeDetached(j)
      PROVE  SeatInv'
  BY <1>8, <1>q DEF Approve, Deny, TimeOut, KillPending, TakePending, Watch, Collect, FinalizeDetached
<1>9. ASSUME Shutdown \/ Drain \/ AuditFails \/ UNCHANGED vars PROVE SeatInv'
  BY <1>9, <1>q DEF Shutdown, Drain, AuditFails
<1> QED
  BY <1>1, <1>2, <1>3, <1>5, <1>6, <1>7, <1>8, <1>9 DEF Next, JobStep, StartStep, ResolveStep, AtRest

LEMMA FateNext ==
  ASSUME SafetyInv, HandedInv, SeatInv, CalmInv, \A k \in Jobs : FateInv(k), [Next]_vars
  PROVE  \A k \in Jobs : FateInv(k)'
<1>t. TypeOK /\ \A k \in Jobs : PathInv(k) /\ OneExecInv(k) /\ ShellInv(k)
  BY DEF SafetyInv, JobInv
<1> USE DEF vars, lifeVars, registryVars, shellVars, jobVars, auditVars
<1> DEFINE Goal == \A k \in Jobs : FateInv(k)'
           Lifeless(k) == exec[k] = "none" /\ detached[k] = "none" /\ k \notin onShell /\ status[k] # "running"
<1>n. \A k \in Jobs : exec[k] = "none" => Lifeless(k)
  BY <1>t DEF OneExecInv, HandedInv, FateInv
<1>f. ASSUME NEW j \in Jobs, NEW st \in TerminalStatuses
      PROVE  Finalized(j, st)[j] # "running" /\ \A k \in Jobs : k # j => Finalized(j, st)[k] = status[k]
  BY <1>t DEF Finalized, Terminal, TerminalStatuses, TypeOK
\* A step that only moves calls along, or kills a shell.
<1>q. ASSUME UNCHANGED <<req, status, exec, detached, dead, current>>, onShell' \subseteq onShell,
             \A k \in Jobs : \/ pc'[k] = pc[k]
                             \/ req[k].gate # "allow"
                             \/ exec[k] # "writing" /\ (Live(k)' => pc'[k] \in LivePCs)
      PROVE  Goal
  BY <1>q, FateStays
\* A step about a job that was never handed to startJob.
<1>l. ASSUME NEW j \in Jobs, Lifeless(j), UNCHANGED <<exec, detached, onShell, dead, current>>,
             status'[j] # "running",
             \A k \in Jobs : k # j => status'[k] = status[k] /\ req'[k] = req[k] /\ pc'[k] = pc[k]
      PROVE  Goal
  <2>1. FateInv(j)'
    BY <1>l, FateUnmet
  <2>2. ASSUME NEW k \in Jobs, k # j PROVE FateInv(k)'
    BY <1>l, <2>2, FateStays
  <2> QED
    BY <2>1, <2>2
<1>1. ASSUME NEW j \in Jobs, NEW r \in Requests, Arrive(j, r) PROVE Goal
  <2>1. Lifeless(j)
    BY <1>t, <1>n, <1>1 DEF Arrive, PathInv
  <2>2. \A k \in Jobs : k # j => req'[k] = req[k] /\ pc'[k] = pc[k]
    BY <1>t, <1>1 DEF Arrive, TypeOK
  <2>3. UNCHANGED <<exec, detached, onShell, dead, current, status>>
    BY <1>1 DEF Arrive
  <2> QED
    BY <1>l, <2>1, <2>2, <2>3
<1>2. ASSUME NEW j \in Jobs, Admit(j) \/ RecordIntent(j) PROVE Goal
  <2>1. Lifeless(j)
    BY <1>t, <1>n, <1>2 DEF Admit, RecordIntent, OneExecInv
  <2>2. \A k \in Jobs : k # j => pc'[k] = pc[k]
    BY <1>t, <1>2 DEF Admit, RecordIntent, TypeOK
  <2>3. UNCHANGED <<exec, detached, onShell, dead, current, status, req>>
    BY <1>2 DEF Admit, RecordIntent
  <2> QED
    BY <1>l, <2>1, <2>2, <2>3
<1>3. ASSUME NEW j \in Jobs, Attach(j), Lifeless(j), UNCHANGED <<req, dead, onShell, detached>>,
             req[j].gate \in {"allow", "confirm"}, req[j].gate = "allow" => pc'[j] = "execing",
             \A k \in Jobs : k # j => pc'[k] = pc[k]
      PROVE  Goal
  <2>1. /\ \A k \in Jobs : k # j => exec'[k] = exec[k] /\ status'[k] = status[k]
        /\ exec'[j] \in {"failed", "writing"}
        /\ exec'[j] = "failed" => status'[j] # "running"
        /\ exec'[j] = "writing" => status'[j] = "running"
        /\ \A s \in Sessions : current'[s] = current[s] \/ current'[s] = j
    BY <1>t, <1>3 DEF Attach, Finalized, Terminal, TerminalStatuses, TypeOK
  <2>2. FateInv(j)'
    BY <1>3, <2>1 DEF FateInv, Given, Live, Spared, Terminal, TerminalStatuses
  <2>3. ASSUME NEW k \in Jobs, k # j PROVE FateInv(k)'
    <3>1. CASE SessOf(k) \in Sessions
      BY <1>3, <2>1, <2>3, <3>1, FateStays
    <3>2. CASE SessOf(k) \notin Sessions
      <4>1. pc[k] = "idle"
        BY <1>t, <3>2, EngineConstants DEF PathInv, SessOf
      <4>2. Lifeless(k)
        BY <1>t, <1>n, <4>1 DEF PathInv
      <4> QED
        BY <1>3, <2>1, <2>3, <4>2, FateUnmet
    <3> QED
      BY <3>1, <3>2
  <2> QED
    BY <2>2, <2>3
<1>4. ASSUME NEW j \in Jobs, ExecStart(j) \/ ExecApproved(j) PROVE Goal
  <2>1. Lifeless(j)
    BY <1>t, <1>n, <1>4 DEF ExecStart, ExecApproved, OneExecInv
  <2>2. /\ req[j].gate \in {"allow", "confirm"}
        /\ req[j].gate = "allow" => pc'[j] = "execing"
        /\ \A k \in Jobs : k # j => pc'[k] = pc[k]
    BY <1>t, <1>4 DEF ExecStart, ExecApproved, PathInv, AdmissionPCs, TypeOK
  <2>3. Attach(j) /\ UNCHANGED <<req, dead, onShell, detached>>
    BY <1>4 DEF ExecStart, ExecApproved
  <2> QED
    BY <1>3, <2>1, <2>2, <2>3
<1>5. ASSUME NEW j \in Jobs, SendLine(j) PROVE Goal
  <2>1. /\ exec[j] = "writing" /\ exec'[j] = "sent" /\ onShell' = onShell \cup {j}
        /\ UNCHANGED <<req, status, pc, dead, current, detached>>
        /\ \A k \in Jobs : k # j => exec'[k] = exec[k]
    BY <1>t, <1>5 DEF SendLine, TypeOK
  <2>2. Live(j)' => Given(j)
    BY <1>t, <2>1 DEF Live, Given, ShellInv, InFlight, SessOf
  <2>3. FateInv(j)'
    BY <2>1, <2>2 DEF FateInv, Given, Live, Spared, LivePCs, SessOf
  <2>4. ASSUME NEW k \in Jobs, k # j PROVE FateInv(k)'
    BY <2>1, <2>4, FateStays
  <2> QED
    BY <2>3, <2>4
<1>6. ASSUME NEW j \in Jobs, SendFails(j) \/ WriteTimesOut(j) PROVE Goal
  <2>1. /\ exec[j] \in {"writing", "sent"} /\ StartFailed(j) /\ UNCHANGED <<req, pc, dead, detached>>
        /\ onShell' \subseteq onShell
    BY <1>6 DEF SendFails, WriteTimesOut, CloseTransport
  <2>2. ~Live(j)'
    BY <1>t, <1>6, <2>1 DEF SendFails, WriteTimesOut, CloseTransport, OneExecInv, Live, SessOf
  <2>3. /\ exec'[j] = "failed" /\ \A k \in Jobs : k # j => exec'[k] = exec[k]
        /\ status'[j] # "running" /\ \A k \in Jobs : k # j => status'[k] = status[k]
        /\ \A k \in Jobs, s \in Sessions : current'[s] = k => current[s] = k
    BY <1>t, <2>1, StartFailedEffect, NoJobIsNoJob DEF TypeOK
  <2>4. FateInv(j)'
    BY <2>1, <2>2, <2>3 DEF FateInv, Given, Spared, SessOf
  <2>5. ASSUME NEW k \in Jobs, k # j PROVE FateInv(k)'
    <3>1. current'[SessOf(k)] = k => current[SessOf(k)] = k
      BY <1>t, <2>1, <2>5, NoJobIsNoJob DEF StartFailed
    <3> QED
      BY <2>1, <2>3, <2>5, <3>1, FateStays
  <2> QED
    BY <2>4, <2>5
<1>7. ASSUME NEW j \in Jobs, SendReturns(j) PROVE Goal
  <2>1. /\ exec[j] = "sent" /\ exec'[j] = "ok" /\ UNCHANGED <<req, status, pc, dead, current, onShell, detached>>
        /\ \A k \in Jobs : k # j => exec'[k] = exec[k]
    BY <1>t, <1>7 DEF SendReturns, TypeOK
  <2>2. FateInv(j)'
    BY <2>1 DEF FateInv, Given, Live, Spared, SessOf
  <2>3. ASSUME NEW k \in Jobs, k # j PROVE FateInv(k)'
    BY <2>1, <2>3, FateStays
  <2> QED
    BY <2>2, <2>3
<1>8. ASSUME NEW j \in Jobs, Register(j) \/ RegisterFailed(j) \/ Announce(j) \/ HandBack(j) PROVE Goal
  <2>1. UNCHANGED <<req, status, exec, detached, onShell, dead, current>>
    BY <1>8 DEF Register, RegisterFailed, Announce, HandBack
  <2>2. \A k \in Jobs : k # j => pc'[k] = pc[k]
    BY <1>t, <1>8 DEF Register, RegisterFailed, Announce, HandBack, TypeOK
  <2>3. Live(j)' => Live(j)
    BY <2>1 DEF Live, SessOf
  <2>4. req[j].gate = "allow" => exec[j] # "writing" /\ (Live(j)' => pc'[j] \in LivePCs)
    BY <1>t, <1>8, <2>3 DEF Register, RegisterFailed, Announce, HandBack, FateInv, LivePCs, TypeOK
  <2> QED
    BY <1>q, <2>1, <2>2, <2>4
<1>9. ASSUME NEW j \in Jobs, PersistParked(j) \/ ArmTimer(j) PROVE Goal
  <2>1. req[j].gate = "confirm" /\ UNCHANGED <<req, status, exec, detached, onShell, dead, current>>
    BY <1>t, <1>9 DEF PersistParked, ArmTimer, PathInv, ConfirmPCs
  <2>2. \A k \in Jobs : k # j => pc'[k] = pc[k]
    BY <1>t, <1>9 DEF PersistParked, ArmTimer, TypeOK
  <2> QED
    BY <1>q, <2>1, <2>2
<1>10. ASSUME NEW j \in Jobs, Park(j) PROVE Goal
  <2>1. Lifeless(j)
    BY <1>t, <1>n, <1>10 DEF Park, PathInv, OneExecInv, ConfirmPCs
  <2>2. status'[j] # "running" /\ \A k \in Jobs : k # j => status'[k] = status[k] /\ pc'[k] = pc[k]
    BY <1>t, <1>10, <2>1 DEF Park, TypeOK
  <2>3. UNCHANGED <<exec, detached, onShell, dead, current, req>>
    BY <1>10 DEF Park
  <2> QED
    BY <1>l, <2>1, <2>2, <2>3
<1>11. ASSUME NEW j \in Jobs, AskHuman(j) PROVE Goal
  <2>1. /\ req[j].gate = "confirm" /\ UNCHANGED <<req, exec, detached, onShell, dead, current>>
        /\ \A k \in Jobs : k # j => pc'[k] = pc[k]
    BY <1>t, <1>11, ZenonT(60) DEF AskHuman, PathInv, ConfirmPCs, TypeOK
  <2>2. CASE UNCHANGED status
    BY <1>q, <2>1, <2>2
  <2>3. CASE Publish(j, "confirm_requested", FALSE) /\ status' = Finalized(j, "failed")
    <3>1. status'[j] # "running" /\ \A k \in Jobs : k # j => status'[k] = status[k]
      BY <1>f, <2>3 DEF TerminalStatuses
    <3>2. ~QuietAudit
      BY <2>3, CalmPublish DEF CalmInv
    <3>3. FateInv(j)'
      BY <2>1, <3>1, <3>2 DEF FateInv, Given, Live, Spared, SessOf
    <3>4. ASSUME NEW k \in Jobs, k # j PROVE FateInv(k)'
      BY <2>1, <3>1, <3>4, FateStays
    <3> QED
      BY <3>3, <3>4
  <2> QED
    BY <1>11, <2>2, <2>3 DEF AskHuman
<1>12. ASSUME NEW j \in Jobs, RecordApproval(j) \/ Withdraw(j) PROVE Goal
  <2>1. Lifeless(j)
    BY <1>t, <1>n, <1>12 DEF RecordApproval, Withdraw, OneExecInv
  <2>2. status' = status \/ \E st \in TerminalStatuses : status' = Finalized(j, st)
    BY <1>12 DEF RecordApproval, Withdraw, TerminalStatuses
  <2>3. status'[j] # "running" /\ \A k \in Jobs : k # j => status'[k] = status[k]
    BY <1>f, <2>1, <2>2
  <2>4. UNCHANGED <<exec, detached, onShell, dead, current, req, pc>>
    BY <1>12 DEF RecordApproval, Withdraw
  <2> QED
    BY <1>l, <2>1, <2>3, <2>4
<1>13. ASSUME NEW j \in Jobs,
              \/ AnnounceApproved(j) \/ ReleaseApproval(j) \/ Approve(j) \/ Deny(j) \/ TimeOut(j)
              \/ KillPending(j) \/ Watch(j) \/ Collect(j)
       PROVE  Goal
  BY <1>13, <1>q DEF AnnounceApproved, ReleaseApproval, Approve, Deny, TimeOut, KillPending, TakePending,
     Watch, Collect
<1>14. ASSUME NEW j \in Jobs, Complete(j) PROVE Goal
  <2>1. /\ j \in onShell /\ onShell' = onShell \ {j} /\ status' = Finalized(j, "exited")
        /\ UNCHANGED <<req, pc, exec, dead, detached>>
        /\ current' = [current EXCEPT ![SessOf(j)] = NoJob]
    BY <1>14 DEF Complete
  <2>2. exec[j] \notin {"none", "writing"}
    BY <1>t, <2>1 DEF OneExecInv
  <2>3. status'[j] # "running" /\ \A k \in Jobs : k # j => status'[k] = status[k]
    BY <1>f, <2>1 DEF TerminalStatuses
  <2>4. FateInv(j)'
    BY <2>1, <2>2, <2>3 DEF FateInv, Given, Live, Spared, SessOf
  <2>5. ASSUME NEW k \in Jobs, k # j PROVE FateInv(k)'
    <3>1. current'[SessOf(k)] = k => current[SessOf(k)] = k
      BY <1>t, <2>1, NoJobIsNoJob DEF TypeOK
    <3> QED
      BY <2>1, <2>3, <2>5, <3>1, FateStays
  <2> QED
    BY <2>4, <2>5
<1>15. ASSUME NEW j \in Jobs, FinalizeDetached(j) PROVE Goal
  <2>0. PICK st \in TerminalStatuses : status' = Finalized(j, st)
    BY <1>15 DEF FinalizeDetached, TerminalStatuses
  <2>1. /\ detached[j] # "none"
        /\ UNCHANGED <<req, pc, exec, dead, current, onShell>>
        /\ \A k \in Jobs : k # j => detached'[k] = detached[k]
        /\ detached'[j] = "none"
    BY <1>t, <1>15 DEF FinalizeDetached, TypeOK
  <2>2. status'[j] # "running" /\ \A k \in Jobs : k # j => status'[k] = status[k]
    BY <1>f, <2>0
  <2>3. FateInv(j)'
    BY <2>1, <2>2 DEF FateInv, Given, Live, Spared, SessOf
  <2>4. ASSUME NEW k \in Jobs, k # j PROVE FateInv(k)'
    BY <2>1, <2>2, <2>4, FateStays
  <2> QED
    BY <2>3, <2>4
<1>16. ASSUME NEW s \in Sessions, NEW by, Terminate(s, by), onShell' \subseteq onShell,
              UNCHANGED <<req, status, exec>>,
              \A k \in Jobs : pc'[k] = pc[k] \/ (exec[k] # "writing" /\ ~Live(k)')
       PROVE  Goal
  <2>1. /\ dead' = dead \cup {s} /\ current' = [current EXCEPT ![s] = NoJob]
        /\ detached' = IF current[s] = NoJob THEN detached ELSE [detached EXCEPT ![current[s]] = by]
    BY <1>16 DEF Terminate
  <2>2. ASSUME NEW k \in Jobs PROVE FateInv(k)'
    <3>1. current'[SessOf(k)] = k => current[SessOf(k)] = k
      BY <1>t, <2>1, NoJobIsNoJob DEF TypeOK
    <3>2. CASE detached'[k] = detached[k]
      BY <1>16, <2>1, <3>1, <3>2, FateStays
    <3>3. CASE detached'[k] # detached[k]
      <4>1. current[s] = k
        BY <1>t, <2>1, <3>3 DEF TypeOK
      <4>2. SessOf(k) = s /\ exec[k] # "none"
        BY <4>1, NoJobIsNoJob DEF SeatInv, HandedInv
      <4>3. SessOf(k) \in dead' /\ UNCHANGED SessOf(k)
        BY <1>16, <2>1, <4>2 DEF SessOf
      <4> QED
        BY <1>16, <4>2, <4>3 DEF FateInv, Given, Live, Spared
    <3> QED
      BY <3>2, <3>3
  <2> QED
    BY <2>2
<1>17. ASSUME NEW j \in Jobs, CloseAfterShutdown(j) \/ KillLate(j) PROVE Goal
  <2>1. /\ pc[j] \in {"closing", "killing"} /\ UNCHANGED <<req, status, exec>>
        /\ onShell' \subseteq onShell /\ \A k \in Jobs : k # j => pc'[k] = pc[k]
    BY <1>t, <1>17 DEF CloseAfterShutdown, KillLate, CloseTransport, TypeOK
  <2>2. SessOf(j) \in Sessions /\ exec[j] # "writing"
    BY <1>t, <2>1, EngineConstants DEF PathInv, AdmissionPCs, FateInv, SessOf
  <2>3. CASE Terminate(SessOf(j), "start")
    <3>1. ~Live(j)'
      BY <2>1, <2>3 DEF Terminate, Live, SessOf
    <3> QED
      BY <1>16, <2>1, <2>2, <2>3, <3>1
  <2>4. CASE CloseTransport(SessOf(j)) /\ UNCHANGED <<dead, current, detached>>
    <3>1. ~Live(j)'
      BY <2>1, <2>4 DEF CloseTransport, Live, SessOf
    <3> QED
      BY <1>q, <2>1, <2>2, <2>4, <3>1
  <2> QED
    BY <1>17, <2>3, <2>4 DEF CloseAfterShutdown, KillLate
<1>18. ASSUME NEW s \in Sessions, SessionStep(s) PROVE Goal
  <2>1. UNCHANGED <<req, status, exec, pc>> /\ onShell' \subseteq onShell
    BY <1>18 DEF SessionStep, ShellExits, CloseSession, BeginClose, FinishClose, CloseTransport
  <2>2. UNCHANGED <<dead, current, detached>> \/ \E by \in {"closer", "reader"} : Terminate(s, by)
    BY <1>18 DEF SessionStep, ShellExits, CloseSession, BeginClose, FinishClose
  <2> QED
    BY <1>16, <1>q, <2>1, <2>2
<1>19. ASSUME Shutdown \/ Drain \/ AuditFails \/ UNCHANGED vars PROVE Goal
  BY <1>19, <1>q DEF Shutdown, Drain, AuditFails
<1> QED
  BY <1>1, <1>2, <1>4, <1>5, <1>6, <1>7, <1>8, <1>9, <1>10, <1>11, <1>12, <1>13, <1>14, <1>15,
     <1>17, <1>18, <1>19
     DEF Next, JobStep, StartStep, ShellStep, ResolveStep, AtRest

\* What the theorems about commands share.
FatesInv == SafetyInv /\ HandedInv /\ SeatInv /\ CalmInv /\ \A k \in Jobs : FateInv(k)

LEMMA FatesKept == Spec => []FatesInv
<1>1. SafetyInv /\ HandedInv /\ [Next]_vars => HandedInv'
  BY HandedNext DEF SafetyInv, JobInv
<1>2. Init => FatesInv
  BY SafetyInit, OfferInit, FateInit DEF FatesInv
<1>3. FatesInv /\ [Next]_vars => FatesInv'
  BY SafetyNext, <1>1, SeatNext, CalmNext, FateNext DEF FatesInv
<1> QED
  BY <1>2, <1>3, PTL DEF Spec

\* A command on a shell nobody is closing was handed there by a call or an
\* approval, and its session is open.
LEMMA RunningGate ==
  ASSUME FatesInv, NEW j \in Running
  PROVE  /\ j \in Jobs /\ FateInv(j) /\ Live(j)
         /\ pc[j] # "idle" /\ req[j] \in Requests /\ req[j].gate \in {"allow", "confirm"}
<1>1. j \in Jobs /\ j \in onShell /\ ~Dying(SessOf(j))
  BY DEF FatesInv, SafetyInv, TypeOK, Running
<1>2. PathInv(j) /\ OneExecInv(j) /\ ShellInv(j) /\ FateInv(j)
  BY <1>1 DEF FatesInv, SafetyInv, JobInv
<1>3. Live(j)
  BY <1>1, <1>2 DEF FatesInv, SafetyInv, DeadInv, ShellInv, Live
<1> QED
  BY <1>1, <1>2, <1>3 DEF PathInv, OneExecInv, ShellInv, InFlight, FateInv

\* A job with a terminal status never has its command on a shell that lives on:
\* whatever closes, exits, times out, fails to start or is withdrawn meanwhile,
\* provided no gated command can lose the record of its question.  A shell that may
\* still run it has been closed, and is being killed (startJob, terminate, consume).
THEOREM TerminalIsOver ==
  ASSUME Ungated \/ QuietAudit
  PROVE  Spec => []TerminalNeverRuns
<1>1. FatesInv => TerminalNeverRuns
  BY RunningGate DEF TerminalNeverRuns, FateInv, Spared, Ungated
<1> QED
  BY FatesKept, <1>1, PTL

\* An allowed command whose call was answered with an error is on no shell that
\* lives on: no error path of Start leaves it behind, the late close after Shutdown
\* and a write that a close overtakes included.
THEOREM RefusalStands ==
  ASSUME Ungated
  PROVE  Spec => []RefusedNeverRuns
<1>1. FatesInv => RefusedNeverRuns
  BY RunningGate DEF RefusedNeverRuns, FateInv, Ungated, LivePCs
<1> QED
  BY FatesKept, <1>1, PTL

-----------------------------------------------------------------------------
(* A running command stays listed *)

\* Neither AskHuman nor a failed registry write takes the job from its command.
Steady(j) == req[j].gate = "allow" \/ (QuietAudit /\ "registry" \notin Faults)

ListInv(j) ==
  Steady(j) =>
    /\ resolver[j] \in {"approved", "authorised"} => j \in registry /\ ~Terminal(status[j])
    /\ (Given(j) \/ Live(j)) /\ watch[j] # "none" => j \in registry

\* A step keeps a job listed that cannot lose its place while it lives.
LEMMA ListStays ==
  ASSUME NEW k, ListInv(k), FateInv(k), req'[k] = req[k],
         Steady(k) /\ k \in registry /\ ~Terminal(status[k]) => k \in registry',
         resolver'[k] \in {"approved", "authorised"} =>
           resolver[k] \in {"approved", "authorised"} /\ status'[k] = status[k],
         Given(k)' \/ Live(k)' => Given(k) \/ Live(k),
         watch'[k] = "none" \/ watch[k] # "none" \/ (k \in registry' /\ resolver'[k] \notin {"approved", "authorised"})
  PROVE  ListInv(k)'
BY DEF ListInv, FateInv, Spared, Steady, SessOf

LEMMA ListInit == Init => \A k \in Jobs : ListInv(k)
BY DEF Init, ListInv, Given, Live

\* Making room evicts only what has ended.
LEMMA RoomySpares ==
  ASSUME NEW r \in RoomyRegistries, NEW k \in registry, ~Terminal(status[k])
  PROVE  k \in r
BY DEF RoomyRegistries

\* A shell that is given nothing new is given what it was.
LEMMA GivenStays ==
  ASSUME NEW k \in Jobs, PathInv(k), req'[k] = req[k], exec'[k] = exec[k], dead \subseteq dead',
         \A s \in Sessions : current'[s] = k => current[s] = k
  PROVE  Given(k)' => Given(k)
<1>1. exec[k] = "writing" => SessOf(k) \in Sessions
  BY EngineConstants DEF PathInv, SessOf
<1> QED
  BY <1>1 DEF Given, SessOf

\* A command on no new shell lives only where it did.
LEMMA LiveStays ==
  ASSUME NEW k, req'[k] = req[k], onShell' \subseteq onShell, dead \subseteq dead'
  PROVE  Live(k)' => Live(k)
BY DEF Live, SessOf

LEMMA ListNext ==
  ASSUME FatesInv, OfferInv, \A k \in Jobs : WatchInv(k) /\ ListInv(k), [Next]_vars
  PROVE  \A k \in Jobs : ListInv(k)'
<1>t. /\ TypeOK /\ HandedInv
      /\ \A k \in Jobs : PathInv(k) /\ OneExecInv(k) /\ ShellInv(k) /\ FateInv(k)
  BY DEF FatesInv, SafetyInv, JobInv
<1> USE DEF vars, lifeVars, registryVars, shellVars, jobVars, auditVars
<1> DEFINE Goal == \A k \in Jobs : ListInv(k)'
           Chosen == {"approved", "authorised"}
           Fresh(k) == exec'[k] = "none" /\ k \notin onShell' /\ resolver'[k] \notin Chosen
\* What was given to the shell was handed to startJob, by nobody who is deciding.
<1>n. \A k \in Jobs : resolver[k] \in Chosen \/ Given(k)=TRUE => k \notin onShell
  BY <1>t DEF OneExecInv, Given
<1>c. \A k \in Jobs : resolver[k] \in Chosen => exec[k] = "none" /\ req[k].gate = "confirm" /\ k \notin pending
  BY <1>t DEF PathInv, OneExecInv
<1>f. ASSUME NEW j \in Jobs, NEW st \in TerminalStatuses
      PROVE  \A k \in Jobs : k # j => Finalized(j, st)[k] = status[k]
  BY <1>t DEF Finalized, TypeOK
<1>z. ASSUME NEW k \in Jobs, Fresh(k) PROVE ListInv(k)'
  BY <1>z DEF ListInv, Given, Live
\* A step that hands nothing to a shell and decides nothing.
<1>q. ASSUME UNCHANGED <<req, exec>>,
             \A k \in Jobs : /\ Steady(k) /\ k \in registry /\ ~Terminal(status[k]) => k \in registry'
                             /\ resolver'[k] \in Chosen => resolver[k] \in Chosen /\ status'[k] = status[k]
                             /\ watch'[k] = "none" \/ watch[k] # "none" \/ (k \in registry' /\ resolver'[k] \notin Chosen),
             \A k \in Jobs, s \in Sessions : current'[s] = k => current[s] = k,
             onShell' \subseteq onShell, dead \subseteq dead'
      PROVE  Goal
  <2> SUFFICES ASSUME NEW k \in Jobs PROVE ListInv(k)'
    OBVIOUS
  <2>1. Given(k)' \/ Live(k)' => Given(k) \/ Live(k)
    BY <1>t, <1>q, GivenStays, LiveStays
  <2> QED
    BY <1>t, <1>q, <2>1, ListStays
<1>1. ASSUME NEW j \in Jobs, NEW r \in Requests, Arrive(j, r) PROVE Goal
  <2>1. /\ exec[j] = "none" /\ resolver[j] = "none" /\ j \notin onShell
        /\ UNCHANGED <<exec, resolver, onShell, registry, status, watch, current, dead>>
    BY <1>t, <1>1 DEF Arrive, PathInv, OneExecInv
  <2>2. \A k \in Jobs : k # j => req'[k] = req[k]
    BY <1>t, <1>1 DEF Arrive, TypeOK
  <2>3. ListInv(j)'
    BY <1>z, <2>1
  <2>4. ASSUME NEW k \in Jobs, k # j PROVE ListInv(k)'
    BY <1>t, <2>1, <2>2, <2>4, GivenStays, LiveStays, ListStays
  <2> QED
    BY <2>3, <2>4
<1>2. ASSUME NEW j \in Jobs, Admit(j) \/ RegisterFailed(j) PROVE Goal
  <2>1. UNCHANGED <<req, exec, resolver, status, watch, current, onShell, dead>>
    BY <1>2 DEF Admit, RegisterFailed
  <2>2. \A k \in Jobs : k \in registry /\ ~Terminal(status[k]) => k \in registry'
    BY <1>2, RoomySpares DEF Admit, RegisterFailed
  <2> QED
    BY <1>q, <2>1, <2>2
<1>3. ASSUME NEW j \in Jobs, RecordIntent(j) \/ Announce(j) \/ ArmTimer(j) \/ HandBack(j) PROVE Goal
  <2>1. UNCHANGED <<req, exec, resolver, status, current, onShell, dead, registry>>
    BY <1>3 DEF RecordIntent, Announce, ArmTimer, HandBack
  <2>2. \A k \in Jobs : watch'[k] = watch[k] \/ watch[k] # "none"
    BY <1>t, <1>3 DEF RecordIntent, Announce, ArmTimer, HandBack, WatchInv, TypeOK
  <2> QED
    BY <1>q, <2>1, <2>2
<1>4. ASSUME NEW j \in Jobs, ExecStart(j) PROVE Goal
  <2>1. /\ Attach(j) /\ UNCHANGED <<req, resolver, onShell, registry, watch, dead>> /\ exec[j] = "none"
        /\ resolver[j] = "none" /\ watch[j] = "none"
    BY <1>t, <1>4 DEF ExecStart, WatchInv, PathInv, AdmissionPCs, OneExecInv
  <2>2. \A k \in Jobs : k # j => exec'[k] = exec[k] /\ status'[k] = status[k]
    BY <1>t, <2>1 DEF Attach, Finalized, TypeOK
  <2>3. ListInv(j)'
    BY <1>t, <2>1 DEF ListInv, OneExecInv
  <2>4. ASSUME NEW k \in Jobs, k # j PROVE ListInv(k)'
    <3>1. \A s \in Sessions : current'[s] = k => current[s] = k
      BY <1>t, <2>1, <2>4 DEF Attach, TypeOK
    <3> QED
      BY <1>t, <2>1, <2>2, <2>4, <3>1, GivenStays, LiveStays, ListStays
  <2> QED
    BY <2>3, <2>4
<1>5. ASSUME NEW j \in Jobs, ExecApproved(j) PROVE Goal
  <2>1. /\ Attach(j) /\ UNCHANGED <<req, onShell, registry, watch, dead>> /\ exec[j] = "none"
        /\ resolver[j] = "authorised" /\ resolver'[j] = "execing"
        /\ \A k \in Jobs : k # j => resolver'[k] = resolver[k]
    BY <1>t, <1>5 DEF ExecApproved, OneExecInv, TypeOK
  <2>2. \A k \in Jobs : k # j => exec'[k] = exec[k] /\ status'[k] = status[k]
    BY <1>t, <2>1 DEF Attach, Finalized, TypeOK
  <2>3. ListInv(j)'
    BY <2>1 DEF ListInv, Steady
  <2>4. ASSUME NEW k \in Jobs, k # j PROVE ListInv(k)'
    <3>1. \A s \in Sessions : current'[s] = k => current[s] = k
      BY <1>t, <2>1, <2>4 DEF Attach, TypeOK
    <3> QED
      BY <1>t, <2>1, <2>2, <2>4, <3>1, GivenStays, LiveStays, ListStays
  <2> QED
    BY <2>3, <2>4
<1>6. ASSUME NEW j \in Jobs, ShellStep(j) PROVE Goal
  <2>1. exec[j] # "none" /\ resolver[j] \notin Chosen /\ UNCHANGED <<req, resolver, registry, watch, dead>>
    BY <1>c, <1>6 DEF ShellStep, SendLine, SendFails, WriteTimesOut, SendReturns
  <2>2. \A k \in Jobs : k # j => exec'[k] = exec[k] /\ status'[k] = status[k]
    BY <1>t, <1>6 DEF ShellStep, SendLine, SendFails, WriteTimesOut, StartFailed, SendReturns, Finalized, TypeOK
  <2>3. \A k \in Jobs, s \in Sessions : current'[s] = k => current[s] = k
    BY <1>t, <1>6, NoJobIsNoJob DEF ShellStep, SendLine, SendFails, WriteTimesOut, StartFailed, SendReturns, TypeOK
  <2>4. exec'[j] \in {"sent", "failed", "ok"} /\ onShell' \subseteq onShell \cup {j}
    BY <1>t, <1>6 DEF ShellStep, SendLine, SendFails, WriteTimesOut, StartFailed, CloseTransport, SendReturns, TypeOK
  <2>5. ASSUME NEW k \in Jobs PROVE Given(k)' \/ Live(k)' => Given(k) \/ Live(k)
    <3>1. CASE k = j /\ SendLine(j)
      BY <1>t, <2>4, <3>1 DEF SendLine, Given, Live, ShellInv, InFlight, SessOf
    <3>2. CASE k = j /\ ~SendLine(j)
      <4>1. onShell' \subseteq onShell
        BY <1>6, <3>2 DEF ShellStep, SendFails, WriteTimesOut, CloseTransport, SendReturns
      <4> QED
        BY <2>1, <2>4, <3>2, <4>1, LiveStays DEF Given
    <3>3. CASE k # j
      <4>1. Given(k)' => Given(k)
        BY <1>t, <2>1, <2>2, <2>3, <3>3, GivenStays
      <4>2. Live(k)' => Live(k)
        BY <2>1, <2>4, <3>3 DEF Live, SessOf
      <4> QED
        BY <4>1, <4>2
    <3> QED
      BY <3>1, <3>2, <3>3
  <2>6. \A k \in Jobs : resolver'[k] \in Chosen => status'[k] = status[k]
    BY <2>1, <2>2
  <2> QED
    BY <1>t, <2>1, <2>5, <2>6, ListStays
<1>7. ASSUME NEW j \in Jobs, Register(j) PROVE Goal
  <2>1. UNCHANGED <<req, exec, resolver, status, current, onShell, dead>> /\ registry \subseteq registry'
    BY <1>7 DEF Register
  <2>2. \A k \in Jobs : watch'[k] = watch[k] \/ (k = j /\ k \in registry' /\ resolver[k] \notin Chosen)
    BY <1>t, <1>7 DEF Register, PathInv, AdmissionPCs, TypeOK
  <2> QED
    BY <1>q, <2>1, <2>2
<1>8. ASSUME NEW j \in Jobs, Park(j) PROVE Goal
  <2>1. resolver[j] = "none" /\ UNCHANGED <<req, exec, resolver, watch, current, onShell, dead>>
    BY <1>t, <1>8 DEF Park, PathInv
  <2>2. \A k \in Jobs : k # j => status'[k] = status[k]
    BY <1>t, <1>8 DEF Park, TypeOK
  <2>3. \A k \in Jobs : k \in registry /\ ~Terminal(status[k]) => k \in registry'
    BY <1>8, RoomySpares DEF Park
  <2> QED
    BY <1>q, <2>1, <2>2, <2>3
<1>9. ASSUME NEW j \in Jobs, PersistParked(j) PROVE Goal
  <2>1. UNCHANGED <<req, exec, resolver, status, watch, current, onShell, dead>> /\ req[j].gate = "confirm"
    BY <1>t, <1>9 DEF PersistParked, PathInv, ConfirmPCs
  <2>2. \A k \in Jobs : Steady(k) /\ k \in registry => k \in registry'
    BY <1>9, <2>1 DEF PersistParked, Steady
  <2> QED
    BY <1>q, <2>1, <2>2
<1>10. ASSUME NEW j \in Jobs, AskHuman(j) PROVE Goal
  <2>1. /\ UNCHANGED <<req, exec, resolver, registry, watch, onShell, dead, current>> /\ req[j].gate = "confirm"
    BY <1>t, <1>10 DEF AskHuman, PathInv, ConfirmPCs
  <2>2. CASE UNCHANGED status
    BY <1>q, <2>1, <2>2
  <2>3. CASE Publish(j, "confirm_requested", FALSE) /\ status' = Finalized(j, "failed")
    <3>1. \A k \in Jobs : k # j => status'[k] = status[k]
      BY <1>f, <2>3 DEF TerminalStatuses
    <3>2. ~QuietAudit
      BY <2>3, CalmPublish DEF FatesInv, CalmInv
    <3>3. ListInv(j)'
      BY <2>1, <3>2 DEF ListInv, Steady
    <3>4. ASSUME NEW k \in Jobs, k # j PROVE ListInv(k)'
      BY <1>t, <2>1, <3>1, <3>4, GivenStays, LiveStays, ListStays
    <3> QED
      BY <3>3, <3>4
  <2> QED
    BY <1>10, <2>2, <2>3 DEF AskHuman
<1>11. ASSUME NEW j \in Jobs, RecordApproval(j) PROVE Goal
  <2>1. /\ UNCHANGED <<req, exec, registry, watch, onShell, dead, current>> /\ resolver[j] = "approved"
        /\ \A k \in Jobs : k # j => resolver'[k] = resolver[k]
    BY <1>t, <1>11 DEF RecordApproval, TypeOK
  <2>2. \A k \in Jobs : k # j => status'[k] = status[k]
    <3>1. status' = status \/ status' = Finalized(j, "failed")
      BY <1>11 DEF RecordApproval
    <3> QED
      BY <1>f, <3>1 DEF TerminalStatuses
  <2>3. resolver'[j] \in Chosen => status'[j] = status[j]
    BY <1>t, <1>11 DEF RecordApproval, TypeOK
  <2> QED
    BY <1>q, <2>1, <2>2, <2>3
<1>12. ASSUME NEW j \in Jobs, Withdraw(j) \/ ReleaseApproval(j) \/ AnnounceApproved(j) PROVE Goal
  <2>1. /\ UNCHANGED <<req, exec, registry, onShell, dead, current>> /\ resolver'[j] \notin Chosen
        /\ \A k \in Jobs : k # j => resolver'[k] = resolver[k]
    BY <1>t, <1>12 DEF Withdraw, ReleaseApproval, AnnounceApproved, TypeOK
  <2>2. \A k \in Jobs : k # j => status'[k] = status[k]
    BY <1>f, <1>12 DEF Withdraw, ReleaseApproval, AnnounceApproved, TerminalStatuses
  <2>3. \A k \in Jobs : watch'[k] = watch[k] \/ watch[k] # "none"
    BY <1>t, <1>12 DEF Withdraw, ReleaseApproval, AnnounceApproved, WatchInv, TypeOK
  <2> QED
    BY <1>q, <2>1, <2>2, <2>3
<1>13. ASSUME NEW j \in Jobs, Approve(j) PROVE Goal
  <2>1. /\ j \in pending /\ UNCHANGED <<req, exec, registry, status, onShell, dead, current>>
        /\ \A k \in Jobs : k # j => resolver'[k] = resolver[k] /\ watch'[k] = watch[k]
    BY <1>t, <1>13 DEF Approve, TakePending, TypeOK
  <2>2. /\ j \in registry /\ status[j] = "awaiting_confirmation" /\ exec[j] = "none" /\ j \notin onShell
    BY <1>t, <2>1 DEF OfferInv, PathInv, OneExecInv
  <2>3. ListInv(j)'
    BY <2>1, <2>2 DEF ListInv, Given, Live, Terminal, TerminalStatuses
  <2>4. ASSUME NEW k \in Jobs, k # j PROVE ListInv(k)'
    BY <1>t, <2>1, <2>4, GivenStays, LiveStays, ListStays
  <2> QED
    BY <2>3, <2>4
<1>14. ASSUME NEW j \in Jobs, Deny(j) \/ TimeOut(j) \/ KillPending(j) \/ Watch(j) PROVE Goal
  <2>1. /\ UNCHANGED <<req, exec, registry, status, onShell, dead, current>>
        /\ \A k \in Jobs : resolver'[k] \in Chosen => resolver[k] \in Chosen
        /\ \A k \in Jobs : watch'[k] = watch[k] \/ watch[k] # "none"
    BY <1>t, <1>14 DEF Deny, TimeOut, KillPending, TakePending, Watch, TypeOK
  <2> QED
    BY <1>q, <2>1
<1>15. ASSUME NEW j \in Jobs, Complete(j) \/ FinalizeDetached(j) PROVE Goal
  <2>1. exec[j] # "none" /\ resolver[j] \notin Chosen
    BY <1>t, <1>c, <1>15 DEF Complete, FinalizeDetached, OneExecInv, HandedInv
  <2>2. UNCHANGED <<req, exec, resolver, registry, watch, dead>> /\ onShell' \subseteq onShell
    BY <1>15 DEF Complete, FinalizeDetached
  <2>3. \A k \in Jobs : k # j => status'[k] = status[k]
    BY <1>t, <1>15 DEF Complete, FinalizeDetached, Finalized, TypeOK
  <2>4. \A k \in Jobs, s \in Sessions : current'[s] = k => current[s] = k
    BY <1>t, <1>15, NoJobIsNoJob DEF Complete, FinalizeDetached, TypeOK
  <2> QED
    BY <1>q, <2>1, <2>2, <2>3, <2>4
<1>16. ASSUME NEW j \in Jobs, Collect(j) PROVE Goal
  BY <1>16, <1>q DEF Collect
<1>17. ASSUME NEW s, NEW by, Terminate(s, by), onShell' \subseteq onShell,
              UNCHANGED <<req, status, exec, resolver, registry, watch>>
       PROVE  Goal
  <2>1. dead \subseteq dead'
    BY <1>17 DEF Terminate
  <2>2. \A k \in Jobs, q \in Sessions : current'[q] = k => current[q] = k
    BY <1>t, <1>17, NoJobIsNoJob DEF Terminate, TypeOK
  <2> QED
    BY <1>17, <1>q, <2>1, <2>2
<1>18. ASSUME NEW j \in Jobs, CloseAfterShutdown(j) \/ KillLate(j) PROVE Goal
  <2>1. UNCHANGED <<req, status, exec, resolver, registry, watch>> /\ onShell' \subseteq onShell
    BY <1>18 DEF CloseAfterShutdown, KillLate, CloseTransport
  <2>2. UNCHANGED <<dead, current>> \/ Terminate(SessOf(j), "start")
    BY <1>18 DEF CloseAfterShutdown, KillLate
  <2>3. CASE UNCHANGED <<dead, current>>
    BY <1>q, <2>1, <2>3
  <2> QED
    BY <1>17, <2>1, <2>2, <2>3
<1>19. ASSUME NEW s \in Sessions, ShellExits(s) \/ BeginClose(s) \/ FinishClose(s) PROVE Goal
  <2>1. UNCHANGED <<req, status, exec, resolver, registry, watch>> /\ onShell' \subseteq onShell
    BY <1>19 DEF ShellExits, BeginClose, FinishClose, CloseTransport
  <2>2. UNCHANGED <<dead, current>> \/ \E by \in {"closer", "reader"} : Terminate(s, by)
    BY <1>19 DEF ShellExits, BeginClose, FinishClose
  <2>3. CASE UNCHANGED <<dead, current>>
    BY <1>q, <2>1, <2>3
  <2> QED
    BY <1>17, <2>1, <2>2, <2>3
<1>20. ASSUME Shutdown \/ \E s \in Sessions : CloseSession(s) PROVE Goal
  <2>1. UNCHANGED <<req, exec, registry, status, onShell, dead, current, watch>>
    BY <1>20 DEF Shutdown, CloseSession
  <2>2. \A k \in Jobs : resolver'[k] \in Chosen => resolver[k] \in Chosen
    BY <1>20 DEF Shutdown, CloseSession
  <2> QED
    BY <1>q, <2>1, <2>2
<1>21. ASSUME Drain \/ AuditFails \/ UNCHANGED vars PROVE Goal
  BY <1>21, <1>q DEF Drain, AuditFails
<1> QED
  BY <1>1, <1>2, <1>3, <1>4, <1>5, <1>6, <1>7, <1>8, <1>9, <1>10, <1>11, <1>12, <1>13, <1>14, <1>15,
     <1>16, <1>18, <1>19, <1>20, <1>21
     DEF Next, JobStep, StartStep, ResolveStep, SessionStep, AtRest

\* A command that went through admission and runs on a shell nobody is closing is
\* listed under its id: no eviction, collection or failed start takes it from the
\* registry, provided no gated one can lose its question or its write (register,
\* registerPending, makeJobRoomLocked, GCOnce, terminate).
THEOREM ListingKept ==
  ASSUME Ungated \/ (QuietAudit /\ "registry" \notin Faults)
  PROVE  Spec => []RunningIsListed
<1> DEFINE I == (\A k \in Jobs : WatchInv(k) /\ ListInv(k)) /\ OfferInv
<1>1. Init => I
  BY OfferInit, WatchInit, ListInit
<1>2. FatesInv /\ I /\ [Next]_vars => I'
  <2> SUFFICES ASSUME FatesInv, I, [Next]_vars PROVE I'
    OBVIOUS
  <2>1. OfferInv'
    BY OfferNext DEF FatesInv
  <2>2. \A k \in Jobs : WatchInv(k)'
    BY WatchNext DEF FatesInv
  <2>3. \A k \in Jobs : ListInv(k)'
    BY ListNext
  <2> QED
    BY <2>1, <2>2, <2>3
<1>3. FatesInv /\ I => RunningIsListed
  <2> SUFFICES ASSUME FatesInv, I, NEW j \in Running, watch[j] # "none" PROVE j \in registry
    BY DEF RunningIsListed
  <2>1. j \in Jobs /\ Live(j) /\ req[j] \in Requests /\ req[j].gate \in {"allow", "confirm"}
    BY RunningGate
  <2>2. Steady(j)
    BY <2>1 DEF Steady, Ungated
  <2> QED
    BY <2>1, <2>2 DEF ListInv
<1> HIDE DEF I
<1> QED
  BY FatesKept, <1>1, <1>2, <1>3, PTL DEF Spec

-----------------------------------------------------------------------------
(* What a drain leaves *)

\* A closed manager has given up its sessions and offers, and a drained one has
\* no watcher at work; the shell of a session it gave up is dead or about to be.
DownInv ==
  /\ closed => sessions = {} /\ pending = {}
  /\ drained => /\ closed
                /\ \A s \in Sessions : closing[s] # "Shutdown"
                /\ \A k \in Jobs : watch[k] \in {"none", "done"}
  /\ \A s \in Sessions : s \in sessions \/ closing[s] # "none" \/ s \in reaped

LEMMA DownInit == Init => DownInv
BY DEF Init, DownInv

LEMMA DownNext ==
  ASSUME SafetyInv, \A k \in Jobs : WatchInv(k), DownInv, [Next]_vars
  PROVE  DownInv'
<1>t. TypeOK /\ \A k \in Jobs : PathInv(k)
  BY DEF SafetyInv, JobInv
<1> USE DEF vars, lifeVars, registryVars, shellVars, jobVars, auditVars
\* A step that wakes no watcher of a drained manager.
<1>q. ASSUME UNCHANGED lifeVars, closed => pending' \subseteq pending, reaped \subseteq reaped',
             drained => \A k \in Jobs : watch'[k] = watch[k] \/ watch'[k] = "done"
      PROVE  DownInv'
  BY <1>q DEF DownInv
<1>1. ASSUME NEW j \in Jobs, StartStep(j), ~CloseAfterShutdown(j), ~KillLate(j) PROVE DownInv'
  <2>1. UNCHANGED lifeVars /\ reaped' = reaped
    BY <1>1 DEF StartStep, Admit, RecordIntent, ExecStart, Register, RegisterFailed, Announce, Park,
       PersistParked, AskHuman, ArmTimer
  <2>2. closed => pending' \subseteq pending
    BY <1>1 DEF StartStep, Admit, RecordIntent, ExecStart, Register, RegisterFailed, Announce, Park,
       PersistParked, AskHuman, ArmTimer
  <2>3. drained => UNCHANGED watch
    <3>1. CASE Register(j)
      BY <3>1 DEF Register, DownInv
    <3>2. CASE Announce(j)
      <4>1. watch[j] = "held"
        BY <3>2 DEF Announce, WatchInv
      <4> QED
        BY <4>1 DEF DownInv
    <3> QED
      BY <1>1, <3>1, <3>2 DEF StartStep, Admit, RecordIntent, ExecStart, RegisterFailed, Park,
         PersistParked, AskHuman, ArmTimer
  <2> QED
    BY <1>q, <2>1, <2>2, <2>3
<1>2. ASSUME NEW j \in Jobs, ResolveStep(j) \/ Approve(j) PROVE DownInv'
  <2>1. UNCHANGED <<lifeVars, reaped>> /\ pending' \subseteq pending
    BY <1>2 DEF ResolveStep, RecordApproval, ExecApproved, AnnounceApproved, ReleaseApproval, Withdraw,
       Approve, TakePending
  <2>2. drained => UNCHANGED watch
    <3>1. CASE Approve(j)
      BY <3>1 DEF Approve, TakePending, DownInv
    <3>2. CASE AnnounceApproved(j) \/ ReleaseApproval(j)
      <4>1. watch' = watch \/ watch[j] = "held"
        BY <3>2 DEF AnnounceApproved, ReleaseApproval, WatchInv
      <4> QED
        BY <4>1 DEF DownInv
    <3> QED
      BY <1>2, <3>1, <3>2 DEF ResolveStep, RecordApproval, ExecApproved, Withdraw
  <2> QED
    BY <1>q, <2>1, <2>2
<1>3. ASSUME NEW j \in Jobs,
             \/ \E r \in Requests : Arrive(j, r)
             \/ ShellStep(j) \/ HandBack(j) \/ Deny(j) \/ TimeOut(j) \/ KillPending(j)
             \/ Complete(j) \/ Collect(j) \/ FinalizeDetached(j)
      PROVE  DownInv'
  BY <1>3, <1>q DEF Arrive, ShellStep, SendLine, SendFails, WriteTimesOut, CloseTransport, SendReturns, HandBack, Deny, TimeOut,
     KillPending, TakePending, Complete, Collect, FinalizeDetached
<1>4. ASSUME NEW j \in Jobs, Watch(j) PROVE DownInv'
  <2>1. \A k \in Jobs : watch'[k] = watch[k] \/ watch'[k] = "done"
    BY <1>t, <1>4 DEF Watch, TypeOK
  <2> QED
    BY <1>4, <1>q, <2>1 DEF Watch
<1>5. ASSUME NEW j \in Jobs, CloseAfterShutdown(j) \/ KillLate(j) PROVE DownInv'
  BY <1>5, <1>q DEF CloseAfterShutdown, KillLate, CloseTransport
<1>6. ASSUME NEW s \in Sessions, ShellExits(s) \/ BeginClose(s) PROVE DownInv'
  BY <1>6, <1>q DEF ShellExits, BeginClose, CloseTransport
<1>7. ASSUME NEW s \in Sessions, FinishClose(s) PROVE DownInv'
  <2>1. /\ UNCHANGED <<closed, drained, sessions, pending, watch>> /\ reaped' = reaped \cup {s}
        /\ closing' = [closing EXCEPT ![s] = "none"]
    BY <1>7 DEF FinishClose, CloseTransport
  <2>2. \A q \in Sessions : closing'[q] = IF q = s THEN "none" ELSE closing[q]
    BY <1>t, <2>1 DEF TypeOK
  <2> QED
    BY <2>1, <2>2 DEF DownInv
<1>8. ASSUME NEW s \in Sessions, CloseSession(s) PROVE DownInv'
  <2>1. /\ UNCHANGED <<closed, drained, watch, reaped>> /\ s \in sessions
        /\ sessions' = sessions \ {s} /\ pending' \subseteq pending
        /\ closing' = [closing EXCEPT ![s] = "CloseSession"]
    BY <1>8 DEF CloseSession
  <2>2. \A q \in Sessions : closing'[q] = IF q = s THEN "CloseSession" ELSE closing[q]
    BY <1>t, <2>1 DEF TypeOK
  <2> QED
    BY <2>1, <2>2 DEF DownInv
<1>9. ASSUME Shutdown PROVE DownInv'
  BY <1>9 DEF Shutdown, DownInv
<1>10. ASSUME Drain PROVE DownInv'
  BY <1>10 DEF Drain, DownInv, WatchersDone
<1>11. ASSUME AuditFails \/ UNCHANGED vars PROVE DownInv'
  BY <1>11, <1>q DEF AuditFails
<1> QED
  BY <1>1, <1>2, <1>3, <1>4, <1>5, <1>6, <1>7, <1>8, <1>9, <1>10, <1>11
     DEF Next, JobStep, StartStep, SessionStep, AtRest

\* A watcher is let go no later than its job is announced, and what it has done
\* is on record as long as the log takes records.
ReportInv(j) ==
  /\ "started" \in trail[j] => watch[j] \in {"ready", "done"}
  /\ watch[j] = "done" /\ auditHealthy => "finished" \in trail[j]

LEMMA ReportInit == Init => \A k \in Jobs : ReportInv(k)
BY DEF Init, ReportInv

\* Publishing takes nothing from the trail, and an unhealthy log stays so.
LEMMA PublishGrows ==
  ASSUME NEW j \in Jobs, NEW e \in Events, NEW ok \in BOOLEAN, TypeOK, Publish(j, e, ok)
  PROVE  /\ \A k \in Jobs : trail[k] \subseteq trail'[k]
         /\ \A k \in Jobs : "started" \in trail'[k] => "started" \in trail[k] \/ (k = j /\ e = "started")
         /\ auditHealthy' => auditHealthy
<1>1. \A k \in Jobs : trail'[k] = trail[k] \/ (k = j /\ trail'[k] = trail[k] \cup {e})
  BY PublishEffect
<1>2. auditHealthy' => auditHealthy
  BY DEF Publish, auditVars
<1> QED
  BY <1>1, <1>2

LEMMA ReportNext ==
  ASSUME SafetyInv, DownInv, \A k \in Jobs : WatchInv(k) /\ ReportInv(k), [Next]_vars
  PROVE  \A k \in Jobs : ReportInv(k)'
<1>t. TypeOK /\ \A k \in Jobs : PathInv(k)
  BY DEF SafetyInv, JobInv
<1> USE DEF vars, lifeVars, registryVars, shellVars, jobVars, auditVars
<1> DEFINE Grown(j) == /\ \A k \in Jobs : trail[k] \subseteq trail'[k]
                       /\ \A k \in Jobs : "started" \in trail'[k] => "started" \in trail[k] \/ k = j
                       /\ auditHealthy' => auditHealthy
           Silent == /\ \A k \in Jobs : trail[k] \subseteq trail'[k]
                     /\ \A k \in Jobs : "started" \in trail'[k] => "started" \in trail[k]
                     /\ auditHealthy' => auditHealthy
<1>q. ASSUME Silent,
             \A k \in Jobs : /\ watch[k] \in {"ready", "done"} => watch'[k] \in {"ready", "done"}
                             /\ watch'[k] = "done" => watch[k] = "done"
      PROVE  \A k \in Jobs : ReportInv(k)'
  BY <1>q DEF ReportInv
<1>p. ASSUME NEW j \in Jobs, NEW e \in Events \ {"started"}, NEW ok \in BOOLEAN, Publish(j, e, ok)
      PROVE  Silent
  BY <1>t, <1>p, PublishGrows
<1>1. ASSUME NEW j \in Jobs, Announce(j) \/ AnnounceApproved(j) PROVE \A k \in Jobs : ReportInv(k)'
  <2>1. watch[j] = "held"
    BY <1>1 DEF Announce, AnnounceApproved, WatchInv
  <2>2. CASE watch' = [watch EXCEPT ![j] = "ready"] /\ \E ok \in BOOLEAN : Publish(j, "started", ok)
    <3>1. Grown(j)
      BY <1>t, <2>2, PublishGrows DEF Events
    <3>2. watch'[j] = "ready" /\ \A k \in Jobs : k # j => watch'[k] = watch[k]
      BY <1>t, <2>2 DEF TypeOK
    <3> QED
      BY <2>1, <3>1, <3>2 DEF ReportInv
  <2>3. CASE UNCHANGED <<auditVars, watch>>
    BY <2>3, <1>q
  <2> QED
    BY <1>1, <2>2, <2>3 DEF Announce, AnnounceApproved
<1>2. ASSUME NEW j \in Jobs, Watch(j) PROVE \A k \in Jobs : ReportInv(k)'
  <2>1. PICK ok \in BOOLEAN : Publish(j, "finished", ok)
    BY <1>2 DEF Watch
  <2>2. Silent
    BY <1>p, <2>1 DEF Events
  <2>3. watch[j] = "ready" /\ watch'[j] = "done" /\ \A k \in Jobs : k # j => watch'[k] = watch[k]
    BY <1>t, <1>2 DEF Watch, TypeOK
  <2>4. ~drained
    BY <2>3 DEF DownInv
  <2>5. auditHealthy' => "finished" \in trail'[j]
    BY <1>t, <2>1, <2>4, ZenonT(60) DEF Publish, CommandEvents, TypeOK
  <2> QED
    BY <2>2, <2>3, <2>5 DEF ReportInv
<1>3. ASSUME NEW j \in Jobs, \/ RecordIntent(j) \/ AskHuman(j) \/ RecordApproval(j) \/ Withdraw(j)
                             \/ \E r \in Requests : Arrive(j, r)
      PROVE  \A k \in Jobs : ReportInv(k)'
  <2>1. UNCHANGED auditVars \/ \E e \in Events \ {"started"}, ok \in BOOLEAN : Publish(j, e, ok)
    BY <1>3 DEF RecordIntent, AskHuman, RecordApproval, Withdraw, Arrive, Events
  <2>2. UNCHANGED watch
    BY <1>3 DEF RecordIntent, AskHuman, RecordApproval, Withdraw, Arrive
  <2>3. Silent
    BY <1>p, <2>1
  <2> QED
    BY <1>q, <2>2, <2>3
<1>4. ASSUME NEW j \in Jobs, Register(j) \/ Approve(j) \/ ReleaseApproval(j) PROVE \A k \in Jobs : ReportInv(k)'
  <2>1. watch[j] \in {"none", "held"} \/ watch' = watch
    BY <1>4 DEF Register, Approve, TakePending, ReleaseApproval, WatchInv
  <2>2. \A k \in Jobs : watch'[k] = watch[k] \/ (k = j /\ watch'[k] \in {"held", "ready"})
    BY <1>t, <1>4 DEF Register, Approve, ReleaseApproval, TypeOK
  <2>3. Silent
    BY <1>4 DEF Register, Approve, ReleaseApproval
  <2> QED
    BY <1>q, <2>1, <2>2, <2>3
<1>5. ASSUME NEW j \in Jobs,
             \/ Admit(j) \/ ExecStart(j) \/ RegisterFailed(j) \/ Park(j) \/ PersistParked(j) \/ ArmTimer(j)
             \/ CloseAfterShutdown(j) \/ KillLate(j) \/ ShellStep(j) \/ ExecApproved(j)
      PROVE  \A k \in Jobs : ReportInv(k)'
  BY <1>5, <1>q DEF Admit, ExecStart, RegisterFailed, Park, PersistParked, ArmTimer, CloseAfterShutdown, KillLate,
     ShellStep, SendLine, SendFails, WriteTimesOut, StartFailed, SendReturns, ExecApproved
<1>6. ASSUME NEW j \in Jobs,
             \/ HandBack(j) \/ Deny(j) \/ TimeOut(j) \/ KillPending(j)
             \/ Complete(j) \/ Collect(j) \/ FinalizeDetached(j)
      PROVE  \A k \in Jobs : ReportInv(k)'
  BY <1>6, <1>q DEF HandBack, Deny, TimeOut, KillPending, TakePending, Complete, Collect, FinalizeDetached
<1>7. ASSUME NEW s \in Sessions, SessionStep(s) PROVE \A k \in Jobs : ReportInv(k)'
  BY <1>7, <1>q DEF SessionStep, ShellExits, BeginClose, FinishClose, CloseSession
<1>8. ASSUME Shutdown \/ Drain \/ AuditFails \/ UNCHANGED vars PROVE \A k \in Jobs : ReportInv(k)'
  BY <1>8, <1>q DEF Shutdown, Drain, AuditFails
<1> QED
  BY <1>1, <1>2, <1>3, <1>4, <1>5, <1>6, <1>7, <1>8
     DEF Next, JobStep, StartStep, ResolveStep, AtRest

\* The invariant of the drain.
DrainInv == DownInv /\ \A k \in Jobs : WatchInv(k) /\ ReportInv(k)

LEMMA DrainKept == Spec => [](SafetyInv /\ DrainInv)
<1>1. Init => DrainInv
  BY WatchInit, DownInit, ReportInit DEF DrainInv
<1>2. SafetyInv /\ DrainInv /\ [Next]_vars => DrainInv'
  BY WatchNext, DownNext, ReportNext DEF DrainInv
<1> QED
  BY SafetyInit, SafetyNext, <1>1, <1>2, PTL DEF Spec

\* Once Shutdown has returned nothing runs on a shell it took over: only a
\* CloseSession that was already on its way may still have one to close.
THEOREM DrainSilences == Spec => []DrainLeavesNoCommand
<1>1. SafetyInv /\ DrainInv => DrainLeavesNoCommand
  <2> SUFFICES ASSUME SafetyInv, DrainInv, drained, NEW j \in onShell PROVE closing[SessOf(j)] = "CloseSession"
    BY DEF DrainLeavesNoCommand
  <2>1. TypeOK /\ j \in Jobs /\ PathInv(j) /\ ShellInv(j)
    BY DEF SafetyInv, JobInv, TypeOK
  <2>2. SessOf(j) \in Sessions /\ SessOf(j) \notin reaped
    BY <2>1, EngineConstants DEF PathInv, ShellInv, InFlight, SessOf
  <2> QED
    BY <2>1, <2>2 DEF DrainInv, DownInv, TypeOK
<1> QED
  BY DrainKept, <1>1, PTL

\* The sink outlives every watcher: with a log that never failed, a drained
\* manager has the end of each announced command on record (watchWG.Wait).
THEOREM DrainRecordsEnds == Spec => []DrainLosesNoFinish
<1>1. SafetyInv /\ DrainInv => DrainLosesNoFinish
  BY DEF DrainInv, DownInv, ReportInv, DrainLosesNoFinish
<1> QED
  BY DrainKept, <1>1, PTL

-----------------------------------------------------------------------------
(* The background pool *)

\* No command that waited for a human is handed back by Run (engine_background
\* shows what happens to one that is).
NoGatedRun == \A r \in Requests : r.gate = "confirm" => r.call # "run"

EarlyPCs == {"idle", "admitting", "reserved", "intent", "execing", "parking"}

\* A job is reclassified by its own start, or by Run once its call is over.
BackInv(j) ==
  j \in background =>
    /\ pc[j] \notin EarlyPCs
    /\ req[j].mode = "background" \/ req[j].call = "run"

LEMMA BackInit == Init => \A k \in Jobs : BackInv(k)
BY DEF Init, BackInv

LEMMA BackNext ==
  ASSUME SafetyInv, \A k \in Jobs : BackInv(k), [Next]_vars
  PROVE  \A k \in Jobs : BackInv(k)'
<1>t. TypeOK /\ \A k \in Jobs : PathInv(k)
  BY DEF SafetyInv, JobInv
<1> USE DEF vars, lifeVars, registryVars, shellVars, jobVars, auditVars
<1>q. ASSUME UNCHANGED <<background, req>>, \A k \in Jobs : pc[k] \notin EarlyPCs => pc'[k] \notin EarlyPCs
      PROVE  \A k \in Jobs : BackInv(k)'
  BY <1>q DEF BackInv
<1>1. ASSUME NEW j \in Jobs, NEW r \in Requests, Arrive(j, r) PROVE \A k \in Jobs : BackInv(k)'
  <2>1. /\ j \notin background /\ UNCHANGED background
        /\ \A k \in Jobs : k # j => req'[k] = req[k] /\ pc'[k] = pc[k]
    BY <1>t, <1>1 DEF Arrive, BackInv, EarlyPCs, TypeOK
  <2> QED
    BY <2>1 DEF BackInv
<1>2. ASSUME NEW j \in Jobs, \/ Admit(j) \/ RecordIntent(j) \/ ExecStart(j) \/ RegisterFailed(j) \/ Announce(j)
                             \/ CloseAfterShutdown(j) \/ KillLate(j) \/ Park(j) \/ PersistParked(j) \/ AskHuman(j) \/ ArmTimer(j)
      PROVE  \A k \in Jobs : BackInv(k)'
  <2>1. UNCHANGED <<background, req>>
    BY <1>2 DEF Admit, RecordIntent, ExecStart, RegisterFailed, Announce, CloseAfterShutdown, KillLate, Park,
       PersistParked, AskHuman, ArmTimer
  <2>2. \E p \in StartPCs : pc' = [pc EXCEPT ![j] = p] /\ (pc[j] \in EarlyPCs \/ p \notin EarlyPCs)
    BY <1>2 DEF Admit, RecordIntent, ExecStart, RegisterFailed, Announce, CloseAfterShutdown, KillLate, Park,
       PersistParked, AskHuman, ArmTimer, EarlyPCs, StartPCs
  <2> QED
    BY <1>q, <1>t, <2>1, <2>2 DEF TypeOK
<1>3. ASSUME NEW j \in Jobs, Register(j) \/ HandBack(j) PROVE \A k \in Jobs : BackInv(k)'
  <2>1. /\ UNCHANGED req /\ \A k \in Jobs : k # j => pc'[k] = pc[k]
        /\ pc'[j] \in {"closing", "registered", "failed", "handed"}
    BY <1>t, <1>3 DEF Register, HandBack, TypeOK
  <2>2. \/ background' = background
        \/ background' = background \cup {j} /\ (req[j].mode = "background" \/ req[j].call = "run")
    BY <1>3 DEF Register, HandBack
  <2> QED
    BY <2>1, <2>2 DEF BackInv, EarlyPCs
<1>4. ASSUME NEW j \in Jobs, AnnounceApproved(j) PROVE \A k \in Jobs : BackInv(k)'
  <2>1. UNCHANGED <<req, pc>> /\ resolver[j] = "execing"
    BY <1>4 DEF AnnounceApproved
  <2>2. background' = background \/ (background' = background \cup {j} /\ req[j].mode = "background")
    BY <1>4 DEF AnnounceApproved
  <2>3. pc[j] \notin EarlyPCs
    BY <1>t, <2>1 DEF PathInv, AdmissionPCs, EarlyPCs
  <2> QED
    BY <2>1, <2>2, <2>3 DEF BackInv
<1>5. ASSUME NEW j \in Jobs,
             \/ RecordApproval(j) \/ ExecApproved(j) \/ ReleaseApproval(j) \/ Withdraw(j) \/ ShellStep(j)
             \/ Approve(j) \/ Deny(j) \/ TimeOut(j) \/ KillPending(j)
             \/ Complete(j) \/ Watch(j) \/ Collect(j) \/ FinalizeDetached(j)
      PROVE  \A k \in Jobs : BackInv(k)'
  BY <1>5, <1>q DEF RecordApproval, ExecApproved, ReleaseApproval, Withdraw, ShellStep, SendLine, SendFails,
     WriteTimesOut, SendReturns, Approve, Deny, TimeOut, KillPending, TakePending, Complete, Watch, Collect, FinalizeDetached
<1>6. ASSUME \/ \E s \in Sessions : SessionStep(s)
             \/ Shutdown \/ Drain \/ AuditFails \/ UNCHANGED vars
      PROVE  \A k \in Jobs : BackInv(k)'
  BY <1>6, <1>q DEF SessionStep, ShellExits, BeginClose, FinishClose, CloseSession, Shutdown, Drain, AuditFails
<1> QED
  BY <1>1, <1>2, <1>3, <1>4, <1>5, <1>6 DEF Next, JobStep, StartStep, ResolveStep, AtRest

\* The pool with finitely many jobs listed.
BackgroundInv == IsFiniteSet(registry) /\ BackgroundPoolBounded

\* The commands that activeBackground counts.
CountedBack == {j \in registry \ reservedQuotaJobs : status[j] = "running" /\ j \in background}

LEMMA CountedBackIsActive ==
  ActiveBackground = Cardinality(CountedBack) /\ ActiveBackground' = Cardinality(CountedBack')
<1>1. \A j, S : ((j \in S) = TRUE) <=> j \in S
  OBVIOUS
<1>2. ActiveIn(TRUE) = CountedBack
  BY <1>1, Zenon DEF ActiveIn, CountedBack
<1>3. ActiveIn(TRUE)' = CountedBack'
  BY <1>1, Zenon DEF ActiveIn, CountedBack
<1> QED
  BY <1>2, <1>3 DEF ActiveBackground

\* What a step may count and promise and stay within the quota.
LEMMA BackShrinks ==
  ASSUME TypeOK, BackgroundInv, MaxBackgroundJobs > 0, IsFiniteSet(registry'),
         CountedBack' \subseteq CountedBack,
         reservedBackground' \in Int, reservedBackground' <= reservedBackground
  PROVE  BackgroundInv'
<1>1. IsFiniteSet(CountedBack)
  BY FS_Subset DEF CountedBack, BackgroundInv
<1>2. IsFiniteSet(CountedBack') /\ Cardinality(CountedBack') <= Cardinality(CountedBack)
  BY <1>1, FS_Subset
<1>3. Cardinality(CountedBack) \in Nat /\ Cardinality(CountedBack') \in Nat
  BY <1>1, <1>2, FS_CardinalityType
<1> QED
  BY <1>2, <1>3, CountedBackIsActive, EngineConstants DEF BackgroundInv, BackgroundPoolBounded, TypeOK

\* One more command counts: its promise is taken back, or there was room.
LEMMA BackJoins ==
  ASSUME TypeOK, BackgroundInv, MaxBackgroundJobs > 0, IsFiniteSet(registry'), NEW j,
         CountedBack' \subseteq CountedBack \cup {j},
         \/ reservedBackground' = reservedBackground - 1
         \/ reservedBackground' = reservedBackground /\ ~BackgroundFull
  PROVE  BackgroundInv'
<1>1. IsFiniteSet(CountedBack)
  BY FS_Subset DEF CountedBack, BackgroundInv
<1>2. /\ IsFiniteSet(CountedBack \cup {j})
      /\ Cardinality(CountedBack \cup {j}) \in {Cardinality(CountedBack), Cardinality(CountedBack) + 1}
  BY <1>1, FS_AddElement
<1>3. IsFiniteSet(CountedBack') /\ Cardinality(CountedBack') <= Cardinality(CountedBack \cup {j})
  BY <1>2, FS_Subset
<1>4. Cardinality(CountedBack) \in Nat /\ Cardinality(CountedBack') \in Nat
  BY <1>1, <1>3, FS_CardinalityType
<1>5. CASE reservedBackground' = reservedBackground - 1
  BY <1>2, <1>3, <1>4, <1>5, CountedBackIsActive, EngineConstants DEF BackgroundInv, BackgroundPoolBounded, TypeOK
<1>6. CASE reservedBackground' = reservedBackground /\ ~BackgroundFull
  BY <1>2, <1>3, <1>4, <1>6, CountedBackIsActive, EngineConstants
     DEF BackgroundInv, BackgroundPoolBounded, BackgroundFull, TypeOK
<1> QED
  BY <1>5, <1>6

LEMMA BackTakes ==
  ASSUME TypeOK, BackgroundInv, MaxBackgroundJobs > 0, IsFiniteSet(registry'), ~BackgroundFull,
         CountedBack' \subseteq CountedBack, reservedBackground' = reservedBackground + 1
  PROVE  BackgroundInv'
<1>1. IsFiniteSet(CountedBack)
  BY FS_Subset DEF CountedBack, BackgroundInv
<1>2. IsFiniteSet(CountedBack') /\ Cardinality(CountedBack') <= Cardinality(CountedBack)
  BY <1>1, FS_Subset
<1>3. Cardinality(CountedBack) \in Nat /\ Cardinality(CountedBack') \in Nat
  BY <1>1, <1>2, FS_CardinalityType
<1> QED
  BY <1>2, <1>3, CountedBackIsActive, EngineConstants DEF BackgroundInv, BackgroundPoolBounded, BackgroundFull, TypeOK

LEMMA BackgroundInit == Init => BackgroundInv
<1> SUFFICES ASSUME Init PROVE BackgroundInv
  OBVIOUS
<1>1. registry = {} /\ reservedBackground = 0 /\ CountedBack = {}
  BY DEF Init, CountedBack
<1> QED
  BY <1>1, FS_EmptySet, CountedBackIsActive, EngineConstants DEF BackgroundInv, BackgroundPoolBounded

LEMMA BackgroundNext ==
  ASSUME NoGatedRun, SafetyInv, LedgerInv, \A k \in Jobs : PoolInv(k) /\ BackInv(k), BackgroundInv,
         IsFiniteSet(registry'), [Next]_vars
  PROVE  BackgroundInv'
<1>t. /\ TypeOK /\ reservedBackground \in Int /\ registry \subseteq Jobs
      /\ \A k \in Jobs : PathInv(k) /\ OneExecInv(k)
      /\ reservedQuotaJobs = Approving
  BY DEF SafetyInv, JobInv, TypeOK, LedgerInv, ReservationsExact
<1> SUFFICES ASSUME MaxBackgroundJobs > 0 PROVE BackgroundInv'
  BY DEF BackgroundInv, BackgroundPoolBounded
<1> USE DEF vars, lifeVars, registryVars, reserveVars, shellVars, jobVars, auditVars
\* A step that lists nothing, starts nothing, moves nothing and promises nothing.
<1>u. ASSUME UNCHANGED <<reservedBackground, background>>,
             \A k \in Jobs : /\ k \in registry' /\ status'[k] = "running" => k \in registry /\ status[k] = "running"
                             /\ k \in reservedQuotaJobs => k \in reservedQuotaJobs',
             registry' \subseteq Jobs
      PROVE  BackgroundInv'
  <2>1. CountedBack' \subseteq CountedBack
    BY <1>u DEF CountedBack
  <2> QED
    BY <1>t, <1>u, <2>1, BackShrinks
<1>f. ASSUME NEW j \in Jobs, NEW st \in TerminalStatuses, NEW k \in Jobs, Finalized(j, st)[k] = "running"
      PROVE  status[k] = "running"
  BY <1>t, <1>f DEF Finalized, Terminal, TerminalStatuses, TypeOK
<1>r. \A r \in RoomyRegistries : r \subseteq registry
  BY RoomyEffect
<1>1. ASSUME NEW j \in Jobs, Admit(j) PROVE BackgroundInv'
  <2>1. registry' \subseteq registry /\ UNCHANGED <<reservedQuotaJobs, status, background>>
    BY <1>1, <1>r DEF Admit
  <2>2. CountedBack' \subseteq CountedBack
    BY <2>1 DEF CountedBack
  <2>3. CASE UNCHANGED reserveVars
    BY <1>t, <2>2, <2>3, BackShrinks
  <2>4. CASE ReserveStart(j, 1) /\ ~ClassFull(req[j].mode)
    <3>1. CASE req[j].mode # "background"
      <4>1. reservedBackground' = reservedBackground
        BY <1>t, <2>4, <3>1 DEF ReserveStart
      <4> QED
        BY <1>t, <2>2, <4>1, BackShrinks
    <3>2. CASE req[j].mode = "background"
      <4>1. reservedBackground' = reservedBackground + 1 /\ ~BackgroundFull
        BY <1>t, <2>4, <3>2 DEF ReserveStart, ClassFull
      <4> QED
        BY <1>t, <2>2, <4>1, BackTakes
    <3> QED
      BY <3>1, <3>2
  <2> QED
    BY <1>1, <2>3, <2>4 DEF Admit
<1>2. ASSUME NEW j \in Jobs, RecordIntent(j) PROVE BackgroundInv'
  <2>1. UNCHANGED <<registry, reservedQuotaJobs, status, background>>
    BY <1>2 DEF RecordIntent
  <2>2. CountedBack' \subseteq CountedBack
    BY <2>1 DEF CountedBack
  <2>3. reservedBackground' = reservedBackground \/ reservedBackground' = reservedBackground - 1
    <3>1. CASE UNCHANGED reserveVars
      BY <3>1
    <3>2. CASE ReserveStart(j, -1)
      BY <1>t, <3>2 DEF ReserveStart
    <3> QED
      BY <1>2, <3>1, <3>2 DEF RecordIntent
  <2> QED
    BY <1>t, <2>2, <2>3, BackShrinks
<1>3. ASSUME NEW j \in Jobs, Register(j) PROVE BackgroundInv'
  <2>1. /\ registry' \subseteq registry \cup {j} /\ UNCHANGED <<reservedQuotaJobs, status>>
        /\ background' = IF req[j].mode = "background" THEN background \cup {j} ELSE background
        /\ ReserveStart(j, -1) /\ pc[j] = "execing"
    BY <1>3 DEF Register
  <2>2. CASE req[j].mode # "background"
    <3>1. CountedBack' \subseteq CountedBack
      BY <2>1, <2>2 DEF CountedBack, BackInv, EarlyPCs
    <3>2. reservedBackground' = reservedBackground
      BY <1>t, <2>1, <2>2 DEF ReserveStart
    <3> QED
      BY <1>t, <3>1, <3>2, BackShrinks
  <2>3. CASE req[j].mode = "background"
    <3>1. CountedBack' \subseteq CountedBack \cup {j}
      BY <2>1, <2>3 DEF CountedBack
    <3>2. reservedBackground' = reservedBackground - 1
      BY <1>t, <2>1, <2>3 DEF ReserveStart
    <3> QED
      BY <1>t, <3>1, <3>2, BackJoins
  <2> QED
    BY <2>2, <2>3
<1>4. ASSUME NEW j \in Jobs, RegisterFailed(j) PROVE BackgroundInv'
  <2>1. registry' \subseteq registry \cup {j} /\ UNCHANGED <<reservedQuotaJobs, status, background, reservedBackground>>
    BY <1>4, <1>r DEF RegisterFailed
  <2>2. status[j] # "running"
    BY <1>4 DEF RegisterFailed, PoolInv
  <2>3. CountedBack' \subseteq CountedBack
    BY <2>1, <2>2 DEF CountedBack
  <2> QED
    BY <1>t, <2>1, <2>3, BackShrinks
<1>5. ASSUME NEW j \in Jobs, ExecStart(j) \/ ExecApproved(j) PROVE BackgroundInv'
  <2>1. Attach(j) /\ UNCHANGED <<registry, reservedQuotaJobs, background, reservedBackground>>
    BY <1>5 DEF ExecStart, ExecApproved
  <2>2. \A k \in Jobs : k # j => status'[k] = status[k]
    BY <1>t, <2>1 DEF Attach, Finalized, TypeOK
  <2>3. j \notin registry \/ j \in reservedQuotaJobs
    BY <1>t, <1>5 DEF ExecStart, ExecApproved, PoolInv, Approving
  <2>4. CountedBack' \subseteq CountedBack
    BY <1>t, <2>1, <2>2, <2>3 DEF CountedBack
  <2> QED
    BY <1>t, <2>1, <2>4, BackShrinks
<1>6. ASSUME NEW j \in Jobs, Park(j) PROVE BackgroundInv'
  <2>1. /\ registry' \subseteq registry \cup {j} /\ UNCHANGED <<reservedQuotaJobs, background, reservedBackground>>
        /\ \A k \in Jobs : k # j => status'[k] = status[k]
        /\ (registry' \subseteq registry /\ status' = status) \/ status'[j] # "running"
    BY <1>t, <1>6, <1>r DEF Park, TypeOK
  <2>2. CountedBack' \subseteq CountedBack
    BY <1>t, <2>1 DEF CountedBack
  <2> QED
    BY <1>t, <2>1, <2>2, BackShrinks
<1>7. ASSUME NEW j \in Jobs, Approve(j) PROVE BackgroundInv'
  <2>1. /\ ReserveClass(j, 1) /\ ~ClassFull(req[j].mode)
        /\ UNCHANGED <<registry, status, background>> /\ reservedQuotaJobs \subseteq reservedQuotaJobs'
    BY <1>7 DEF Approve
  <2>2. CountedBack' \subseteq CountedBack
    BY <2>1 DEF CountedBack
  <2>3. CASE req[j].mode # "background"
    <3>1. reservedBackground' = reservedBackground
      BY <1>t, <2>1, <2>3 DEF ReserveClass
    <3> QED
      BY <1>t, <2>2, <3>1, BackShrinks
  <2>4. CASE req[j].mode = "background"
    <3>1. reservedBackground' = reservedBackground + 1 /\ ~BackgroundFull
      BY <1>t, <2>1, <2>4 DEF ReserveClass, ClassFull
    <3> QED
      BY <1>t, <2>2, <3>1, BackTakes
  <2> QED
    BY <2>3, <2>4
<1>8. ASSUME NEW j \in Jobs, ReleaseApproval(j) PROVE BackgroundInv'
  <2>1. /\ ReserveClass(j, -1) /\ UNCHANGED <<registry, status, background>> /\ resolver[j] = "releasing"
        /\ reservedQuotaJobs' = reservedQuotaJobs \ {j}
    BY <1>8 DEF ReleaseApproval
  <2>2. CASE req[j].mode # "background"
    <3>0. req[j].call # "run"
      BY <1>t, <2>1 DEF PathInv, NoGatedRun
    <3>1. CountedBack' \subseteq CountedBack
      BY <2>1, <2>2, <3>0 DEF CountedBack, BackInv
    <3>2. reservedBackground' = reservedBackground
      BY <1>t, <2>1, <2>2 DEF ReserveClass
    <3> QED
      BY <1>t, <3>1, <3>2, BackShrinks
  <2>3. CASE req[j].mode = "background"
    <3>1. CountedBack' \subseteq CountedBack \cup {j}
      BY <2>1 DEF CountedBack
    <3>2. reservedBackground' = reservedBackground - 1
      BY <1>t, <2>1, <2>3 DEF ReserveClass
    <3> QED
      BY <1>t, <3>1, <3>2, BackJoins
  <2> QED
    BY <2>2, <2>3
<1>9. ASSUME NEW j \in Jobs, ShellStep(j) \/ Complete(j) \/ FinalizeDetached(j) \/ AskHuman(j) \/ Withdraw(j) \/ RecordApproval(j)
      PROVE  BackgroundInv'
  <2>1. status' = status \/ \E st \in TerminalStatuses : status' = Finalized(j, st)
    BY <1>t, <1>9 DEF ShellStep, SendLine, SendFails, WriteTimesOut, StartFailed, SendReturns, Complete, FinalizeDetached, AskHuman,
       Withdraw, RecordApproval, TerminalStatuses, TypeOK
  <2>2. UNCHANGED <<registry, reservedBackground, reservedQuotaJobs, background>>
    BY <1>9 DEF ShellStep, SendLine, SendFails, WriteTimesOut, StartFailed, SendReturns, Complete, FinalizeDetached, AskHuman,
       Withdraw, RecordApproval
  <2> QED
    BY <1>t, <1>f, <1>u, <2>1, <2>2
<1>10. ASSUME NEW j \in Jobs, HandBack(j) PROVE BackgroundInv'
  <2>1. UNCHANGED <<registry, reservedBackground, reservedQuotaJobs, status>>
    BY <1>10 DEF HandBack
  <2>2. CASE UNCHANGED background
    BY <1>t, <1>u, <2>1, <2>2
  <2>3. CASE background' = background \cup {j} /\ ~BackgroundFull
    <3>1. CountedBack' \subseteq CountedBack \cup {j}
      BY <2>1, <2>3 DEF CountedBack
    <3> QED
      BY <1>t, <2>1, <2>3, <3>1, BackJoins
  <2> QED
    BY <1>10, <2>2, <2>3 DEF HandBack
<1>11. ASSUME NEW j \in Jobs, AnnounceApproved(j) PROVE BackgroundInv'
  <2>1. /\ UNCHANGED <<registry, reservedBackground, reservedQuotaJobs, status>>
        /\ background' \subseteq background \cup {j} /\ j \in reservedQuotaJobs
    BY <1>t, <1>11 DEF AnnounceApproved, Approving
  <2>2. CountedBack' \subseteq CountedBack
    BY <2>1 DEF CountedBack
  <2> QED
    BY <1>t, <2>1, <2>2, BackShrinks
<1>12. ASSUME NEW j \in Jobs,
              \/ \E r \in Requests : Arrive(j, r)
              \/ Announce(j) \/ PersistParked(j) \/ ArmTimer(j) \/ CloseAfterShutdown(j) \/ KillLate(j)
              \/ Watch(j) \/ Collect(j) \/ Deny(j) \/ TimeOut(j) \/ KillPending(j)
       PROVE  BackgroundInv'
  <2>1. UNCHANGED <<reservedBackground, reservedQuotaJobs, status, background>> /\ registry' \subseteq registry
    BY <1>12 DEF Arrive, Announce, PersistParked, ArmTimer, CloseAfterShutdown, KillLate,
       Watch, Collect, Deny, TimeOut, KillPending, TakePending
  <2> QED
    BY <1>t, <1>u, <2>1
<1>13. ASSUME \/ \E s \in Sessions : SessionStep(s)
              \/ Shutdown \/ Drain \/ AuditFails \/ UNCHANGED vars
       PROVE  BackgroundInv'
  <2>1. UNCHANGED <<registry, reservedBackground, reservedQuotaJobs, status, background>>
    BY <1>13 DEF SessionStep, ShellExits, BeginClose, FinishClose, CloseSession, Shutdown, Drain, AuditFails
  <2> QED
    BY <1>t, <1>u, <2>1
<1> QED
  BY <1>1, <1>2, <1>3, <1>4, <1>5, <1>6, <1>7, <1>8, <1>9, <1>10, <1>11, <1>12, <1>13
     DEF Next, JobStep, StartStep, ResolveStep, AtRest

\* Background commands, those promised and those Run hands back included, never
\* exceed MaxBackgroundJobs, provided Run never waits for a human: such a call
\* can be handed back while its approval still holds a foreground slot
\* (Start, resolveConfirm, markBackgroundWithinQuota).
THEOREM BackgroundKept ==
  ASSUME NoGatedRun
  PROVE  Spec => []BackgroundPoolBounded
<1> DEFINE I == \A k \in Jobs : PoolInv(k) /\ BackInv(k)
<1>1. BackgroundInv => BackgroundPoolBounded
  BY DEF BackgroundInv
<1>2. SafetyInv /\ LedgerInv /\ I /\ BackgroundInv /\ RegistryInv' /\ [Next]_vars => BackgroundInv'
  BY BackgroundNext DEF RegistryInv
<1>3. Init => I
  BY PoolInit, BackInit
<1>4. SafetyInv /\ I /\ [Next]_vars => I'
  BY PoolNext, BackNext
<1> HIDE DEF I
<1> QED
  BY SafetyInit, SafetyNext, RegistryInit, RegistryNext, LedgerInit, LedgerNext, BackgroundInit,
     <1>1, <1>2, <1>3, <1>4, PTL DEF Spec

-----------------------------------------------------------------------------
(* The agent quota *)

\* What an agent has running, or promised to a start in flight.
Busy(o) == {j \in Jobs : OwnerOf(j) = o /\ (status[j] = "running" \/ Holds(j))}

AgentInv ==
  /\ ~closed => \A k \in Jobs : status[k] = "running" => k \in registry \/ Holds(k)
  /\ MaxJobsPerAgent > 0 =>
       \A o \in Owners : IsFiniteSet(Busy(o)) /\ Cardinality(Busy(o)) <= MaxJobsPerAgent

LEMMA AgentInit == Init => AgentInv
<1> SUFFICES ASSUME Init PROVE AgentInv
  OBVIOUS
<1>1. \A k \in Jobs : status[k] # "running" /\ ~Holds(k)
  BY DEF Init, Holds
<1>2. \A o \in Owners : Busy(o) = {}
  BY <1>1 DEF Busy
<1> QED
  BY <1>1, <1>2, FS_EmptySet, EngineConstants DEF AgentInv

\* A step that starts nothing new for any agent.
LEMMA BusyShrinks ==
  ASSUME AgentInv,
         \A k \in Jobs : status'[k] = "running" \/ Holds(k)' =>
                           req'[k] = req[k] /\ (status[k] = "running" \/ Holds(k)),
         ~closed' => \A k \in Jobs : status'[k] = "running" => k \in registry' \/ Holds(k)'
  PROVE  AgentInv'
<1> SUFFICES ASSUME MaxJobsPerAgent > 0, NEW o \in Owners
             PROVE  IsFiniteSet(Busy(o)') /\ Cardinality(Busy(o)') <= MaxJobsPerAgent
  BY DEF AgentInv
<1>1. Busy(o)' \subseteq Busy(o)
  BY DEF Busy, OwnerOf, SessOf
<1>2. IsFiniteSet(Busy(o)) /\ Cardinality(Busy(o)) <= MaxJobsPerAgent
  BY DEF AgentInv
<1>3. IsFiniteSet(Busy(o)') /\ Cardinality(Busy(o)') <= Cardinality(Busy(o))
  BY <1>1, <1>2, FS_Subset
<1>4. Cardinality(Busy(o)) \in Nat /\ Cardinality(Busy(o)') \in Nat
  BY <1>2, <1>3, FS_CardinalityType
<1> QED
  BY <1>2, <1>3, <1>4, EngineConstants

\* Live jobs and starts in flight, which admission counts, are all an agent has.
LEMMA AdmissionCounts ==
  ASSUME SafetyInv, LedgerInv, RegistryInv, AgentInv, ~closed, NEW j \in Jobs, req[j] \in Requests,
         ~AgentFull(j), MaxJobsPerAgent > 0
  PROVE  LET o == OwnerOf(j) IN IsFiniteSet(Busy(o)) /\ Cardinality(Busy(o)) + 1 <= MaxJobsPerAgent
<1> DEFINE o == OwnerOf(j)
           L == LiveJobsOf(o)
           H == HeldBy(o)
<1>1. o \in Owners
  BY EngineConstants DEF OwnerOf, SessOf
<1>2. IsFiniteSet(L) /\ IsFiniteSet(H)
  <2>1. L \subseteq registry
    BY DEF LiveJobsOf
  <2> QED
    BY <2>1, HeldFinite, FS_Subset DEF RegistryInv
<1>3. IsFiniteSet(L \cup H) /\ Cardinality(L \cup H) <= Cardinality(L) + Cardinality(H)
  <2>1. /\ IsFiniteSet(L \cup H)
        /\ Cardinality(L \cup H) = Cardinality(L) + Cardinality(H) - Cardinality(L \cap H)
    BY <1>2, FS_Union
  <2>2. IsFiniteSet(L \cap H)
    BY <1>2, FS_Subset
  <2>3. Cardinality(L) \in Nat /\ Cardinality(H) \in Nat /\ Cardinality(L \cap H) \in Nat
    BY <1>2, <2>2, FS_CardinalityType
  <2> QED
    BY <2>1, <2>3
<1>4. Busy(o) \subseteq L \cup H
  <2> SUFFICES ASSUME NEW k \in Busy(o) PROVE k \in L \cup H
    OBVIOUS
  <2>1. k \in Jobs /\ OwnerOf(k) = o /\ (status[k] = "running" \/ Holds(k))
    BY DEF Busy
  <2>2. CASE Holds(k)
    <3>1. req[k].mode \in Modes
      BY <2>1, <2>2, EngineConstants DEF SafetyInv, JobInv, PathInv, Holds
    <3>2. k \in Starting("foreground") \cup Starting("background")
      BY <2>1, <2>2, <3>1 DEF Starting, Holds, Modes
    <3> QED
      BY <2>1, <3>1, <3>2 DEF HeldBy
  <2>3. CASE ~Holds(k)
    BY <2>1, <2>3 DEF AgentInv, LiveJobsOf, Terminal, TerminalStatuses
  <2> QED
    BY <2>2, <2>3
<1>5. reservedByAgent[o] = Cardinality(H)
  BY <1>1 DEF LedgerInv, ReservationsExact, HeldBy
<1>6. Cardinality(L) + Cardinality(H) < MaxJobsPerAgent
  <2>1. Cardinality(L) \in Nat /\ Cardinality(H) \in Nat
    BY <1>2, FS_CardinalityType
  <2> QED
    BY <1>5, <2>1, EngineConstants DEF AgentFull, ActiveForAgent
<1>7. IsFiniteSet(Busy(o)) /\ Cardinality(Busy(o)) <= Cardinality(L \cup H)
  BY <1>3, <1>4, FS_Subset
<1>8. Cardinality(Busy(o)) \in Nat /\ Cardinality(L \cup H) \in Nat /\ Cardinality(L) \in Nat /\ Cardinality(H) \in Nat
  BY <1>2, <1>3, <1>7, FS_CardinalityType
<1> QED
  BY <1>3, <1>6, <1>7, <1>8, EngineConstants

LEMMA AgentNext ==
  ASSUME Ungated, FatesInv, LedgerInv, RegistryInv, \A k \in Jobs : PoolInv(k), AgentInv, [Next]_vars
  PROVE  AgentInv'
<1>t. /\ TypeOK
      /\ \A k \in Jobs : PathInv(k) /\ OneExecInv(k) /\ FateInv(k)
  BY DEF FatesInv, SafetyInv, JobInv
<1> USE DEF vars, lifeVars, registryVars, shellVars, jobVars, auditVars
\* No call is parked, and nothing waits for an answer.
<1>g. \A k \in Jobs : pc[k] \notin ConfirmPCs /\ k \notin pending /\ resolver[k] = "none"
  BY <1>t DEF PathInv, ConfirmPCs, Ungated
\* A step that moves no call and starts nothing.
<1>q. ASSUME UNCHANGED <<req, pc>>, closed => closed',
             \A k \in Jobs : status'[k] = "running" => status[k] = "running",
             \A k \in Jobs : k \in registry /\ ~Terminal(status[k]) => k \in registry'
      PROVE  AgentInv'
  <2>1. \A k \in Jobs : Holds(k)' <=> Holds(k)
    BY <1>q DEF Holds
  <2>2. ~closed' => \A k \in Jobs : status'[k] = "running" => k \in registry' \/ Holds(k)'
    BY <1>q, <2>1 DEF AgentInv, Terminal, TerminalStatuses
  <2> QED
    BY <1>q, <2>1, <2>2, BusyShrinks
<1>f. ASSUME NEW j \in Jobs, NEW st \in TerminalStatuses, NEW k \in Jobs, Finalized(j, st)[k] = "running"
      PROVE  status[k] = "running"
  BY <1>t, <1>f DEF Finalized, Terminal, TerminalStatuses, TypeOK
<1>1. ASSUME NEW j \in Jobs, NEW r \in Requests, Arrive(j, r) PROVE AgentInv'
  <2>1. exec[j] = "none" /\ status[j] # "running" /\ UNCHANGED <<status, registry, closed>>
    BY <1>t, <1>1 DEF Arrive, PathInv, FateInv
  <2>2. ~Holds(j)' /\ \A k \in Jobs : k # j => req'[k] = req[k] /\ pc'[k] = pc[k]
    BY <1>t, <1>1 DEF Arrive, Holds, TypeOK
  <2>3. \A k \in Jobs : k # j => (Holds(k)' <=> Holds(k))
    BY <2>2 DEF Holds
  <2> QED
    BY <2>1, <2>2, <2>3, BusyShrinks DEF AgentInv
<1>2. ASSUME NEW j \in Jobs, Admit(j) PROVE AgentInv'
  <2>1. /\ UNCHANGED <<status, req, closed>> /\ pc[j] = "admitting"
        /\ \A k \in Jobs : k # j => pc'[k] = pc[k]
    BY <1>t, <1>2 DEF Admit, TypeOK
  <2>2. \A k \in Jobs : k # j => (Holds(k)' <=> Holds(k))
    BY <2>1 DEF Holds
  <2>3. \A k \in Jobs : k \in registry /\ ~Terminal(status[k]) => k \in registry'
    BY <1>2, RoomySpares DEF Admit
  <2>4. ~closed' => \A k \in Jobs : status'[k] = "running" => k \in registry' \/ Holds(k)'
    BY <2>1, <2>2, <2>3 DEF AgentInv, Terminal, TerminalStatuses, Holds
  <2>5. CASE pc'[j] = "refused"
    <3>1. ~Holds(j)'
      BY <2>5 DEF Holds
    <3> QED
      BY <2>1, <2>2, <2>4, <3>1, BusyShrinks
  <2>6. CASE ~closed /\ ~AgentFull(j)
    <3>1. req[j] \in Requests
      BY <1>t, <2>1 DEF PathInv
    <3>2. ASSUME MaxJobsPerAgent > 0, NEW o \in Owners
          PROVE  IsFiniteSet(Busy(o)') /\ Cardinality(Busy(o)') <= MaxJobsPerAgent
      <4>1. CASE o = OwnerOf(j)
        <5>1. IsFiniteSet(Busy(o)) /\ Cardinality(Busy(o)) + 1 <= MaxJobsPerAgent
          BY <2>6, <3>1, <3>2, <4>1, AdmissionCounts DEF FatesInv
        <5>2. Busy(o)' \subseteq Busy(o) \cup {j}
          BY <2>1, <2>2 DEF Busy, OwnerOf, SessOf
        <5>3. /\ IsFiniteSet(Busy(o) \cup {j})
              /\ Cardinality(Busy(o) \cup {j}) \in {Cardinality(Busy(o)), Cardinality(Busy(o)) + 1}
          BY <5>1, FS_AddElement
        <5>4. IsFiniteSet(Busy(o)') /\ Cardinality(Busy(o)') <= Cardinality(Busy(o) \cup {j})
          BY <5>2, <5>3, FS_Subset
        <5>5. Cardinality(Busy(o)) \in Nat /\ Cardinality(Busy(o)') \in Nat
          BY <5>1, <5>4, FS_CardinalityType
        <5> QED
          BY <5>1, <5>3, <5>4, <5>5, EngineConstants
      <4>2. CASE o # OwnerOf(j)
        <5>1. Busy(o)' = Busy(o)
          BY <2>1, <2>2, <4>2 DEF Busy, OwnerOf, SessOf
        <5> QED
          BY <3>2, <5>1 DEF AgentInv
      <4> QED
        BY <4>1, <4>2
    <3> QED
      BY <2>4, <3>2 DEF AgentInv
  <2> QED
    BY <1>t, <1>2, <2>5, <2>6 DEF Admit, TypeOK
<1>3. ASSUME NEW j \in Jobs, RecordIntent(j) PROVE AgentInv'
  <2>1. /\ UNCHANGED <<status, req, registry, closed>> /\ pc[j] = "reserved"
        /\ \A k \in Jobs : k # j => pc'[k] = pc[k]
    BY <1>t, <1>3 DEF RecordIntent, TypeOK
  <2>2. status[j] # "running"
    BY <1>t, <2>1 DEF OneExecInv, FateInv
  <2> QED
    BY <2>1, <2>2, BusyShrinks DEF Holds, AgentInv
<1>4. ASSUME NEW j \in Jobs, ExecStart(j) PROVE AgentInv'
  <2>1. /\ Attach(j) /\ UNCHANGED <<req, registry, closed>> /\ Holds(j) /\ Holds(j)'
        /\ \A k \in Jobs : k # j => pc'[k] = pc[k]
    BY <1>t, <1>4 DEF ExecStart, Holds, TypeOK
  <2>2. \A k \in Jobs : k # j => status'[k] = status[k]
    BY <1>t, <2>1 DEF Attach, Finalized, TypeOK
  <2>3. \A k \in Jobs : Holds(k)' <=> Holds(k)
    BY <2>1 DEF Holds
  <2> QED
    BY <2>1, <2>2, <2>3, BusyShrinks DEF AgentInv
<1>5. ASSUME NEW j \in Jobs, Register(j) PROVE AgentInv'
  <2>1. /\ UNCHANGED <<status, req, closed>> /\ Holds(j) /\ registry \subseteq registry'
        /\ \A k \in Jobs : k # j => pc'[k] = pc[k]
        /\ ~Holds(j)'
    BY <1>t, <1>5 DEF Register, Holds, TypeOK
  <2>2. closed \/ j \in registry' \/ status[j] # "running"
    BY <1>5 DEF Register, PoolInv
  <2>3. \A k \in Jobs : k # j => (Holds(k)' <=> Holds(k))
    BY <2>1 DEF Holds
  <2>4. ~closed' => \A k \in Jobs : status'[k] = "running" => k \in registry' \/ Holds(k)'
    BY <2>1, <2>2, <2>3 DEF AgentInv
  <2>5. \A k \in Jobs : Holds(k)' => Holds(k)
    BY <2>1, <2>3
  <2> QED
    BY <2>1, <2>4, <2>5, BusyShrinks
<1>6. ASSUME NEW j \in Jobs, RegisterFailed(j) \/ Announce(j) \/ CloseAfterShutdown(j) \/ KillLate(j) \/ HandBack(j) PROVE AgentInv'
  <2>1. /\ UNCHANGED <<status, req, closed>>
        /\ \A k \in Jobs : k # j => pc'[k] = pc[k]
        /\ ~Holds(j) /\ ~Holds(j)'
    BY <1>t, <1>6 DEF RegisterFailed, Announce, CloseAfterShutdown, KillLate, HandBack, Holds, TypeOK
  <2>2. \A k \in Jobs : k \in registry /\ ~Terminal(status[k]) => k \in registry'
    BY <1>6, RoomySpares DEF RegisterFailed, Announce, CloseAfterShutdown, KillLate, HandBack
  <2>3. \A k \in Jobs : Holds(k)' <=> Holds(k)
    BY <2>1 DEF Holds
  <2>4. ~closed' => \A k \in Jobs : status'[k] = "running" => k \in registry' \/ Holds(k)'
    BY <2>1, <2>2, <2>3 DEF AgentInv, Terminal, TerminalStatuses
  <2> QED
    BY <2>1, <2>3, <2>4, BusyShrinks
<1>7. ASSUME NEW j \in Jobs, \/ Park(j) \/ PersistParked(j) \/ AskHuman(j) \/ ArmTimer(j) \/ ResolveStep(j)
                             \/ Approve(j) \/ Deny(j) \/ TimeOut(j) \/ KillPending(j)
      PROVE  FALSE
  BY <1>g, <1>7 DEF Park, PersistParked, AskHuman, ArmTimer, ConfirmPCs, ResolveStep, RecordApproval,
     ExecApproved, AnnounceApproved, ReleaseApproval, Withdraw, Approve, Deny, TimeOut, KillPending, TakePending
<1>8. ASSUME NEW j \in Jobs, ShellStep(j) \/ Complete(j) \/ FinalizeDetached(j) PROVE AgentInv'
  <2>1. status' = status \/ \E st \in TerminalStatuses : status' = Finalized(j, st)
    BY <1>t, <1>8 DEF ShellStep, SendLine, SendFails, WriteTimesOut, StartFailed, SendReturns, Complete, FinalizeDetached,
       TerminalStatuses, TypeOK
  <2>2. UNCHANGED <<registry, req, pc, closed>>
    BY <1>8 DEF ShellStep, SendLine, SendFails, WriteTimesOut, StartFailed, SendReturns, Complete, FinalizeDetached
  <2> QED
    BY <1>f, <1>q, <2>1, <2>2
<1>9. ASSUME NEW j \in Jobs, Watch(j) \/ Collect(j) PROVE AgentInv'
  BY <1>9, <1>q DEF Watch, Collect
<1>10. ASSUME \/ \E s \in Sessions : SessionStep(s)
              \/ Shutdown \/ Drain \/ AuditFails \/ UNCHANGED vars
       PROVE  AgentInv'
  BY <1>10, <1>q DEF SessionStep, ShellExits, BeginClose, FinishClose, CloseSession, Shutdown, Drain, AuditFails
<1> QED
  BY <1>1, <1>2, <1>3, <1>4, <1>5, <1>6, <1>7, <1>8, <1>9, <1>10 DEF Next, JobStep, StartStep, AtRest

\* An agent never has more commands running than its quota, over however many
\* sessions it spreads them, provided none waits for a human: registerPending
\* does not count the starts in flight (engine_agent_quota).
THEOREM AgentQuotaKept ==
  ASSUME Ungated
  PROVE  Spec => []AgentQuotaRespected
<1> DEFINE I == \A k \in Jobs : PoolInv(k)
<1>1. AgentInv => AgentQuotaRespected
  <2> SUFFICES ASSUME AgentInv, MaxJobsPerAgent > 0, NEW o \in Owners
               PROVE  Cardinality({j \in Jobs : status[j] = "running" /\ OwnerOf(j) = o}) <= MaxJobsPerAgent
    BY DEF AgentQuotaRespected
  <2> DEFINE R == {j \in Jobs : status[j] = "running" /\ OwnerOf(j) = o}
  <2>1. R \subseteq Busy(o) /\ IsFiniteSet(Busy(o)) /\ Cardinality(Busy(o)) <= MaxJobsPerAgent
    BY DEF Busy, AgentInv
  <2>2. IsFiniteSet(R) /\ Cardinality(R) <= Cardinality(Busy(o))
    BY <2>1, FS_Subset
  <2>3. Cardinality(R) \in Nat /\ Cardinality(Busy(o)) \in Nat
    BY <2>1, <2>2, FS_CardinalityType
  <2> QED
    BY <2>1, <2>2, <2>3, EngineConstants
<1>2. FatesInv /\ LedgerInv /\ RegistryInv /\ I /\ AgentInv /\ [Next]_vars => AgentInv'
  BY AgentNext
<1>3. FatesInv /\ I /\ [Next]_vars => I'
  BY PoolNext DEF FatesInv
<1>4. Init => I
  BY PoolInit
<1>5. FatesInv => SafetyInv
  BY DEF FatesInv
<1> HIDE DEF I
<1> QED
  BY FatesKept, RegistryInit, RegistryNext, LedgerInit, LedgerNext, AgentInit,
     <1>1, <1>2, <1>3, <1>4, <1>5, PTL DEF Spec

\* Starts that reserve, run, fail and hand commands back exceed neither pool nor
\* an agent's quota, however they interleave, provided none waits for a human.
THEOREM QuotasKept ==
  ASSUME Ungated
  PROVE  Spec => []QuotasRespected
<1>1. NoGatedRun
  BY DEF Ungated, NoGatedRun
<1>2. ForegroundPoolBounded /\ BackgroundPoolBounded /\ AgentQuotaRespected => QuotasRespected
  BY DEF QuotasRespected
<1> QED
  BY ForegroundKept, BackgroundKept, AgentQuotaKept, <1>1, <1>2, PTL

===============================================================================
