# Verification of termada

termada is a daemon that gives AI agents persistent shells: an agent asks it to run a command,
the daemon checks a policy, may park the command until a human approves it, hands it to a
long-lived shell, and keeps an audit trail of everything. This directory models that daemon in
TLA+, checks the models with TLC on small instances and proves what they promise, liveness excepted,
with TLAPS. All paths below are relative to the repository.

- [The system](#the-system): components, their state, their interactions, what makes them hard
- [Modules](#modules): which module models what
- [JobEngine and the code](#jobengine-and-the-code), [the shell and its secrets](#the-shell-and-its-secrets),
  [the rest of the daemon](#the-rest-of-the-daemon): how state and actions correspond
- [Runs](#runs), [bounds](#bounds), [fairness](#fairness-and-liveness)
- [Proofs](#proofs)
- [Where the code and its comments disagree](#where-the-code-and-its-comments-disagree)
- [What is not modelled](#what-is-not-modelled)

## The system

| component | state | operations | interacts with |
|---|---|---|---|
| job engine (`internal/engine/manager.go`, `job.go`, `gc.go`) | `Manager.jobs`, reservation counters, `Job.status` | `Start`, `Run`, `Poll`, `Kill`, `GCOnce`, `ReapOnce` | sessions, bus, persistence |
| confirmation gate (`manager.go`) | `Manager.pending`, deny timers | `enqueueConfirm`, `Approve`, `Deny`, expiry | policy, bus, sessions |
| session and shell (`session.go`, `pty*.go`, `signals*.go`) | `current`, `closed`, scan buffer, `writeMu` | `startJob`, `consume`, `writeInput`, `terminate`, `tryReconnect` | the shell process or SSH channel |
| session registry (`manager.go`) | `sessions`, `defaults`, reservations | `CreateSession`, `resolveSession`, `CloseSession` | SSH transport, shutdown |
| registry persistence (`persist.go`) | `jobs.json`, `recovered` | `persist`, `EnablePersistence` | job engine, bus |
| event bus (`internal/bus`) | sequence number, replay ring, subscribers | `Publish`, `Subscribe`, `SubscribeReliable` | everything publishes; audit and missions are its synchronous sink |
| audit log (`internal/audit`) | hash chain, segments, checkpoint, health | `Append`, `rotate`, `recover`, retention | the bus; its health gates the confirmation path |
| missions (`internal/mission`) | mission documents, session index | `Create`, `Update`, `Resume`, `RecordEvent` | engine sessions, bus |
| port forwards (`daemon.go` `forwardManager`, `sshx/forward.go`) | open forwards, reservations | `Start`, `Close`, `Shutdown` | SSH transport |
| fleet (`internal/fleet`) | inventory, run slots | `Run`, `AddServer`, `RemoveServer` | SSH transport |
| output buffer (`internal/output`) | bounded byte ring | `Write`, `ReadFromLimit` | jobs, sessions |
| plugins, vault, snapshots, recipes | plugin set; secrets and lockout; directory copies; step lists | load/call; unlock/set; restore; run | engine, control plane |
| control plane, MCP, CLI, dashboard, TUI, notifications, self-update | none that others depend on | adapters | engine |

How they meet: an HTTP handler of the control plane, a confirmation timer, a job watcher, a
session's reader and the daemon's tickers are all goroutines. They share `Manager` under
`Manager.mu`, each `Session` under `Session.mu`, and each `Job` under `Job.mu`, and release
the manager's lock around every slow call: writing to a shell, fsyncing an audit record, writing
the registry, dialling a server. `Bus.Publish` is synchronous: it returns the error of the
durable sink, which appends to the audit log and then to the mission store.

What is hard, and what correctness means, component by component:

- **Job engine.** Check and act are in different critical sections, bridged by reservations that
  every error path must give back once. Correct: quotas and the registry's limit hold in every
  interleaving, a refused command does not run, a running command can be found.
- **Confirmation gate.** Five parties race to resolve one confirmation. Correct: one verdict,
  recorded before the shell sees the command, and a confirmation nobody answers ends in denial.
- **Shell.** One byte stream, markers, timeouts on writes, a transport that may be replaced.
  Correct: one command at a time; output, input and completion belong to that command.
- **Shutdown.** Every handler may be anywhere. Correct: it returns, nothing it took over
  still runs, and every announced command's end is on record before the sink goes.
- **Audit, persistence.** Crashes between file operations. Correct: the chain verifies after
  any crash the code claims to survive; every job live before a crash is orphaned after it.
- **Missions.** Memory, file and audit are updated in turn and rolled back by hand. Correct:
  no update is lost, and the status shown agrees with the jobs of the mission.
- **Forwards, session registry, fleet.** Limits with reservations across a dial. Correct: limits
  hold, nothing leaks, shutdown leaves nothing open.
- **Output buffer.** Correct: paging returns every retained byte once, in order, in whole runes.

`PROJECT.json` lists each hazard at its line with the properties that cover it.

## Modules

| module | models | composed or instantiated by |
|---|---|---|
| `JobEngine` | the engine, the confirmation gate, shells as the engine sees them, and shutdown, in one module because their races are with each other | `MCJobEngine` |
| `ShellSession` | one session: reader, callers, transport, shell | `MCShellSession`, `MCSecrets` |
| `Credentials` | vault, redactor literals, server inventory | `MCSecrets` |
| `Mission` | the mission service and its store | `MCDaemon` |
| `AuditLog`, `AppendOnlyLog` | the audit files with crashes; what they implement | `MCDaemon`, `MCAuditLog` |
| `JobPersistence` | the registry file | `MCDaemon`, `MCJobPersistence` |
| `Snapshots` | directory snapshots and their restore | `MCDaemon` |
| `OutputStream` | output rings and their followers | `MCDaemon` |
| `Recipes` | `RunRecipe` | `MCDaemon` |
| `Plugins` | loading and calling plugins | `MCDaemon` |
| `Fleet` | fleet runs and the health check | `MCDaemon` |
| `EventBus` | the bus and the browser's event stream | `MCDaemon` (`Bus`) |
| `SessionRegistry` | creation, default, end of sessions | `MCDaemon` (`Shells`) |
| `Forwards` | port forwards in their three layers | `MCDaemon` (`Tunnels`) |
| `Identifiers` | `Fresh`, the random ids of `ids.go` | `Mission`, `JobPersistence`, `SessionRegistry`, `Forwards` |
| `JobEngine_proofs`, `ShellSession_proofs`, `SessionRegistry_proofs`, `EventBus_proofs`, `Forwards_proofs` | theorems about the module they are named after | |
| `Storage_proofs` | theorems about `Mission`, `JobPersistence`, `Snapshots` and `AuditLog` | |
| `Services_proofs` | theorems about `Credentials`, `Recipes`, `Plugins`, `Fleet` and `OutputStream` | |
| `Daemon_proofs` | that the parts' theorems hold of `MCDaemon` | |

`MCDaemon` puts eleven components that share no state with one another behind one variable `part`,
chosen in the initial state: a behaviour is one of a single component, and what would only
interleave independently is not multiplied. `MCSecrets` does the same for the two sources of
secrets. Where components do meet, they are in one module: the engine, its confirmation gate, its
sessions, the sink and shutdown in `JobEngine`; a vault, the redactor and the inventory in
`Credentials`; the forwards of `Manager`, of `forwardManager` and of the tunnels in `Forwards`;
the bus and the browser's stream in `EventBus`.

## JobEngine and the code

Each element of `Jobs` is one `exec_start` or `exec_run` request and the job it may create. The
daemon's state is kept per job in four program counters, one for each goroutine that may work on
it, so that all interleavings of them are explored:

| variable | code |
|---|---|
| `pc` | where `Start`/`Run` or `enqueueConfirm` stands for this request |
| `exec` | the call of `Session.startJob` for this job: before, in and after the write |
| `resolver` | who took the job's confirmation out of `pending` and how far that call is |
| `watch` | the watcher of `prepareWatchLocked`: held until announced, ready, done |
| `registry`, `pending`, `timers`, `reserved*` | the fields of `Manager` of those names |
| `sessions`, `closing` | `Manager.sessions`; who removed a session and has still to return from `sess.close()` |
| `dead`, `current` | `Session.closed`; `Session.current` |
| `onShell`, `reaped` | command lines a shell was given and may run; sessions whose shell `closeTransport` killed |
| `status`, `background` | `Job.status`, `Job.background` |
| `detached` | which caller of `terminate` took the job off its session and has still to finalize it |
| `trail`, `auditHealthy` | audit records of each job, `Logger.healthy` |
| `closed`, `drained` | `Manager.closed`; `Shutdown` returned and the sink cancelled |

The paths through it:

- ungated: `Arrive` → `Admit` → `RecordIntent` → `ExecStart` → `SendLine`/`SendFails` →
  `SendReturns` → `Register` → `Announce`, with `RegisterFailed` and `CloseAfterShutdown` as
  error exits and `HandBack` for the tail of `Run`; `WriteTimesOut` is the write that outlasts its
  limit and kills the shell;
- gated: `Arrive` → `Park` → `PersistParked` → `AskHuman` → `ArmTimer`, and from `Park` on,
  concurrently, one of `Approve`, `Deny`, `TimeOut`, `KillPending`, `CloseSession`, `Shutdown`;
- approved: `RecordApproval` → `ExecApproved` → the shell steps → `AnnounceApproved` →
  `ReleaseApproval`; otherwise `Withdraw`;
- ending: `Complete`, or a close: `BeginClose` → `FinalizeDetached` → `FinishClose`, the three parts of
  `terminate`, or the same by a late `Start` (`CloseAfterShutdown`, `KillLate`) or by the reader
  (`ShellExits`); then `Watch`, and `Collect` by the garbage collector;
- shutdown: `Shutdown` → the closes of its sessions, `Withdraw`, `Watch` → `Drain`.

The order inside `terminate` (`session.go:583-603`) matters to what can be claimed. It marks the session
closed and takes its job under the lock, finalizes the job after the unlock, and kills the
shell last. In between, the command is still on a live shell although its session is closed, its
job may be final and even collected, and a `startJob` caught in its write has reported failure to the
agent. The model has this window. `Dying(s)` says that somebody is in it, `Running` are the commands on shells
outside it, and `RefusedNeverRuns`, `TerminalNeverRuns` and `RunningIsListed` speak of `Running`.
`OneCommandPerShell` covers every shell, and says that a closed session's shell with a
command on it has somebody who is about to kill it; the second half of `ShutdownCompletes` says that
he does.

Faults are chosen per instance by the constant `Faults`: `append` (an audit write fails, before or
after the record reached the file, and the log latches unhealthy), `encode` (the bus or the audit log
refuses an event carrying a command too large), `store` (the mission store fails after the
audit succeeded), `registry` (the job registry cannot be written), `pty` (a write to the shell
fails or is short), `exit` (the shell dies).

Abstractions: the command, its output and exit code are dropped; `exited` also stands for a
command that a signal killed, which reaches the engine by the same marker. Eviction may take
any finished job where the code takes the oldest. A call's last assignments to its own job
are part of the step that precedes them when no other goroutine's decision lies in between; so
`ShellExits` closes and kills in one step, because a local shell at its end runs nothing more. The
operator, whose owner is empty, is taken to act as the session's owner. Modes `auto` and
`foreground` are admitted alike and are one mode here.

## The shell and its secrets

`ShellSession` is one `Session` at the level of tokens on its byte stream. A command line with
its two markers is one token, and so is what a read returns.

| variable | code |
|---|---|
| `creator` | `newSessionConn` and the manager's registration of its callback |
| `current`, `started`, `closed`, `writeMu`, `resets` | the fields of `Session` of those names, or the ones named beside them |
| `reader`, `attempts` | where the reader goroutine is, and its failed reconnects |
| `wpc`, `flight`, `sig` | where a caller that writes is, the goroutine its write left behind, where `Signal` is |
| `job` | a job's status, `killRequested`, and who holds the reservation of its secret |
| `remote`, `conn`, `alive`, `tclosed` | whether the transport can reconnect, the connection it is on, whether that works, and its own close |
| `inq`, `outq`, `run`, `asked` | bytes to the shell, bytes from it, the command it executes, who printed a prompt |
| `born`, `taken`, `shown`, `hit` | history, for the properties |

Callers start a command, answer its prompt once and signal it once (`startJob`, `writeCurrent`,
`Signal`). A write blocks, completes, or is abandoned at its time limit with its bytes still on
the way (`WriteBegin`, `WriteDone`, `WriteAbandon`). The reader consumes tokens, meets the end
of the stream, retries and re-initialises (`Consume`, `ReadEOF`, `Reconnect`, `Orphan`,
`NotifyReset`). `Drop` cuts the link at any moment, `Close` is the human's or the manager's.

`Credentials` has one variable per field of `Vault` and of the redactor's literals, the vault file,
the inventory and its file, and a program counter per handler (`hVaultUnlock`, `hServerAdd`,
`hServerRemove`). A handler's step is one critical section or one file operation. Beside the
handlers run the ticker of `RelockIfIdle`, the command line that edits the file from another
process, and restarts.

## The rest of the daemon

| module | one action is | left out |
|---|---|---|
| `Mission` | a stretch of `Create`, `Resume`, `Update` or `RecordEvent` under `Service.mu`; the session is created, and the event emitted, between two of them, and refusal of either undoes the first by the code's own roll back | titles, notes, the report |
| `AuditLog` | one file operation of `Append`, `rotate`, retention or `Open`; the daemon may die after any; `Crash` may keep or lose bytes that were not synced and may tear the last line | hashes: a record is known by a number and names its predecessor's |
| `JobPersistence` | a change of a job, a snapshot under the manager's lock, the replacement of the file, a crash, `EnablePersistence` | exit codes, times |
| `Snapshots` | one file-system call of creating or restoring, its failure, a crash after it | one request at a time |
| `OutputStream` | one `Write`, or one poll of a follower: `hExecStream`, `hSessionStream`, or `Poll`/`PollWait`/`Tail` of an agent, which read the hold and the page in two critical sections | the text: a byte is its offset, `text` says where runes begin |
| `Recipes` | one critical section of `RunRecipe`, or of the `Start`, `Kill` and `CloseSession` it calls, and between any two a human's approval, the shell's marker and another `CloseSession` | other jobs of the session; the kill of a closed session's shell |
| `Plugins` | one stretch of `Load` or `Call` around a process that runs by path, and a replacement of the file between any two, by a new version or by one that was there before | the protocol |
| `Fleet` | one acquisition or return of a slot, one answer of a server, one change of the inventory | text of results |
| `EventBus` | one critical section of `Publish`, `SubscribeReliable`, `hEvents` | events' contents: an event is its number |
| `SessionRegistry` | one critical section of `CreateSession`, `resolveSession`, `CloseSession`, `Shutdown`, one dial, one exit of a shell | names, statistics |
| `Forwards` | one critical section of any of the three layers, one dial, one accepted connection, one end of a socket | traffic |

`AuditLog` implements `AppendOnlyLog` under a refinement mapping: the abstract log is the removed
records, then the sealed ones, then the active ones, less what is not yet synced or is torn.
Each step of the detailed log, crash and recovery included, appends one record to it or stutters (proved
as `LogIsAppendOnly`, and checked by `daemon`).

## Runs

Each property of a passing run has a mutant in `PROJECT.json`: a plausible bug in one definition
(an operator next to it with a longer name) under which TLC finds that property violated by
the same instance.

| run | instance | shows |
|---|---|---|
| `engine_start` | two ungated requests (or denied ones) over three sessions of two agents; every quota 1; refused events, failing mission store and shell writes | quotas and pools hold, refused and finished commands are on no shell that lives on |
| `engine_confirm` | two requests of either gate on one session; failing audit, shell exit | reservations exact, recorded before run, one verdict, pending is answerable, no command outlives the drain, started before finished |
| `engine_registry` | three ungated requests on two sessions, registry of two, collection, writes that fail or outlast their limit | the registry is bounded and lists every command on a shell that lives on; one command per shell, with sessions closed in the middle of a write |
| `engine_live` | two requests of either gate on one session, confirmation timeout, failing registry, fair | confirmations settle, shutdown returns with every end on record, the shell of a closed session is killed; the type invariant |
| `secrets` | a session of two commands, one of which asks for a secret, over a transport that blocks, drops and reconnects once; and a vault under two handlers, the command line, a failed save and a restart | input, output and completion stay with their command, an answer is masked as long as it can be printed, resets are reported; the passphrase throttle holds, and what an open vault hands out is masked |
| `shell_live` | one command that is answered and signalled, two connections with two attempts each, fair | a command that started ends |
| `daemon` | eleven components, see below | crash safety of the audit log, the registry file, missions and snapshots; limits, leaks and completeness of the others; the audit log implements an append-only log |
| `engine_agent_quota`, `engine_terminal`, `engine_background`, `registry_history`, `audit_recovery` | the smallest instance each | violated: see [below](#where-the-code-and-its-comments-disagree) |

What `daemon` states, component by component:

| component | property | says |
|---|---|---|
| missions | `EvidenceIsReal` | a passed step cites a job that the engine saw succeed in a session of the mission, through resumptions, undone calls and restarts |
| | `NoLeakedSession` | a session a call opened is handed out or closed |
| | `IndexFindsMissions` | the session index finds exactly the unfinished missions |
| | `NothingToLose` | until a write fails, the store holds what memory holds |
| audit log | `AckedIsKept` | an acknowledged record is retained, or was removed by retention |
| | `HealthyVerifies` | a healthy log between two calls passes `Verify` |
| | `ImplementsAppendOnlyLog` | the refinement |
| registry file | `FileIsCurrent` | once all saves are through, the file holds the latest registry |
| snapshots | `OriginalRecoverable` | a complete tree is at the path, set aside, or staged |
| output | `StreamIsLossless` | a follower gets every retained byte once, in order, in whole runes |
| recipes | `RecipeLeavesNothing` | a recipe that answered left no step that runs or may start, except one that was approved before its `Start` answered with an error |
| plugins | `AnswerIsPinned` | what is offered and answered came from the pinned file, unless that was taken away and put back meanwhile |
| fleet | `FleetPoolBounded` | the ceiling holds, no slot is lost, an agent's run is on record |
| bus | `PublishedIsHeard` | sinks hear all, and browsers all but what they are told they missed |
| sessions | `OneDefaultPerOwner` | concurrent calls of an agent share one default session |
| sessions, forwards | `NothingOutlivesShutdown` | nothing that was being dialled survives shutdown |

`BackgroundPoolBounded` and `AgentQuotaRespected` are violated as stated. `engine_start` shows with
`QuotasRespected` that admission of ungated commands keeps both; the violating runs show the paths
by which the confirmation gate and the reclassification by `Run` break them. `TerminalNeverRuns`
likewise holds in `engine_start` and is violated in `engine_terminal`.

### Bounds

- **Engine.** Two jobs, three for the registry. Every hazard listed for the engine is a race of
  two requests, or of one request with a resolver, a close, a collection or the shutdown. Each
  pool and agent limit of `engine_start` is 1, so the second request is already at the limit; the
  registry needs a third job so that one is evicted while another is promised a place. One
  session where commands contend for the shell, two where they contend for the agent's quota, three
  with another agent on the third where they contend for the pools. Faults are split over the runs:
  each appears in at least one, with the requests it can hurt; collection runs in `engine_registry`, which
  is about the registry. Nothing else is bounded. Symmetry is declared over jobs, whose identities nothing
  distinguishes, and in `engine_registry` over its two sessions, which have one owner and the same
  requests; only in runs without liveness.
- **Shell.** Two commands, so that one can get what was meant for the other; two connections, so
  that bytes can cross a reconnection; `MaxAttempts` 1, or 2 in `shell_live`, so that a retry can
  fail and be repeated; one answer and one signal, to the first command.
- **Credentials.** Two handlers and two secrets under one name, so that one is replaced while the other
  is in use; `AttemptLimit` 2, `LiteralCap` 1 and `MaxServers` 1, so that each limit is reached;
  `MaxSaveFaults` 1 and `MaxRestarts` 1.
- **Missions.** Two ids and `MaxMissions` 1, so that pruning happens; three calls, so that two race
  before a third sees the result; two sessions for one resumption; `MaxWriteFaults` 1.
- **Audit log.** `PerSegment` 2, `MaxSegments` 1 and `MaxRecords` 7 give three rotations and two
  removals by retention; `MaxAuditCrashes` 2, so that a recovery can be interrupted;
  `MaxAuditFaults` 2. `TornTails` is `{"cut"}`: see the last section for `"unterminated"`.
- **Registry file.** Three jobs, `MaxInMemory` 2 and `MaxPersisted` 3: collection happens and the cap is
  reached, but recovered jobs do not fill it, which is what `registry_history` is about
  (`MaxInMemory` 1, `MaxPersisted` 2, two crashes). `MaxRegCrashes` 1, `MaxRegFaults` 1.
- **Snapshots.** Two snapshots, `MaxVersion` 3, `MaxMishaps` 1: with two, a failed roll back loses the
  path's tree to the backup (see below), so the bound is the code's own promise.
- **Output.** `Cap` 4, `MinCapacity` 2, `PageLimit` 3, runes of `Widths` 1 and 2, `MaxBytes` 5: the ring
  grows once, wraps, and drops a rune whose second byte falls on the boundary; a page splits the
  output at every offset.
- **Recipes, plugins, fleet.** Two steps; one plugin, whose file alone its calls look at, two calls,
  `CallSlots` 1, `MaxBuilds` 3 (the pinned one and two that take its place, in any order and any number of times); two runs on two servers with `Parallelism` 2, so that both
  kinds of slots fill.
- **Bus.** One sink, one browser, `RingCap`, `ReplayMax` and `Buffer` 2, `MaxEvents` 4: ring, replay and
  channel each overflow.
- **Sessions, forwards.** Three sessions and three calls of one owner with limits of 2; two forwards,
  calls and connections with `MaxForwards` 2, `MaxPerOwner` 1 and `MaxConnections` 1: each limit is
  reached with a reservation outstanding.

`daemon` begins interchangeable calls in a fixed order (`CallsInOrder`, `ShellsInOrder`, `RunsInOrder`)
where a symmetry set would not fit the eleven components at once; what the calls then do
interleaves freely.

Deadlock is checked in every engine run: `AtRest` is the one state in which the daemon may stop. The
other instances stop when their bounded requests, crashes and events are used up, and their
configurations say `CHECK_DEADLOCK FALSE`.

### Fairness and liveness

`JobEngine`'s `FairSpec` adds `WF_vars(Owed)`. `Owed` is a step of a goroutine that holds work, the
firing of an armed timer, the end of file that the reader of a killed shell sees, or the return
of `Shutdown` when what it waits for is done: the Go scheduler and runtime timers give exactly that. No request, human answer, completion of a
command, exit of a shell that nobody killed, collection or decision to shut down is owed. A single weak-fairness condition
over the disjunction is weaker than one per action, and enough because each call has finitely many
steps. `closed ~> drained` therefore shows that shutdown needs nobody's help: it kills the shells
whose commands it waits for. `s \in dead ~> s \in reaped` shows that the window of `terminate` closes,
whoever opened it.

`ShellSession`'s `Fairness` is weak fairness of the reader, of a close that began, of `newSessionConn` and
the init line of a connection, of each writer (which completes or reaches its time limit, not
necessarily the former), and of the shell, which while it is alive works off its input and finishes
its command. That last part is an assumption about the command, not about the code: the run is about
commands that do end. Nobody owes a start, an answer, a signal, a close or a drop, and the bytes of a
write may block for ever. `EveryCommandSettles` then shows that the session notices: whatever the
transport does, a started command gets its end, from its marker, its failed write or its session.

## Proofs

Every theorem holds for every value of the constants that meets the named assumptions: any
limits, any number of faults where the module counts them, and sets that may be infinite unless a
theorem says otherwise. The hypotheses in the second column are those a theorem adds to the assumptions of
its module.

| module | theorem | hypothesis | statement | inductive invariant |
|---|---|---|---|---|
| `JobEngine_proofs` | `Safety`, `TypeCorrect` | | `Spec => []SafetyInv`, `[]TypeOK` | `SafetyInv` |
| | `ShellExclusive` | | `Spec => []OneCommandPerShell` | `SafetyInv` |
| | `Recorded` | | `Spec => []NothingRunsUnrecorded` | `SafetyInv` |
| | `SingleVerdict` | | `Spec => []OneVerdict` | `SafetyInv` |
| | `RegistryKept` | | `Spec => []RegistryBounded` | `RegistryInv` |
| | `LedgerKept` | | `Spec => []ReservationsExact` | `LedgerInv` |
| | `OffersStand` | | `Spec => []PendingIsActionable` | `HandedInv`, `OfferInv` |
| | `EventsInOrder` | | `Spec => StartedBeforeFinished` | `WatchInv` per job |
| | `ForegroundKept` | | `Spec => []ForegroundPoolBounded` | `PoolInv` per job, `ForegroundInv` |
| | `TerminalIsOver` | `Ungated \/ QuietAudit` | `Spec => []TerminalNeverRuns` | `FatesInv` |
| | `RefusalStands` | `Ungated` | `Spec => []RefusedNeverRuns` | `FatesInv` |
| | `ListingKept` | `Ungated`, or `QuietAudit` and no `registry` fault | `Spec => []RunningIsListed` | `FatesInv`, `ListInv` per job |
| | `DrainSilences` | | `Spec => []DrainLeavesNoCommand` | `DrainInv` |
| | `DrainRecordsEnds` | | `Spec => []DrainLosesNoFinish` | `DrainInv` |
| | `BackgroundKept` | `NoGatedRun` | `Spec => []BackgroundPoolBounded` | `BackInv` per job, `BackgroundInv` |
| | `AgentQuotaKept` | `Ungated` | `Spec => []AgentQuotaRespected` | `AgentInv` |
| | `QuotasKept` | `Ungated` | `Spec => []QuotasRespected` | the three above |
| `ShellSession_proofs` | `InputIsItsOwn` | | `Spec => []InputStaysWithItsCommand` | `SessionInv` |
| | `OneLineAtATime` | | `Spec => []OneLineOutstanding` | `SessionInv` |
| | `OutputIsAttributed` | | `Spec => []OutputIsItsOwn` | `SessionInv` |
| | `SecretsAreRedacted` | | `Spec => []SecretStaysRedacted` | `SessionInv` |
| | `ResetsAreReported` | | `Spec => []ResetsAllReported` | `SessionInv` |
| `Storage_proofs` | `EvidenceHolds` | | `MissionSpec => []EvidenceIsReal` | `MissionInv` |
| | `SessionsAreHandedOver` | | `MissionSpec => []NoLeakedSession` | `MissionInv` |
| | `EventsFindTheirMission` | | `MissionSpec => []IndexFindsMissions` | `MissionInv` |
| | `FileIsMemory` | | `MissionSpec => []NothingToLose` | `MissionInv` |
| | `FileStaysCurrent` | | `RegistrySpec => []FileIsCurrent` | `RegInv` |
| | `RestoreRecovers` | `MaxMishaps <= 1` | `SnapSpec => []OriginalRecoverable` | `SnapInv` |
| | `AcknowledgedStays` | `Clean` | `AuditSpec => []AckedIsKept` | `AuditInv` |
| | `HealthyLogVerifies` | `Clean` | `AuditSpec => []HealthyVerifies` | `AuditInv` |
| | `LogIsAppendOnly` | `Clean` | `AuditSpec => ImplementsAppendOnlyLog` | `AuditInv` |
| `Services_proofs` | `PoolBounded` | | `FleetSpec => []FleetPoolBounded` | `FleetInv` |
| | `PinnedAnswers` | | `PlugSpec => []AnswerIsPinned` | `PlugInv` |
| | `NothingLeft` | | `RecipeSpec => []RecipeLeavesNothing` | `RecipeInv` |
| | `ThrottleIsKept` | | `CredSpec => []ThrottleHolds` | `CredInv` |
| | `SecretsStayCovered` | | `CredSpec => []SecretsAreCovered` | `CredInv` |
| | `StreamsAreLossless` | | `OutputSpec => []StreamIsLossless` | `StreamInv` |
| `SessionRegistry_proofs` | `DefaultIsShared` | `Parameters` | `Spec => []OneDefaultPerOwner` | `SessInv` |
| | `ShutdownLeavesNothing` | `Parameters` | `Spec => []NoShellOutlivesShutdown` | `SessInv`, `PlacesHeld` |
| `EventBus_proofs` | `SinksHear` | `Parameters` | `Spec => []SinksHearAll` | `BusInv` |
| | `StreamsMissNothing` | `Parameters` | `Spec => []StreamMissesNothing` | `BusInv` |
| `Forwards_proofs` | `TunnelsAreClosed` | `Parameters` | `Spec => []NoTunnelOutlivesShutdown` | `FwdInv` |
| `Daemon_proofs` | `EventsAreHeard` | | `Spec => []PublishedIsHeard` | by the parts |
| | `DefaultsAreShared` | `NamesAreNames` | `Spec => []OneDefaultPerOwner` | by the parts |
| | `ShutdownIsComplete` | `NamesAreNames` | `Spec => []NothingOutlivesShutdown` | by the parts |
| | `StoresStaySound` | `Clean`, `MaxMishaps <= 1` | `Spec => []StoresAreSound` | by the parts |

With these, every safety property and the action property of a passing run is a theorem, under a hypothesis
where the code breaks it otherwise. The hypotheses are of three kinds:

- *What the code does not promise, or gets wrong.* `Ungated` (no request waits for a human), `QuietAudit` (no
  audit or mission fault) and `NoGatedRun` (no `Run` of a command that waits for a human) exclude exactly the paths
  that `engine_terminal`, `engine_background`, `engine_agent_quota` and the two paths of `registerPending` at
  `manager.go:951` and `957` show to fail. They restrict requests and faults, never interleavings. `Clean` says
  that a write is not torn exactly before its newline, and `MaxMishaps <= 1` is the roll back's own
  promise (see [below](#where-the-code-and-its-comments-disagree) for both).
- *Limits* (`Parameters` of the bus: a ring holds an event).
- *Names* (`NamesAreNames`, and the other `Parameters`): "no session" is not a session, and the calls can be
  counted.

**The engine.** None of its safety properties is inductive. `OneVerdict` speaks of the trail and of
`exec`; to keep it, a `Withdraw` must know that no approval of the same job is under way, which
only the resolver's exclusive hold on the confirmation gives. `NothingRunsUnrecorded` must know,
when a line is sent, that the intent or approval was recorded several steps before.
`OneCommandPerShell` must know that `startJob` is called once per job, and that a session closed in the
middle of a write takes no other line. `SafetyInv` adds these facts, per job: `PathInv` (a request follows the path of its gate; only a gated one is pending or
resolved), `OneExecInv`, `ShellInv`, `RecordInv` (the record that authorises a command precedes
`startJob`) and `VerdictInv` (the trail agrees with the resolver); and two about the session: `LoneInv` (one line on
its way to a shell or there) and `DeadInv` (a closed session whose shell lives is being closed by
somebody: `Dying`).

The proof of `SafetyNext` takes one action at a time. An action works on one job `k`; the lemma
`UndisturbedKeeps` shows that every job whose own variables did not change, and whose shell did not
lose its current job, keeps `JobInv`, so that only `k` needs thought. `PublishEffect` and
`PublishKeeps` summarise the branches of `Publish` (the trail only grows, only at `k`, only by the
event published), `AttachEffect`, `TerminateEffect`, `ReserveEffect`, `RoomyEffect` and
`FinalizedEffect` do the same for the other shared operators, and are cited instead of their
definitions.

**The engine's ledger.** Jobs, sessions and agents need not be finite sets: the registry and the sets
of holders are finite because they start empty and gain one member at a time, and the invariants
say so. `RegistryInv` needs `RoomMade`: evicting one job makes room for one, but only if the
promises already given fit beside the rest. `LedgerInv` says that each counter is the
number of calls that stand between taking and returning it (`HeldBy`, `Starting`, `ApprovingIn`), so a
counter that leaks or is returned twice on any error path breaks it; each action adds or
removes at most one holder, which `OneMore` and `OneLess` turn into arithmetic. `OffersStand` needs
`HandedInv`, which ties what a shell holds or has just given up to a job that was handed to `startJob`, and
so is no longer on offer, to show that a marker, an exit or a close never ends a job on offer. `WatchInv` says that
a watcher waits until its job was announced. `ForegroundInv` is kept by a set of counted jobs that
grows by one only when `activeForeground` was below the limit, at the start or the approval;
`PoolInv` is the per-job part. `BackgroundInv` is the same for the other pool, with `BackInv`: a job is
reclassified by its own start, or by `Run` when its call is over. `AgentInv` counts, for each agent, its running jobs
together with the starts that hold a reservation: only then does a registration leave the number as it was.

**The engine's commands.** `FatesInv` says where a command is for each value of its job's status. `FateInv`: a
running job was handed to `startJob`; while a command is on the shell of an open session, or about to be, its
status is not terminal and the call that started it has not answered with an error; a shell whose write failed
has it only if its session was closed. With `DeadInv` a command in `Running` is on an open session. `SeatInv`: what a session calls current asked for that session. `CalmInv`: under `QuietAudit` the
log stays healthy, so that the publication of a gated job's question cannot fail. `ListInv` adds that
a job with a watcher stays in the registry while its command runs: eviction and collection take finished
jobs only, and what the error paths remove no shell has.
`DrainInv` has `DownInv` (after `Shutdown` no session and no confirmation is listed, and a session whose shell
was not killed is listed or being closed by somebody), `WatchInv`, and `ReportInv` (an announced job has a
watcher, and a watcher that is done left the job's end on record unless the log failed), so that `Drain`,
which waits for the watchers and for the closes of `Shutdown`, loses nothing.

**The shell.** `SessionInv` has nine parts. `WriterInv`: a write that began holds `writeMu`, unless it was
abandoned, and then the transport is closed. `LineInv`: the command that the shell has yet to
complete has its line on the way, runs, or has its end marker on the way back; there is at most one, it is
the session's current job while the session is open, and a line is only written when there is none.
`LinkInv` and `CurrentInv`: a dead or replaced connection carries nothing, and the current job's line went to
the present one. `InputInv`: an answer on its way was written on the present connection, and only its own
command runs or is ahead of it. `OutputInv`: from a begin marker to the end marker after it everything was
printed by that command. `SecretInv`: a secret is registered from before its delivery until its job is
over, and an echo shown in the clear is one whose delivery was reported as failed.

**The stores.** *Missions.* `MissionInv` relates what is held outside `Service.mu`, the copies in the calls
under way (`CallInv`, `CopyInv`), to memory and file, and keeps the ids and sessions of different calls
apart (`Apart`, `Unheld`, `Owned`): a roll back then restores exactly its own change. *Registry file.*
`RegInv`: when no call of `persist` is owed, the snapshots about to be written are current, and so is the
file once the last was written with success. *Snapshots.* `Tree` says
where the complete tree is at each step; the mishap budget enters because the roll back and the
removal of the backup are only safe while the other did not fail.

*Audit log.* `AuditInv` says that there is one sequence, `log`, of all lines ever written, and relates the
files to it. `Placed`: what retention removed, the sealed segments and the active file are consecutive
pieces of it. `Linked`: each line is the record that continues the chain, except that the last may be one
cut short, and then the log is not healthy. `Committed`: the checkpoint names the last record before the beginning
of some file. `Remembered`: a logger that may append knows the last record. `AckedInv`: what was
acknowledged is within the part that is synced. The lemmas about each file operation show that it moves the
cuts or adds a line; `Moved` says that the lines that survive a crash stay or gain one, which is a step of
`AppendOnlyLog` or a stutter under the mapping `log <- Records(Durable)`. `Clean` is needed because after
an unterminated record the next `Append` destroys one. What the mapping computes, a concatenation of any
number of segments, is recursive; the library's induction rule is out of the provers' reach, and the lemma
`FirstNumber` (a set of numbers has a least member, from the library's theorem that `<` is well founded)
replaces it: were a statement false of some number of segments, it would be false first of one.

**The services.** *Fleet.* `runTokens` is the number of goroutines that hold a slot, counted over the finite product of
runs and servers (`FleetAssumption`). *Plugins.* What ran while the path was
being watched was the pinned version, or the path holds another one by now (`LoaderInv`, `CallInv`): once
away from the pinned version it comes back only by a replacement that the history `putBack` records. *Recipes.*
`Apart`: whoever holds a step, be it an approval, a marker or a close, holds it alone. `Seated`: the session's current
job is running, except under the error of a `Start` overtaken by an approval. `Progress`: the steps before the
current one succeeded, those after it do not exist, and once the run is past its last step that one is settled.
*Credentials.* `Attempts`: only the holder of `unlockMu` tries a passphrase, so `tried` equals `failed`.
`Coverage`: a value the vault holds and the redactor does not know is in the hands of an unlock in
flight, or of the handler that is about to register it. *Output.* `StreamInv` says what a ring holds: byte
`i` of it is the byte at offset `discarded + i` of all that was printed, the first is the beginning of a rune (`BufferInv`), and a
reader's cursor is the beginning of a rune, not beyond what was printed (`ReaderInv`).
`OutputAssumption` asks that a rune fits into a page and into the buffer.

**Sessions, bus and forwards.** A default belongs to its owner, and the owner's lock is held by whoever
creates one; a place reserved belongs to a call between its reservation and its registration
(`PlacesHeld`, in both modules). `BusInv` follows an accepted event to each browser: it is known, in the part of the
replay not yet sent, in the channel, or still to be fanned out (`OnItsWay`), unless the browser was
told of a gap; the ring is increasing, and what left it is older than what is in it (`RingInv`). `FwdInv` says
where a tunnel that is not closed is: listed, being torn down, or with the request that dialled it
(`Reachable`), and that a connection's sockets are tracked by its tunnel or among those it is about to close (`Piped`).

**The daemon.** `MCDaemon` composes the components for TLC and its theorems compose theirs: a behaviour of
the composition is one of every part (`MissionPart`, `RegistryPart`, ...: the steps of the others leave its
variables alone), so each part's theorem applies. The bus, the sessions and the forwards are
instances there, with the sets and limits of the run; the other parts keep their constants.

Only model-checked:

- liveness under fairness, `ConfirmationsSettle`, `ShutdownCompletes` and `EveryCommandSettles`, which TLAPS
  cannot prove;
- what the five violating runs state: TLC shows that the code breaks it.

## Where the code and its comments disagree

- `engine_agent_quota`. `registerPending` (`manager.go:935`) and `resolveConfirm`
  (`manager.go:973`) compare the agent's quota with live jobs and ignore `reservedByAgent`. A
  confirmation parked, or approved, while an ordinary start of the same agent has only its
  reservation makes both run under a quota of one. The comments at `manager.go:639` and `700` call
  the enforcement race-free and the reservation authoritative; the function `registerWithQuota` they
  name no longer exists.
- `engine_terminal`. A parked command can be approved before `confirm.requested` is published. If
  that publication fails, `enqueueConfirm` (`manager.go:896`) marks the job failed without
  looking, while its shell runs the command. `status.go:18`: "the job will never run again".
- `engine_background`. `Run`'s `markBackgroundWithinQuota` (`manager.go:577`) can reclassify a
  job that an approval still keeps in `reservedQuotaJobs`. The background count then misses it until
  the approval's reservation is released, and another background job passes the check.
- `registry_history`. `persist` (`persist.go:115`) lists the live jobs before the recovered ones and keeps
  the last `maxPersistedJobs` entries. Once recovered jobs fill the cap, every live job is dropped from
  the file, and after a crash it is not found instead of being `orphaned` (`persist.go:16`).
- `audit_recovery`. `rotate` renames the active file and then creates the next. When the daemon dies in
  between, `Open` (`audit.go:151`) finds sealed segments without an active file and refuses, so the
  daemon does not start, although `audit.go:115` says it recovers and continues across restarts.

Seen while modelling, and not stated as runs of their own:

- Engine. `registerPending`'s second look (`manager.go:957`) reports "engine manager is shut down" to an
  agent whose command was approved in the meantime and is running; `RefusedNeverRuns` is therefore
  claimed of ungated requests. `enqueueConfirm`'s error (`manager.go:896`) can come as late. A recipe counts
  such a step as failed and returns (`recipe.go:103`) while it runs: the exception of `RecipeLeavesNothing`.
  `terminate` (`session.go:599-602`) ends the job before it kills the shell, so for a moment a command
  that is final, collected, or refused because its session was closed under the write, still runs; a
  recipe that gave up a step may return in that moment when somebody else is closing the session. A failed registry write (`manager.go:951`) removes the job of a
  confirmation that may already be approved, and a running command is then listed nowhere. `Shutdown`
  does not wait for a `CloseSession` that has already taken its session; `DrainLeavesNoCommand` states
  that exception. `PollWait` may answer "not found" for a job that finished while it waited and was
  collected. A session whose shell exited keeps its place and can stay a default (`session.go:232`).
- Shell. `Signal` (`manager.go:1563`) checks that its job is current, unlocks and signals: the next
  command may receive it. `SignalHitsOnlyItsCommand` states what does not hold.
- Output. `Poll` (`manager.go:1343`) reads whether output is held and then the page in another critical
  section: `HeldIsWithheld` does not hold. Output that was held when the job ended stays withheld
  (`job.go:100`).
- Credentials. A server refused after its credential was stored leaves the credential overwritten
  (`server.go:502`, `RefusedAddChangesNothing`), and removing a server deletes a credential another
  server may name. `RelockIfIdle` may lock a vault that was unlocked between its check and its lock
  (`vault.go:148`, `UnlockSticks`). `Unlock` reads the file before it takes `Vault.mu`: an entry set in
  between is not in memory, and the next save drops it. A save that fails leaves memory ahead of
  the file. The health check reads the vault every 30 seconds and so defeats the idle relock; it also
  caches a status for servers that were removed meanwhile.
- Missions. An `Update` that is rolled back restores a copy taken before its unlock (`service.go:352`).
  When another `Create` pruned that mission meanwhile, the store holds one more than `load` accepts and
  the daemon does not start (`StoreLoadable`; `docs/SECURITY.md:92`).
- Audit. A write torn exactly before its newline (`TornTails = {"unterminated"}`) leaves a complete
  record that recovery accepts; the next record is appended to the same line, and neither is readable
  afterwards.
- Registry. An error of `EnablePersistence` is only logged (`daemon.go:143`), and the next save
  replaces the file it could not read.
- Bus. A browser that asks without a cursor gets the latest 50 events and no gap flag, and after a
  restart an old cursor is not recognised as one (`server.go:1759`).
- Plugins. The checks around a process (`plugin.go:121-179`, `231-257`) compare inode and digest before and
  after it: a pinned file that is renamed away and back in between is not noticed, and another
  executable has answered. `docs/SECURITY.md` claims no more than the detection of stable replacements;
  `AnswerIsPinned` excepts exactly these loads and calls. A call that is still being admitted when `shutdownServices` removes the sink runs without the
  record of its start (`CallsAreRecorded`).
- Snapshots. With a second mishap a failed roll back leaves the tree in the backup, which the next
  restore removes; concurrent restores of one source share their temporary paths.
- Start-up. A second daemon opens and recovers the registry, the audit log and the missions in `New`
  (`daemon.go:214`) before `Run` takes the lock that refuses it.

## What is not modelled

`PROJECT.json` gives the status of every component and the reason.

- **Text processing**: policy patterns (only their verdicts are used), the cleaner's terminal escapes and the
  redactor's patterns (its literals and the withholding of unterminated lines are modelled), heuristics
  for background commands and prompts, agents' statistics. They are pure functions of strings.
- **Adapters**: the MCP server, the command line, the terminal UI and the dashboard decode, call one
  operation and format. Of the control plane, the handlers that do more are modelled.
- **Network and operating system**: dialling, host keys and SFTP; the lock file, listeners and
  tickers of start-up; notifications and self-update. Two daemons on one directory are not modelled:
  every module assumes that the lock did its work.
- **Files**: `file_read` and `file_write` are single file-system calls behind a path check.
  Concurrent restores of one source are not modelled.
- **The runtime reaper** (`ReapOnce`) is a `Kill` from a ticker and has no action of its own.
