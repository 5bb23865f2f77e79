--------------------------------- MODULE Fleet ---------------------------------
(***************************************************************************)
(* Fleet runs: one command on many servers.  A run of an agent passes the  *)
(* policy and must be recorded before it starts; the health check runs a   *)
(* command of its own.  Every run has a semaphore of its own and shares    *)
(* the manager's: a loop takes a slot of each and starts a goroutine, the  *)
(* goroutine gives them back in the other order of its defers, and the run *)
(* answers when the last goroutine is done.                                *)
(*                                                                         *)
(* Validation, output bounds, redaction and the order of the results are   *)
(* left out; what a server answers is its status only.                     *)
(***************************************************************************)
EXTENDS Naturals, FiniteSets

CONSTANTS
    FleetRuns,     \* calls of Manager.Run
    Servers,
    Parallelism    \* Manager.parallelism

ASSUME FleetAssumption ==
    /\ Parallelism \in Nat \ {0}
    /\ IsFiniteSet(FleetRuns) /\ IsFiniteSet(Servers)

VARIABLES
    inventory,      \* Manager.servers
    health,         \* Manager.status: servers with a cached status
    fleetAt,        \* where each run is
    asker,          \* who asked: "agent" or "health"
    targets,        \* servers selected and not started yet
    limit,          \* capacity of the run's requestSlots
    requestTokens,  \* len(requestSlots) of each run
    runTokens,      \* len(runSlots)
    work,           \* each goroutine: "none", "running", "leaving" (its request slot is back) or its result
    verdict,        \* the run's status; "" before
    recorded        \* runs whose fleet_started event the audit log took

fleetRunVars == <<inventory, health, fleetAt, asker, targets, limit, requestTokens, runTokens, work, verdict, recorded>>
slots == <<limit, requestTokens, runTokens>>

Results == {"ok", "error"}
FleetSteps == {"idle", "record", "select", "request", "manager", "wait", "finish", "done"}

FleetInit ==
    /\ inventory = Servers /\ health = {}
    /\ fleetAt = [r \in FleetRuns |-> "idle"]
    /\ asker = [r \in FleetRuns |-> "agent"]
    /\ targets = [r \in FleetRuns |-> {}]
    /\ limit = [r \in FleetRuns |-> 0]
    /\ requestTokens = [r \in FleetRuns |-> 0] /\ runTokens = 0
    /\ work = [r \in FleetRuns |-> [s \in Servers |-> "none"]]
    /\ verdict = [r \in FleetRuns |-> ""]
    /\ recorded = {}

FleetGoes(r, at) == fleetAt' = [fleetAt EXCEPT ![r] = at]

-----------------------------------------------------------------------------
(* hFleetRun before the run, and the health check's own call.              *)

\* A command the policy denies, or wants confirmed, is refused.
GateFleet(r) ==
    /\ fleetAt[r] = "idle"
    /\ \/ asker' = [asker EXCEPT ![r] = "agent"] /\ FleetGoes(r, "record")
       \/ asker' = [asker EXCEPT ![r] = "agent"] /\ FleetGoes(r, "done")
       \/ asker' = [asker EXCEPT ![r] = "health"] /\ FleetGoes(r, "select")
    /\ UNCHANGED <<inventory, health, targets, slots, work, verdict, recorded>>

\* Without the record there is no run.
RecordFleet(r) ==
    /\ fleetAt[r] = "record"
    /\ \/ recorded' = recorded \cup {r} /\ FleetGoes(r, "select")
       \/ UNCHANGED recorded /\ FleetGoes(r, "done")
    /\ UNCHANGED <<inventory, health, asker, targets, slots, work, verdict>>

\* The servers that match now; a run may ask for less concurrency, not more.
SelectServers(r) ==
    /\ fleetAt[r] = "select"
    /\ \E chosen \in SUBSET inventory, asked \in 1..Parallelism :
         IF chosen = {}
           THEN FleetGoes(r, "done") /\ UNCHANGED <<targets, limit>>
           ELSE /\ targets' = [targets EXCEPT ![r] = chosen]
                /\ limit' = [limit EXCEPT ![r] = IF asked > Cardinality(chosen) THEN Cardinality(chosen) ELSE asked]
                /\ FleetGoes(r, "request")
    /\ UNCHANGED <<inventory, health, asker, requestTokens, runTokens, work, verdict, recorded>>

-----------------------------------------------------------------------------
(* The loop and its goroutines.                                            *)

TakeRequestSlot(r) ==
    /\ fleetAt[r] = "request"
    /\ requestTokens[r] < limit[r]
    /\ requestTokens' = [requestTokens EXCEPT ![r] = @ + 1]
    /\ FleetGoes(r, "manager")
    /\ UNCHANGED <<inventory, health, asker, targets, limit, runTokens, work, verdict, recorded>>

\* Mutant: every run has a semaphore of its own and no other.
Launch_OwnLimit(r, s) ==
    /\ fleetAt[r] = "manager" /\ s \in targets[r]
    /\ runTokens' = runTokens + 1
    /\ work' = [work EXCEPT ![r][s] = "running"]
    /\ targets' = [targets EXCEPT ![r] = @ \ {s}]
    /\ FleetGoes(r, IF targets[r] = {s} THEN "wait" ELSE "request")
    /\ UNCHANGED <<inventory, health, asker, limit, requestTokens, verdict, recorded>>

\* The manager's slot, and the goroutine of the next server with it.
Launch(r, s) ==
    /\ fleetAt[r] = "manager" /\ s \in targets[r]
    /\ runTokens < Parallelism
    /\ runTokens' = runTokens + 1
    /\ work' = [work EXCEPT ![r][s] = "running"]
    /\ targets' = [targets EXCEPT ![r] = @ \ {s}]
    /\ FleetGoes(r, IF targets[r] = {s} THEN "wait" ELSE "request")
    /\ UNCHANGED <<inventory, health, asker, limit, requestTokens, verdict, recorded>>

\* The runner answered: the first defer gives the request's slot back.
CommandReturns(r, s) ==
    /\ work[r][s] = "running"
    /\ work' = [work EXCEPT ![r][s] = "leaving"]
    /\ requestTokens' = [requestTokens EXCEPT ![r] = @ - 1]
    /\ UNCHANGED <<inventory, health, fleetAt, asker, targets, limit, runTokens, verdict, recorded>>

\* The second gives the manager's back, and the goroutine is done.
LeaveSlot(r, s) ==
    /\ work[r][s] = "leaving"
    /\ \E result \in Results : work' = [work EXCEPT ![r][s] = result]
    /\ runTokens' = runTokens - 1
    /\ UNCHANGED <<inventory, health, fleetAt, asker, targets, limit, requestTokens, verdict, recorded>>

Asked(r) == {s \in Servers : work[r][s] # "none"}
Succeeded(r) == {s \in Servers : work[r][s] = "ok"}

\* wg.Wait returns; the verdict counts the successes.
Aggregate(r) ==
    /\ fleetAt[r] = "wait"
    /\ \A s \in Asked(r) : work[r][s] \in Results
    /\ verdict' = [verdict EXCEPT ![r] =
         IF Succeeded(r) = {} THEN "failed" ELSE IF Succeeded(r) = Asked(r) THEN "ok" ELSE "partial"]
    /\ FleetGoes(r, "finish")
    /\ UNCHANGED <<inventory, health, asker, targets, slots, work, recorded>>

\* HealthCheck caches what it learnt, of servers removed meanwhile too.
FinishFleet(r) ==
    /\ fleetAt[r] = "finish"
    /\ health' = IF asker[r] = "health" THEN health \cup Asked(r) ELSE health
    /\ FleetGoes(r, "done")
    /\ UNCHANGED <<inventory, asker, targets, slots, work, verdict, recorded>>

\* AddServer, RemoveServer and SetServers replace the inventory under runs.
ChangeInventory ==
    /\ inventory' \in SUBSET Servers /\ inventory' # inventory
    /\ UNCHANGED <<health, fleetAt, asker, targets, slots, work, verdict, recorded>>

FleetNext ==
    \/ \E r \in FleetRuns :
         \/ GateFleet(r) \/ RecordFleet(r) \/ SelectServers(r) \/ TakeRequestSlot(r)
         \/ Aggregate(r) \/ FinishFleet(r)
         \/ \E s \in Servers : Launch(r, s) \/ CommandReturns(r, s) \/ LeaveSlot(r, s)
    \/ ChangeInventory

FleetSpec == FleetInit /\ [][FleetNext]_fleetRunVars

-----------------------------------------------------------------------------
Dialling(r) == {s \in Servers : work[r][s] \in {"running", "leaving"}}
OnServers == {p \in FleetRuns \X Servers : work[p[1]][p[2]] \in {"running", "leaving"}}

\* However many runs overlap, never more commands are on servers at once than
\* the manager's ceiling, and none of an agent's that was not recorded; and a
\* run waits for a slot of the manager only while commands that will give one
\* back hold them all: no slot is lost (Run's two semaphores).
FleetPoolBounded ==
    /\ Cardinality(OnServers) <= Parallelism
    /\ \A r \in FleetRuns : asker[r] = "agent" /\ Dialling(r) # {} => r \in recorded
    /\ runTokens = Cardinality(OnServers)
================================================================================
