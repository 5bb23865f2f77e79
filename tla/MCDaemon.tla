------------------------------- MODULE MCDaemon -------------------------------
(***************************************************************************)
(* The parts of the daemon that share no state with one another: what it   *)
(* keeps on disk (missions, the audit log, the job registry, snapshots)    *)
(* and what it runs beside the shell sessions (output streams, recipes,    *)
(* plugins, fleet runs, the event bus with its browsers, the session       *)
(* registry, port forwards).  Each behaviour is one of a single part,      *)
(* picked at the start: what would only interleave independently is not    *)
(* multiplied.                                                             *)
(***************************************************************************)
EXTENDS Mission, AuditLog, JobPersistence, Snapshots,
        OutputStream, Recipes, Plugins, Fleet

CONSTANTS m1, m2, c1, c2, c3, p1, s1, s2, s3, j1, j2, j3, b1, o1,
          f1, f2, h1, h2, r1, r2, v1, v2, NoCall, NoOwner, NoFwd

VARIABLES
    part,
    nextSeq, publishing, todo, ring, busSink, heard, since, accepted, stream, chan, known, lossy,
    registered, places, defaults, defaultMu, closed, shell, owner, closing, caller,
    fwds, reserved, fmClosed, mgrClosed, fwdOwner, tunnel, doomed, tearing, request, conn

eventVars   == <<nextSeq, publishing, todo, ring, busSink, heard, since, accepted, stream, chan, known, lossy>>
sessionVars == <<registered, places, defaults, defaultMu, closed, shell, owner, closing, caller>>
forwardVars == <<fwds, reserved, fmClosed, mgrClosed, fwdOwner, tunnel, doomed, tearing, request, conn>>

Bus == INSTANCE EventBus WITH
    Sinks <- {c1}, Streams <- {b1}, RingCap <- 2, ReplayMax <- 2, Buffer <- 2, MaxEvents <- 4,
    sink <- busSink

Shells == INSTANCE SessionRegistry WITH
    Sess <- {s1, s2, s3}, Owners <- {o1}, Calls <- {c1, c2, c3}, MaxSessions <- 2, MaxPerOwner <- 2,
    sessions <- registered, reserved <- places, call <- caller

Tunnels == INSTANCE Forwards WITH
    Fwds <- {f1, f2}, Owners <- {o1}, Calls <- {c1, c2}, Conns <- {h1, h2},
    MaxForwards <- 2, MaxPerOwner <- 1, MaxConnections <- 1

diskVars == <<missionVars, auditVars, regVars, snapVars>>
workVars == <<outVars, recipeVars, plugVars, fleetRunVars>>
instVars == <<eventVars, sessionVars, forwardVars>>
allVars  == <<part, diskVars, workVars, instVars>>

Init ==
    /\ part \in {"missions", "audit", "registry", "snapshots",
                 "recipes", "plugins", "fleet", "output", "events", "sessions", "forwards"}
    /\ MissionInit /\ AuditInit /\ RegistryInit /\ SnapInit
    /\ RecipeInit /\ PlugInit /\ FleetInit
    /\ Bus!Init /\ Shells!Init /\ Tunnels!Init
    /\ OutputInit
    \* The choices of other parts' initial states multiply nothing.
    /\ part # "output" => who = "job" /\ text = CHOOSE t \in Texts : TRUE
    /\ part # "recipes" => adHoc

\* Interchangeable requests begin in a fixed order.
After(first, second) == second # "idle" => first # "idle"
CallsInOrder  == After(call'[c1].at, call'[c2].at) /\ After(call'[c2].at, call'[c3].at)
ShellsInOrder == After(caller'[c1].at, caller'[c2].at) /\ After(caller'[c2].at, caller'[c3].at)
RunsInOrder   == After(fleetAt'[r1], fleetAt'[r2])

Next ==
    /\ UNCHANGED part
    /\ \/ /\ part = "missions" /\ MissionNext /\ CallsInOrder
          /\ UNCHANGED <<auditVars, regVars, snapVars, workVars, instVars>>
       \/ /\ part = "audit" /\ AuditNext
          /\ UNCHANGED <<missionVars, regVars, snapVars, workVars, instVars>>
       \/ /\ part = "registry" /\ RegistryNext
          /\ UNCHANGED <<missionVars, auditVars, snapVars, workVars, instVars>>
       \/ /\ part = "snapshots" /\ SnapNext
          /\ UNCHANGED <<missionVars, auditVars, regVars, workVars, instVars>>
       \/ /\ part = "output" /\ OutputNext
          /\ UNCHANGED <<diskVars, recipeVars, plugVars, fleetRunVars, instVars>>
       \/ /\ part = "recipes" /\ RecipeNext
          /\ UNCHANGED <<diskVars, outVars, plugVars, fleetRunVars, instVars>>
       \/ /\ part = "plugins" /\ PlugNext
          /\ UNCHANGED <<diskVars, outVars, recipeVars, fleetRunVars, instVars>>
       \/ /\ part = "fleet" /\ FleetNext /\ RunsInOrder
          /\ UNCHANGED <<diskVars, outVars, recipeVars, plugVars, instVars>>
       \/ /\ part = "events" /\ Bus!Next
          /\ UNCHANGED <<diskVars, workVars, sessionVars, forwardVars>>
       \/ /\ part = "sessions" /\ Shells!Next /\ ShellsInOrder
          /\ UNCHANGED <<diskVars, workVars, eventVars, forwardVars>>
       \/ /\ part = "forwards" /\ Tunnels!Next
          /\ UNCHANGED <<diskVars, workVars, eventVars, sessionVars>>

Spec == Init /\ [][Next]_allVars

\* Every published event reaches each reliable sink in order, up to its
\* cancellation, and a browser that loses none of its stream, nor was told of a
\* gap, knows every event: publishing races subscription, replay and both ends
\* of a stream (Bus.Publish, SubscribeReliable, hEvents).
PublishedIsHeard == Bus!SinksHearAll /\ Bus!StreamMissesNothing

\* An agent without a session gets one default, however many of its calls create
\* it at once (Manager.resolveSession, createSession).
OneDefaultPerOwner == Shells!OneDefaultPerOwner

\* After Shutdown neither a shell that was still dialling nor a tunnel that was
\* still being set up is left open (Manager.Shutdown, forwardManager.Shutdown).
NothingOutlivesShutdown == Shells!NoShellOutlivesShutdown /\ Tunnels!NoTunnelOutlivesShutdown
================================================================================
