----------------------------- MODULE Daemon_proofs -----------------------------
(***************************************************************************)
(* The daemon of MCDaemon keeps what its parts promise: each behaviour of  *)
(* it is one of every part, so that what is proved of a part alone, for    *)
(* every value of its constants, holds of the part as the daemon uses it.  *)
(***************************************************************************)
EXTENDS MCDaemon, Storage_proofs

BusProofs == INSTANCE EventBus_proofs WITH
    Sinks <- {c1}, Streams <- {b1}, RingCap <- 2, ReplayMax <- 2, Buffer <- 2, MaxEvents <- 4,
    sink <- busSink

ShellProofs == INSTANCE SessionRegistry_proofs WITH
    Sess <- {s1, s2, s3}, Owners <- {o1}, Calls <- {c1, c2, c3}, MaxSessions <- 2, MaxPerOwner <- 2,
    sessions <- registered, reserved <- places, call <- caller

TunnelProofs == INSTANCE Forwards_proofs WITH
    Fwds <- {f1, f2}, Owners <- {o1}, Calls <- {c1, c2}, Conns <- {h1, h2},
    MaxForwards <- 2, MaxPerOwner <- 1, MaxConnections <- 1

\* "None" is not the name of a session or of a call.
NamesAreNames == NoSess \notin {s1, s2, s3} /\ NoCall \notin {c1, c2, c3}

-----------------------------------------------------------------------------
(* Every part of the daemon runs as specified.                             *)

LEMMA MissionPart == Spec => MissionSpec
<1>1. Init => MissionInit
  BY DEF Init
<1>2. [Next]_allVars => [MissionNext]_missionVars
  BY DEF Next, allVars, diskVars
<1> QED
  BY <1>1, <1>2, PTL DEF Spec, MissionSpec

LEMMA RegistryPart == Spec => RegistrySpec
<1>1. Init => RegistryInit
  BY DEF Init
<1>2. [Next]_allVars => [RegistryNext]_regVars
  BY DEF Next, allVars, diskVars
<1> QED
  BY <1>1, <1>2, PTL DEF Spec, RegistrySpec

LEMMA SnapshotPart == Spec => SnapSpec
<1>1. Init => SnapInit
  BY DEF Init
<1>2. [Next]_allVars => [SnapNext]_snapVars
  BY DEF Next, allVars, diskVars
<1> QED
  BY <1>1, <1>2, PTL DEF Spec, SnapSpec

LEMMA AuditPart == Spec => AuditSpec
<1>1. Init => AuditInit
  BY DEF Init
<1>2. [Next]_allVars => [AuditNext]_auditVars
  BY DEF Next, allVars, diskVars
<1> QED
  BY <1>1, <1>2, PTL DEF Spec, AuditSpec

LEMMA BusPart == Spec => BusProofs!Spec
<1>1. Init => BusProofs!Init
  BY DEF Init, Bus!Init, Bus!Off, BusProofs!Init, BusProofs!Off
<1>2. [Next]_allVars => [Bus!Next]_eventVars
  BY DEF Next, allVars, instVars
<1>3. Bus!Next => BusProofs!Next
  BY DEF Bus!Next, Bus!PublishBegin, Bus!PublishRefused, Bus!Deliver, Bus!FanOut, Bus!SubscribeReliable,
         Bus!CancelReliable, Bus!Bootstrap, Bus!Subscribe, Bus!Replay, Bus!Resync, Bus!SendReplay, Bus!SendLive,
         Bus!Disconnect, Bus!LastOf, Bus!After, Bus!Gap, Bus!Off, Bus!Learns, Bus!Subscribed, Bus!busOnly, Bus!streamOnly,
         BusProofs!Next, BusProofs!PublishBegin, BusProofs!PublishRefused, BusProofs!Deliver, BusProofs!FanOut,
         BusProofs!SubscribeReliable, BusProofs!CancelReliable, BusProofs!Bootstrap, BusProofs!Subscribe,
         BusProofs!Replay, BusProofs!Resync, BusProofs!SendReplay, BusProofs!SendLive, BusProofs!Disconnect,
         BusProofs!LastOf, BusProofs!After, BusProofs!Gap, BusProofs!Off, BusProofs!Learns, BusProofs!Subscribed,
         BusProofs!busOnly, BusProofs!streamOnly
<1>4. [Next]_allVars => [BusProofs!Next]_(BusProofs!busVars)
  BY <1>2, <1>3 DEF eventVars, BusProofs!busVars
<1> QED
  BY <1>1, <1>4, PTL DEF Spec, BusProofs!Spec

LEMMA ShellPart == Spec => ShellProofs!Spec
<1>1. Init => ShellProofs!Init
  BY DEF Init, Shells!Init, Shells!Idle, ShellProofs!Init, ShellProofs!Idle
<1>2. [Next]_allVars => [Shells!Next]_sessionVars
  BY DEF Next, allVars, instVars
<1>3. ASSUME NEW c \in {c1, c2, c3}, Shells!Reserve(c) PROVE ShellProofs!Reserve(c)
  <2>1. \A o : Shells!Full(o) <=> ShellProofs!Full(o)
    BY DEF Shells!Full, ShellProofs!Full, Shells!Owned, ShellProofs!Owned, Shells!FoldFunction, ShellProofs!FoldFunction,
           Shells!FoldFunctionOnSet, ShellProofs!FoldFunctionOnSet, Shells!MapThenFoldSet, ShellProofs!MapThenFoldSet,
           Shells!Cardinality, ShellProofs!Cardinality
  <2> QED
    BY <1>3, <2>1 DEF Shells!Reserve, ShellProofs!Reserve, Shells!Return, ShellProofs!Return, Shells!Goto, ShellProofs!Goto
<1>4. \A c, o : Shells!CreateBegin(c, o) => ShellProofs!CreateBegin(c, o)
  BY DEF Shells!CreateBegin, Shells!Idle, ShellProofs!CreateBegin, ShellProofs!Idle
<1>5. \A c, o : Shells!DefaultBegin(c, o) => ShellProofs!DefaultBegin(c, o)
  BY DEF Shells!DefaultBegin, Shells!Idle, ShellProofs!DefaultBegin, ShellProofs!Idle
<1>6. \A c, s : Shells!Dial(c, s) => ShellProofs!Dial(c, s)
  BY DEF Shells!Dial, ShellProofs!Dial
<1>7. \A c : Shells!DialFails(c) => ShellProofs!DialFails(c)
  BY DEF Shells!DialFails, Shells!Return, ShellProofs!DialFails, ShellProofs!Return
<1>8. \A c : Shells!Register(c) => ShellProofs!Register(c)
  BY DEF Shells!Register, Shells!Return, Shells!Goto, ShellProofs!Register, ShellProofs!Return, ShellProofs!Goto
<1>9. \A c : Shells!Lookup(c) => ShellProofs!Lookup(c)
  BY DEF Shells!Lookup, Shells!Return, Shells!Goto, ShellProofs!Lookup, ShellProofs!Return, ShellProofs!Goto
<1>10. \A c : Shells!SetDefault(c) => ShellProofs!SetDefault(c)
  BY DEF Shells!SetDefault, Shells!Return, ShellProofs!SetDefault, ShellProofs!Return
<1>11. \A s : Shells!CloseSession(s) => ShellProofs!CloseSession(s)
  BY DEF Shells!CloseSession, ShellProofs!CloseSession
<1>12. \A s : Shells!CloseShell(s) => ShellProofs!CloseShell(s)
  BY DEF Shells!CloseShell, ShellProofs!CloseShell
<1>13. \A s : Shells!ShellExits(s) => ShellProofs!ShellExits(s)
  BY DEF Shells!ShellExits, ShellProofs!ShellExits
<1>14. Shells!Shutdown => ShellProofs!Shutdown
  BY DEF Shells!Shutdown, ShellProofs!Shutdown
<1>15. Shells!Next => ShellProofs!Next
  BY <1>3, <1>4, <1>5, <1>6, <1>7, <1>8, <1>9, <1>10, <1>11, <1>12, <1>13, <1>14 DEF Shells!Next, Shells!Fresh, ShellProofs!Next, ShellProofs!Fresh
<1>16. [Next]_allVars => [ShellProofs!Next]_(ShellProofs!sessVars)
  BY <1>2, <1>15 DEF sessionVars, ShellProofs!sessVars
<1> QED
  BY <1>1, <1>16, PTL DEF Spec, ShellProofs!Spec

LEMMA TunnelPart == Spec => TunnelProofs!Spec
<1>1. Init => TunnelProofs!Init
  BY DEF Init, Tunnels!Init, Tunnels!NoConn, TunnelProofs!Init, TunnelProofs!NoConn
<1>2. [Next]_allVars => [Tunnels!Next]_forwardVars
  BY DEF Next, allVars, instVars
<1>3. ASSUME NEW c \in {c1, c2}, Tunnels!Start(c) PROVE TunnelProofs!Start(c)
  <2>1. \A o : Tunnels!Full(o) <=> TunnelProofs!Full(o)
    BY DEF Tunnels!Full, TunnelProofs!Full, Tunnels!FoldFunction, TunnelProofs!FoldFunction,
           Tunnels!FoldFunctionOnSet, TunnelProofs!FoldFunctionOnSet, Tunnels!MapThenFoldSet, TunnelProofs!MapThenFoldSet,
           Tunnels!Cardinality, TunnelProofs!Cardinality
  <2> QED
    BY <1>3, <2>1 DEF Tunnels!Start, TunnelProofs!Start, Tunnels!Goto, TunnelProofs!Goto
<1>4. \A c, o : Tunnels!PortForward(c, o) => TunnelProofs!PortForward(c, o)
  BY DEF Tunnels!PortForward, TunnelProofs!PortForward
<1>5. \A c, f : Tunnels!OpenForward(c, f) => TunnelProofs!OpenForward(c, f)
  BY DEF Tunnels!OpenForward, TunnelProofs!OpenForward
<1>6. \A c : Tunnels!OpenFails(c) => TunnelProofs!OpenFails(c)
  BY DEF Tunnels!OpenFails, Tunnels!Goto, TunnelProofs!OpenFails, TunnelProofs!Goto
<1>7. \A c : Tunnels!Register(c) => TunnelProofs!Register(c)
  BY DEF Tunnels!Register, Tunnels!Goto, TunnelProofs!Register, TunnelProofs!Goto
<1>8. \A c : Tunnels!Withdraw(c) => TunnelProofs!Withdraw(c)
  BY DEF Tunnels!Withdraw, Tunnels!Goto, Tunnels!Unregistered, TunnelProofs!Withdraw, TunnelProofs!Goto, TunnelProofs!Unregistered
<1>9. \A c : Tunnels!Publish(c) => TunnelProofs!Publish(c)
  BY DEF Tunnels!Publish, Tunnels!Goto, TunnelProofs!Publish, TunnelProofs!Goto
<1>10. Tunnels!EngineCloses => TunnelProofs!EngineCloses
  BY DEF Tunnels!EngineCloses, TunnelProofs!EngineCloses
<1>11. Tunnels!Shutdown => TunnelProofs!Shutdown
  BY DEF Tunnels!Shutdown, TunnelProofs!Shutdown
<1>12. \A f : Tunnels!PortForwardClose(f) => TunnelProofs!PortForwardClose(f)
  BY DEF Tunnels!PortForwardClose, Tunnels!Unregistered, TunnelProofs!PortForwardClose, TunnelProofs!Unregistered
<1>13. \A f : Tunnels!CloseMark(f) => TunnelProofs!CloseMark(f)
  BY DEF Tunnels!CloseMark, Tunnels!Sockets, Tunnels!registry, TunnelProofs!CloseMark, TunnelProofs!Sockets, TunnelProofs!registry
<1>14. \A f : Tunnels!CloseReap(f) => TunnelProofs!CloseReap(f)
  BY DEF Tunnels!CloseReap, Tunnels!registry, TunnelProofs!CloseReap, TunnelProofs!registry
<1>15. \A h, f : Tunnels!Accept(h, f) => TunnelProofs!Accept(h, f)
  BY DEF Tunnels!Accept, Tunnels!Handling, Tunnels!registry, Tunnels!Cardinality, TunnelProofs!Accept, TunnelProofs!Handling, TunnelProofs!registry, TunnelProofs!Cardinality
<1>16. \A h : Tunnels!TrackLocal(h) => TunnelProofs!TrackLocal(h)
  BY DEF Tunnels!TrackLocal, Tunnels!Closing, Tunnels!Done, Tunnels!registry, TunnelProofs!TrackLocal, TunnelProofs!Closing, TunnelProofs!Done, TunnelProofs!registry
<1>17. \A h : Tunnels!DialRemote(h) => TunnelProofs!DialRemote(h)
  BY DEF Tunnels!DialRemote, Tunnels!Done, Tunnels!registry, TunnelProofs!DialRemote, TunnelProofs!Done, TunnelProofs!registry
<1>18. \A h : Tunnels!TrackRemote(h) => TunnelProofs!TrackRemote(h)
  BY DEF Tunnels!TrackRemote, Tunnels!Closing, Tunnels!Done, Tunnels!registry, TunnelProofs!TrackRemote, TunnelProofs!Closing, TunnelProofs!Done, TunnelProofs!registry
<1>19. \A h : Tunnels!PipeEnds(h) => TunnelProofs!PipeEnds(h)
  BY DEF Tunnels!PipeEnds, Tunnels!Done, Tunnels!registry, TunnelProofs!PipeEnds, TunnelProofs!Done, TunnelProofs!registry
<1>20. Tunnels!Next => TunnelProofs!Next
  BY <1>3, <1>4, <1>5, <1>6, <1>7, <1>8, <1>9, <1>10, <1>11, <1>12, <1>13, <1>14, <1>15, <1>16, <1>17, <1>18, <1>19 DEF Tunnels!Next, Tunnels!Fresh, TunnelProofs!Next, TunnelProofs!Fresh
<1>21. [Next]_allVars => [TunnelProofs!Next]_(TunnelProofs!fwdVars)
  BY <1>2, <1>20 DEF forwardVars, TunnelProofs!fwdVars
<1> QED
  BY <1>1, <1>21, PTL DEF Spec, TunnelProofs!Spec

-----------------------------------------------------------------------------
(* What that says of the daemon.                                           *)

LEMMA Few == ShellProofs!IsFiniteSet({c1, c2, c3}) /\ TunnelProofs!IsFiniteSet({c1, c2})
<1>1. IsFiniteSet({c1})
  BY FS_Singleton
<1>2. IsFiniteSet({c1} \cup {c2})
  BY <1>1, FS_AddElement
<1>3. IsFiniteSet({c1} \cup {c2} \cup {c3})
  BY <1>2, FS_AddElement
<1>4. {c1, c2} = {c1} \cup {c2} /\ {c1, c2, c3} = {c1} \cup {c2} \cup {c3}
  OBVIOUS
<1>5. /\ \A S : IsFiniteSet(S) => ShellProofs!IsFiniteSet(S)
      /\ \A S : IsFiniteSet(S) => TunnelProofs!IsFiniteSet(S)
  BY DEF IsFiniteSet, ShellProofs!IsFiniteSet, TunnelProofs!IsFiniteSet
<1> QED
  BY <1>2, <1>3, <1>4, <1>5

\* Every published event reaches each reliable sink, and a browser that is up to
\* date has missed none it was not told about: publishing races subscriptions,
\* replays and both ends of a stream, whatever the order of their steps.
THEOREM EventsAreHeard == Spec => []PublishedIsHeard
<1>1. BusProofs!Parameters
  BY DEF BusProofs!Parameters
<1>2. Spec => []BusProofs!SinksHearAll
  BY <1>1, BusPart, BusProofs!SinksHear
<1>3. Spec => []BusProofs!StreamMissesNothing
  BY <1>1, BusPart, BusProofs!StreamsMissNothing
<1>4. BusProofs!SinksHearAll => Bus!SinksHearAll
  BY DEF BusProofs!SinksHearAll, Bus!SinksHearAll
<1>5. BusProofs!StreamMissesNothing => Bus!StreamMissesNothing
  BY DEF BusProofs!StreamMissesNothing, Bus!StreamMissesNothing
<1>6. BusProofs!SinksHearAll /\ BusProofs!StreamMissesNothing => PublishedIsHeard
  BY <1>4, <1>5 DEF PublishedIsHeard
<1> QED
  BY <1>2, <1>3, <1>6, PTL

\* An agent's calls that name no session share one in the daemon, however many
\* of them create it at once (Manager.resolveSession).
THEOREM DefaultsAreShared == ASSUME NamesAreNames PROVE Spec => []OneDefaultPerOwner
<1>1. ShellProofs!Parameters
  BY Few DEF NamesAreNames, ShellProofs!Parameters
<1>2. Spec => []ShellProofs!OneDefaultPerOwner
  BY <1>1, ShellPart, ShellProofs!DefaultIsShared
<1>3. ShellProofs!OneDefaultPerOwner => OneDefaultPerOwner
  BY DEF ShellProofs!OneDefaultPerOwner, OneDefaultPerOwner, Shells!OneDefaultPerOwner,
         ShellProofs!Cardinality, Shells!Cardinality
<1> QED
  BY <1>2, <1>3, PTL

\* No shell and no tunnel that was being set up outlives the daemon's shutdown
\* (Manager.Shutdown, forwardManager.Shutdown).
THEOREM ShutdownIsComplete == ASSUME NamesAreNames PROVE Spec => []NothingOutlivesShutdown
<1>1. ShellProofs!Parameters /\ TunnelProofs!Parameters
  BY Few DEF NamesAreNames, ShellProofs!Parameters, TunnelProofs!Parameters
<1>2. Spec => []ShellProofs!NoShellOutlivesShutdown
  BY <1>1, ShellPart, ShellProofs!ShutdownLeavesNothing
<1>3. Spec => []TunnelProofs!NoTunnelOutlivesShutdown
  BY <1>1, TunnelPart, TunnelProofs!TunnelsAreClosed
<1>4. ShellProofs!NoShellOutlivesShutdown => Shells!NoShellOutlivesShutdown
  BY DEF ShellProofs!NoShellOutlivesShutdown, ShellProofs!Busy, Shells!NoShellOutlivesShutdown, Shells!Busy
<1>5. TunnelProofs!NoTunnelOutlivesShutdown => Tunnels!NoTunnelOutlivesShutdown
  BY DEF TunnelProofs!NoTunnelOutlivesShutdown, Tunnels!NoTunnelOutlivesShutdown
<1>6. ShellProofs!NoShellOutlivesShutdown /\ TunnelProofs!NoTunnelOutlivesShutdown => NothingOutlivesShutdown
  BY <1>4, <1>5 DEF NothingOutlivesShutdown
<1> QED
  BY <1>2, <1>3, <1>6, PTL

\* What the daemon keeps on disk is sound together: missions with their
\* evidence and their sessions, the list of jobs, snapshots with at most one
\* mishap, and an audit log with no write torn before its newline (mission.Service,
\* Manager.persist, SnapshotRestore, Logger.Append).
StoresAreSound ==
    /\ EvidenceIsReal /\ NoLeakedSession /\ IndexFindsMissions /\ NothingToLose
    /\ FileIsCurrent /\ OriginalRecoverable
    /\ AckedIsKept /\ HealthyVerifies

THEOREM StoresStaySound == ASSUME Clean, MaxMishaps <= 1 PROVE Spec => []StoresAreSound
<1>1. Spec => [](EvidenceIsReal /\ NoLeakedSession /\ IndexFindsMissions /\ NothingToLose)
  BY MissionPart, EvidenceHolds, SessionsAreHandedOver, EventsFindTheirMission, FileIsMemory, PTL
<1>2. Spec => []FileIsCurrent
  BY RegistryPart, FileStaysCurrent, PTL
<1>3. SnapSpec => []OriginalRecoverable
  BY RestoreRecovers
<1>4. Spec => []OriginalRecoverable
  BY <1>3, SnapshotPart, PTL
<1>5. AuditSpec => []AckedIsKept
  BY AcknowledgedStays
<1>6. AuditSpec => []HealthyVerifies
  BY HealthyLogVerifies
<1>7. Spec => [](AckedIsKept /\ HealthyVerifies)
  BY <1>5, <1>6, AuditPart, PTL
<1> QED
  BY <1>1, <1>2, <1>4, <1>7, PTL DEF StoresAreSound

================================================================================
