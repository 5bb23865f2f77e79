------------------------------- MODULE Forwards -------------------------------
(***************************************************************************)
(* Port forwards: the engine's gate around the daemon's registry of        *)
(* tunnels, and the tunnels themselves, whose connections are accepted,    *)
(* tracked and piped by goroutines of their own while anybody may close    *)
(* the tunnel.                                                             *)
(*                                                                         *)
(* A Start reserves a place, dials without a lock and registers; Close and *)
(* Shutdown unregister first and tear down after.  Policy, validation and  *)
(* the rejection of connections above the limit change no state and are    *)
(* left out.                                                               *)
(***************************************************************************)
EXTENDS Naturals, FiniteSets, Functions, Identifiers

CONSTANTS
    Fwds, Owners, Calls,
    Conns,            \* connections accepted by some tunnel
    NoFwd, NoOwner,   \* absent
    MaxForwards,      \* limit of the daemon (64)
    MaxPerOwner,      \* limit of an owner (16)
    MaxConnections    \* maxForwardConnections of a tunnel (64)

VARIABLES
    fwds,       \* forwardManager.fwds
    reserved,   \* forwardManager.reservedByOwner; reserved is its sum
    fmClosed,   \* forwardManager.closed
    mgrClosed,  \* the engine's Manager.closed
    fwdOwner,   \* ForwardInfo.Owner
    tunnel,     \* each Forward: "none", "open", "marked" (closed is set) or "closed"
    doomed,     \* the sockets Close took from conns
    tearing,    \* forwards some call is about to close
    request,    \* each PortForward: [at, owner, fwd]
    conn        \* each connection: [at, fwd, local, remote]

fwdVars == <<fwds, reserved, fmClosed, mgrClosed, fwdOwner, tunnel, doomed, tearing, request, conn>>
registry == <<fwds, reserved, fmClosed, mgrClosed, fwdOwner, request>>

NoConn == [at |-> "none", fwd |-> NoFwd, local |-> "none", remote |-> "none"]

Init ==
    /\ fwds = {} /\ reserved = [o \in Owners |-> 0]
    /\ fmClosed = FALSE /\ mgrClosed = FALSE
    /\ fwdOwner = [f \in Fwds |-> NoOwner]
    /\ tunnel = [f \in Fwds |-> "none"] /\ doomed = [f \in Fwds |-> {}] /\ tearing = {}
    /\ request = [c \in Calls |-> [at |-> "idle", owner |-> NoOwner, fwd |-> NoFwd]]
    /\ conn = [h \in Conns |-> NoConn]

Goto(c, at) == request' = [request EXCEPT ![c].at = at]

-----------------------------------------------------------------------------
(* PortForward and forwardManager.Start.                                   *)

PortForward(c, o) ==
    /\ request[c].at = "idle"
    /\ request' = [request EXCEPT ![c] = [at |-> IF mgrClosed THEN "done" ELSE "start", owner |-> o, fwd |-> NoFwd]]
    /\ UNCHANGED <<fwds, reserved, fmClosed, mgrClosed, fwdOwner, tunnel, doomed, tearing, conn>>

Full(o) ==
    \/ Cardinality(fwds) + FoldFunction(+, 0, reserved) >= MaxForwards
    \/ Cardinality({f \in fwds : fwdOwner[f] = o}) + reserved[o] >= MaxPerOwner

Start(c) ==
    /\ request[c].at = "start"
    /\ LET o == request[c].owner
       IN  IF fmClosed \/ Full(o)
           THEN Goto(c, "done") /\ UNCHANGED reserved
           ELSE Goto(c, "open") /\ reserved' = [reserved EXCEPT ![o] = @ + 1]
    /\ UNCHANGED <<fwds, fmClosed, mgrClosed, fwdOwner, tunnel, doomed, tearing, conn>>

OpenForward(c, f) ==
    /\ request[c].at = "open" /\ tunnel[f] = "none"
    /\ tunnel' = [tunnel EXCEPT ![f] = "open"] /\ fwdOwner' = [fwdOwner EXCEPT ![f] = request[c].owner]
    /\ request' = [request EXCEPT ![c].at = "register", ![c].fwd = f]
    /\ UNCHANGED <<fwds, reserved, fmClosed, mgrClosed, doomed, tearing, conn>>

OpenFails(c) ==
    /\ request[c].at = "open"
    /\ reserved' = [reserved EXCEPT ![request[c].owner] = @ - 1]
    /\ Goto(c, "done")
    /\ UNCHANGED <<fwds, fmClosed, mgrClosed, fwdOwner, tunnel, doomed, tearing, conn>>

Register(c) ==
    /\ request[c].at = "register"
    /\ reserved' = [reserved EXCEPT ![request[c].owner] = @ - 1]
    /\ IF fmClosed
       THEN tearing' = tearing \cup {request[c].fwd} /\ Goto(c, "done") /\ UNCHANGED fwds
       ELSE fwds' = fwds \cup {request[c].fwd} /\ Goto(c, "publish") /\ UNCHANGED tearing
    /\ UNCHANGED <<fmClosed, mgrClosed, fwdOwner, tunnel, doomed, conn>>

\* forwardManager.Close: unregistered first; nothing if somebody was faster.
Unregistered(f) ==
    /\ fwds' = fwds \ {f}
    /\ tearing' = IF f \in fwds THEN tearing \cup {f} ELSE tearing

\* The engine was closed meanwhile, or forward.started is refused.
Withdraw(c) ==
    /\ request[c].at = "publish"
    /\ Unregistered(request[c].fwd) /\ Goto(c, "done")
    /\ UNCHANGED <<reserved, fmClosed, mgrClosed, fwdOwner, tunnel, doomed, conn>>

Publish(c) ==
    /\ request[c].at = "publish" /\ ~mgrClosed
    /\ Goto(c, "done")
    /\ UNCHANGED <<fwds, reserved, fmClosed, mgrClosed, fwdOwner, tunnel, doomed, tearing, conn>>

PortForwardClose(f) ==
    /\ f \in fwds
    /\ Unregistered(f)
    /\ UNCHANGED <<reserved, fmClosed, mgrClosed, fwdOwner, tunnel, doomed, request, conn>>

EngineCloses ==
    /\ ~mgrClosed /\ mgrClosed' = TRUE
    /\ UNCHANGED <<fwds, reserved, fmClosed, fwdOwner, tunnel, doomed, tearing, request, conn>>

\* A mutant: the map is emptied before its entries are copied.
Shutdown_Empty ==
    /\ mgrClosed /\ ~fmClosed
    /\ fmClosed' = TRUE /\ fwds' = {}
    /\ UNCHANGED <<reserved, mgrClosed, fwdOwner, tunnel, doomed, tearing, request, conn>>

\* shutdownForwardOps, the last thing the engine's Shutdown does.
Shutdown ==
    /\ mgrClosed /\ ~fmClosed
    /\ fmClosed' = TRUE /\ tearing' = tearing \cup fwds /\ fwds' = {}
    /\ UNCHANGED <<reserved, mgrClosed, fwdOwner, tunnel, doomed, request, conn>>

-----------------------------------------------------------------------------
(* A tunnel: Forward.Close, serve and handle.                              *)

Sockets(h) == {x \in {"local", "remote"} : conn[h][x] = "tracked"}

CloseMark(f) ==
    /\ f \in tearing /\ tunnel[f] = "open"
    /\ tunnel' = [tunnel EXCEPT ![f] = "marked"]
    /\ doomed' = [doomed EXCEPT ![f] = {p \in Conns \X {"local", "remote"} :
                                            conn[p[1]].fwd = f /\ p[2] \in Sockets(p[1])}]
    /\ UNCHANGED <<tearing, conn>> /\ UNCHANGED registry

\* The listener, the sockets taken, and the SSH client with all it carries are closed.
CloseReap(f) ==
    /\ f \in tearing /\ tunnel[f] = "marked"
    /\ tunnel' = [tunnel EXCEPT ![f] = "closed"] /\ tearing' = tearing \ {f}
    /\ conn' = [h \in Conns |->
                   IF conn[h].fwd # f THEN conn[h]
                   ELSE [conn[h] EXCEPT !.local = IF <<h, "local">> \in doomed[f] THEN "shut" ELSE @,
                                        !.remote = IF @ = "none" THEN "none" ELSE "shut"]]
    /\ doomed' = [doomed EXCEPT ![f] = {}]
    /\ UNCHANGED registry

Handling(f) == {h \in Conns : conn[h].fwd = f /\ conn[h].at \notin {"none", "done"}}

Accept(h, f) ==
    /\ conn[h].at = "none" /\ tunnel[f] \in {"open", "marked"}
    /\ Cardinality(Handling(f)) < MaxConnections
    /\ conn' = [conn EXCEPT ![h] = [at |-> "accepted", fwd |-> f, local |-> "open", remote |-> "none"]]
    /\ UNCHANGED <<tunnel, doomed, tearing>> /\ UNCHANGED registry

Closing(h) == tunnel[conn[h].fwd] \in {"marked", "closed"}

Done(h) == conn' = [conn EXCEPT ![h].at = "done", ![h].local = "shut",
                                ![h].remote = IF @ = "none" THEN "none" ELSE "shut"]

TrackLocal(h) ==
    /\ conn[h].at = "accepted"
    /\ IF Closing(h) THEN Done(h)
       ELSE conn' = [conn EXCEPT ![h].at = "dialing", ![h].local = "tracked"]
    /\ UNCHANGED <<tunnel, doomed, tearing>> /\ UNCHANGED registry

\* Through the SSH client; a client that is closed cannot.
DialRemote(h) ==
    /\ conn[h].at = "dialing"
    /\ \/ tunnel[conn[h].fwd] # "closed" /\ conn' = [conn EXCEPT ![h].at = "dialed", ![h].remote = "open"]
       \/ Done(h)
    /\ UNCHANGED <<tunnel, doomed, tearing>> /\ UNCHANGED registry

TrackRemote(h) ==
    /\ conn[h].at = "dialed"
    /\ IF Closing(h) THEN Done(h)
       ELSE conn' = [conn EXCEPT ![h].at = "piping", ![h].remote = "tracked"]
    /\ UNCHANGED <<tunnel, doomed, tearing>> /\ UNCHANGED registry

\* One side is finished: both are closed.
PipeEnds(h) ==
    /\ conn[h].at = "piping"
    /\ Done(h)
    /\ UNCHANGED <<tunnel, doomed, tearing>> /\ UNCHANGED registry

Next ==
    \/ \E c \in Calls :
          \/ \E o \in Owners : PortForward(c, o)
          \/ \E f \in Fresh({f \in Fwds : tunnel[f] = "none"}) : OpenForward(c, f)
          \/ Start(c) \/ OpenFails(c) \/ Register(c) \/ Withdraw(c) \/ Publish(c)
    \/ EngineCloses \/ Shutdown
    \/ \E f \in Fwds :
          \/ PortForwardClose(f) \/ CloseMark(f) \/ CloseReap(f)
          \/ \E h \in Fresh({h \in Conns : conn[h].at = "none"}) : Accept(h, f)
    \/ \E h \in Conns : TrackLocal(h) \/ DialRemote(h) \/ TrackRemote(h) \/ PipeEnds(h)

Spec == Init /\ [][Next]_fwdVars

-----------------------------------------------------------------------------
(* What must hold.                                                         *)

\* Once the shutdown has closed the tunnels it took over and every request has
\* its answer, no tunnel is open and no place is reserved: one that was being
\* dialled is closed by its request.  A connection of a closed tunnel has lost
\* both sockets or is about to be refused, so that its goroutine returns.
NoTunnelOutlivesShutdown ==
    /\ \A h \in Conns : conn[h].at = "piping" /\ tunnel[conn[h].fwd] = "closed" =>
          conn[h].local = "shut" /\ conn[h].remote = "shut"
    /\ fmClosed /\ tearing = {} /\ (\A c \in Calls : request[c].at \in {"idle", "done"}) =>
          /\ \A f \in Fwds : tunnel[f] \in {"none", "closed"}
          /\ \A o \in Owners : reserved[o] = 0
===============================================================================
