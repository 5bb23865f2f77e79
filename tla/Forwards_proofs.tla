---------------------------- MODULE Forwards_proofs ----------------------------
(***************************************************************************)
(* No tunnel outlives the shutdown, for any forwards, owners and           *)
(* connections, any finite set of requests and any limits.                 *)
(***************************************************************************)
EXTENDS Forwards, FiniteSetTheorems, TLAPS

\* Requests can be counted.
Parameters == IsFiniteSet(Calls)

Places      == {"idle", "start", "open", "register", "publish", "done"}
RequestRecs == [at : Places, owner : Owners \cup {NoOwner}, fwd : Fwds \cup {NoFwd}]
Ends        == {"none", "open", "tracked", "shut"}
Sides       == {"local", "remote"}
ConnRecs    == [at : {"none", "accepted", "dialing", "dialed", "piping", "done"}, fwd : Fwds \cup {NoFwd},
                local : Ends, remote : Ends]

FwdTypes ==
    /\ fwds \subseteq Fwds /\ tearing \subseteq Fwds
    /\ tunnel \in [Fwds -> {"none", "open", "marked", "closed"}]
    /\ doomed \in [Fwds -> SUBSET (Conns \X Sides)]
    /\ request \in [Calls -> RequestRecs] /\ conn \in [Conns -> ConnRecs]

\* A request knows its owner, and its tunnel once it is dialled.
Asked ==
    \A c \in Calls : /\ request[c].at # "idle" => request[c].owner \in Owners
                     /\ request[c].at \in {"register", "publish"} => request[c].fwd \in Fwds

Held(f) == \E c \in Calls : request[c].at = "register" /\ request[c].fwd = f

\* A tunnel that is not closed is registered, about to be closed, or with the
\* request that dialled it; none is registered after the shutdown.
Reachable ==
    /\ fmClosed => fwds = {}
    /\ \A f \in Fwds : tunnel[f] \in {"open", "marked"} => f \in fwds \cup tearing \/ Held(f)

\* The local socket of a connection at work is tracked while the tunnel is open,
\* and among those taken once it is marked; a closed tunnel's pipes are shut.
Piped(h) ==
    /\ conn[h].at # "none" => conn[h].fwd \in Fwds /\ tunnel[conn[h].fwd] # "none"
    /\ conn[h].at \in {"dialing", "dialed", "piping"} =>
          /\ tunnel[conn[h].fwd] \in {"open", "marked"} => conn[h].local = "tracked"
          /\ tunnel[conn[h].fwd] = "marked" => <<h, "local">> \in doomed[conn[h].fwd]
    /\ conn[h].at = "piping" =>
          /\ conn[h].remote # "none"
          /\ tunnel[conn[h].fwd] = "closed" => conn[h].local = "shut" /\ conn[h].remote = "shut"

Dialling == {"open", "register"}
Reserving(o) == {c \in Calls : request[c].at \in Dialling /\ request[c].owner = o}

\* The places reserved are those of the requests between Start and Register.
PlacesHeld ==
    /\ reserved \in [Owners -> Nat]
    /\ \A o \in Owners : reserved[o] = Cardinality(Reserving(o))

FwdInv == FwdTypes /\ Asked /\ Reachable /\ PlacesHeld /\ \A h \in Conns : Piped(h)

-----------------------------------------------------------------------------
(* Types.                                                                  *)

LEMMA FwdInit_Inv == ASSUME Parameters, Init PROVE FwdInv
<1>1. FwdTypes
  <2>1. conn \in [Conns -> ConnRecs]
    BY DEF Init, NoConn, ConnRecs, Ends
  <2>2. request \in [Calls -> RequestRecs]
    BY DEF Init, RequestRecs, Places
  <2> QED
    BY <2>1, <2>2 DEF Init, FwdTypes
<1>2. Asked /\ Reachable
  BY DEF Init, Asked, Reachable
<1>3. \A h \in Conns : Piped(h)
  BY DEF Init, Piped, NoConn
<1>4. \A o \in Owners : Reserving(o) = {}
  BY DEF Init, Reserving, Dialling
<1>5. PlacesHeld
  BY <1>4, FS_EmptySet DEF Init, PlacesHeld
<1> QED
  BY <1>1, <1>2, <1>3, <1>5 DEF FwdInv

LEMMA ConnRec ==
  ASSUME NEW x \in ConnRecs
  PROVE  /\ x = [at |-> x.at, fwd |-> x.fwd, local |-> x.local, remote |-> x.remote]
         /\ x.at \in {"none", "accepted", "dialing", "dialed", "piping", "done"}
         /\ x.fwd \in Fwds \cup {NoFwd} /\ x.local \in Ends /\ x.remote \in Ends
  BY DEF ConnRecs

\* What a finished connection is: both sockets closed.
LEMMA DoneIs ==
  ASSUME FwdTypes, NEW h \in Conns, Done(h)
  PROVE  /\ conn' \in [Conns -> ConnRecs] /\ conn'[h].at = "done" /\ conn'[h].fwd = conn[h].fwd
         /\ \A g \in Conns : g # h => conn'[g] = conn[g]
<1>1. conn \in [Conns -> ConnRecs] /\ conn[h] \in ConnRecs
  BY DEF FwdTypes
<1>2. conn[h] = [at |-> conn[h].at, fwd |-> conn[h].fwd, local |-> conn[h].local, remote |-> conn[h].remote]
  BY <1>1, ConnRec
<1>3. PICK r : r = IF conn[h].remote = "none" THEN "none" ELSE "shut"
  OBVIOUS
<1>4. PICK x : x = [at |-> "done", fwd |-> conn[h].fwd, local |-> "shut", remote |-> r]
  OBVIOUS
<1>5. conn'[h] = x
  BY <1>1, <1>2, <1>3, <1>4 DEF Done
<1>6. x \in ConnRecs
  BY <1>1, <1>3, <1>4, ConnRec DEF ConnRecs, Ends
<1>7. \A g \in Conns : g # h => conn'[g] = conn[g]
  BY <1>1 DEF Done
<1>8. conn' \in [Conns -> ConnRecs]
  <2>1. conn' = [g \in Conns |-> conn'[g]]
    BY <1>1 DEF Done
  <2>2. \A g \in Conns : conn'[g] \in ConnRecs
    BY <1>1, <1>5, <1>6, <1>7
  <2> QED
    BY <2>1, <2>2
<1> QED
  BY <1>4, <1>5, <1>7, <1>8

\* What a step of a connection that goes on is.
LEMMA GoesOn ==
  ASSUME FwdTypes, NEW h \in Conns, NEW at \in {"dialing", "dialed", "piping"}, NEW l \in Ends, NEW r \in Ends,
         conn' = [conn EXCEPT ![h] = [at |-> at, fwd |-> conn[h].fwd, local |-> l, remote |-> r]]
  PROVE  /\ conn' \in [Conns -> ConnRecs] /\ conn'[h].at = at /\ conn'[h].fwd = conn[h].fwd
         /\ conn'[h].local = l /\ conn'[h].remote = r
         /\ \A g \in Conns : g # h => conn'[g] = conn[g]
<1>1. conn \in [Conns -> ConnRecs] /\ conn[h] \in ConnRecs
  BY DEF FwdTypes
<1>2. [at |-> at, fwd |-> conn[h].fwd, local |-> l, remote |-> r] \in ConnRecs
  BY <1>1, ConnRec DEF ConnRecs
<1> QED
  BY <1>1, <1>2

-----------------------------------------------------------------------------
(* The connections.                                                        *)

ConnSteps(h) == TrackLocal(h) \/ DialRemote(h) \/ TrackRemote(h) \/ PipeEnds(h)

LEMMA ConnKeeps ==
  ASSUME FwdInv, NEW h \in Conns, ConnSteps(h)
  PROVE  FwdInv'
<1>0. /\ FwdTypes /\ Asked /\ Reachable /\ PlacesHeld /\ Piped(h)
      /\ conn[h] \in ConnRecs /\ conn \in [Conns -> ConnRecs]
  BY DEF FwdInv, FwdTypes
<1>u. UNCHANGED <<tunnel, doomed, tearing>> /\ UNCHANGED registry
  BY DEF ConnSteps, TrackLocal, DialRemote, TrackRemote, PipeEnds
<1>r. conn[h] = [at |-> conn[h].at, fwd |-> conn[h].fwd, local |-> conn[h].local, remote |-> conn[h].remote]
  BY <1>0, ConnRec
<1>1. ASSUME Done(h) PROVE conn' \in [Conns -> ConnRecs] /\ Piped(h)' /\ \A g \in Conns : g # h => conn'[g] = conn[g]
  <2>1. conn[h].at # "none" => conn[h].fwd \in Fwds /\ tunnel[conn[h].fwd] # "none"
    BY <1>0 DEF Piped
  <2>2. conn[h].at # "none"
    BY DEF ConnSteps, TrackLocal, DialRemote, TrackRemote, PipeEnds
  <2> QED
    BY <1>0, <1>1, <1>u, <2>1, <2>2, DoneIs DEF Piped
<1>w. conn' = [g \in Conns |-> conn'[g]] /\ \A g \in Conns : g # h => conn'[g] = conn[g]
  BY <1>0 DEF ConnSteps, TrackLocal, DialRemote, TrackRemote, PipeEnds, Done
<1>6. conn' \in [Conns -> ConnRecs] /\ Piped(h)' /\ \A g \in Conns : g # h => conn'[g] = conn[g]
  <2>1. CASE TrackLocal(h) /\ ~Closing(h)
    <3>1. conn'[h] = [at |-> "dialing", fwd |-> conn[h].fwd, local |-> "tracked", remote |-> conn[h].remote]
      BY <1>0, <1>r, <2>1 DEF TrackLocal
    <3>2. /\ conn' \in [Conns -> ConnRecs] /\ conn'[h].at = "dialing" /\ conn'[h].fwd = conn[h].fwd
          /\ conn'[h].local = "tracked"
      BY <1>0, <1>w, <3>1, ConnRec, GoesOn DEF Ends
    <3>3. Piped(h)'
      BY <1>0, <1>u, <2>1, <3>2 DEF Piped, Closing, TrackLocal
    <3> QED
      BY <1>w, <3>2, <3>3
  <2>2. CASE DialRemote(h) /\ ~Done(h)
    <3>0. conn[h].at = "dialing" /\ tunnel[conn[h].fwd] # "closed"
      BY <2>2 DEF DialRemote
    <3>1. conn'[h] = [at |-> "dialed", fwd |-> conn[h].fwd, local |-> conn[h].local, remote |-> "open"]
      BY <1>0, <1>r, <2>2 DEF DialRemote
    <3>2. /\ conn' \in [Conns -> ConnRecs] /\ conn'[h].at = "dialed" /\ conn'[h].fwd = conn[h].fwd
          /\ conn'[h].local = conn[h].local
      BY <1>0, <1>w, <3>1, ConnRec, GoesOn DEF Ends
    <3>3. Piped(h)'
      BY <1>0, <1>u, <3>0, <3>2 DEF Piped
    <3> QED
      BY <1>w, <3>2, <3>3
  <2>3. CASE TrackRemote(h) /\ ~Closing(h)
    <3>0. conn[h].at = "dialed" /\ tunnel[conn[h].fwd] \notin {"marked", "closed"}
      BY <2>3 DEF TrackRemote, Closing
    <3>1. conn'[h] = [at |-> "piping", fwd |-> conn[h].fwd, local |-> conn[h].local, remote |-> "tracked"]
      BY <1>0, <1>r, <2>3 DEF TrackRemote
    <3>2. /\ conn' \in [Conns -> ConnRecs] /\ conn'[h].at = "piping" /\ conn'[h].fwd = conn[h].fwd
          /\ conn'[h].local = conn[h].local /\ conn'[h].remote = "tracked"
      BY <1>0, <1>w, <3>1, ConnRec, GoesOn DEF Ends
    <3>3. Piped(h)'
      BY <1>0, <1>u, <3>0, <3>2 DEF Piped
    <3> QED
      BY <1>w, <3>2, <3>3
  <2>4. CASE Done(h)
    BY <1>1, <2>4
  <2> QED
    BY <2>1, <2>2, <2>3, <2>4 DEF ConnSteps, TrackLocal, DialRemote, TrackRemote, PipeEnds
<1>7. ASSUME NEW g \in Conns PROVE Piped(g)'
  <2>1. CASE g = h
    BY <1>6, <2>1
  <2>2. CASE g # h
    BY <1>6, <1>u, <2>2 DEF FwdInv, Piped
  <2> QED
    BY <2>1, <2>2
<1>8. FwdTypes' /\ Asked' /\ Reachable' /\ PlacesHeld'
  BY <1>0, <1>6, <1>u DEF FwdTypes, Asked, Reachable, Held, PlacesHeld, Reserving, registry
<1> QED
  BY <1>7, <1>8 DEF FwdInv

LEMMA AcceptKeeps ==
  ASSUME FwdInv, NEW h \in Conns, NEW f \in Fwds, Accept(h, f)
  PROVE  FwdInv'
<1>0. FwdTypes /\ Asked /\ Reachable /\ PlacesHeld /\ conn \in [Conns -> ConnRecs]
  BY DEF FwdInv, FwdTypes
<1>u. UNCHANGED <<tunnel, doomed, tearing>> /\ UNCHANGED registry /\ tunnel[f] \in {"open", "marked"}
  BY DEF Accept
<1>1. PICK x : x = [at |-> "accepted", fwd |-> f, local |-> "open", remote |-> "none"]
  OBVIOUS
<1>2. x \in ConnRecs /\ conn' = [conn EXCEPT ![h] = x] /\ x.at = "accepted" /\ x.fwd = f
  BY <1>1 DEF Accept, ConnRecs, Ends
<1>3. conn' \in [Conns -> ConnRecs]
  BY <1>0, <1>2
<1>4. ASSUME NEW g \in Conns PROVE Piped(g)'
  <2>1. CASE g = h
    BY <1>0, <1>2, <1>u, <2>1 DEF Piped
  <2>2. CASE g # h
    <3>1. conn'[g] = conn[g]
      BY <1>0, <1>2, <2>2
    <3> QED
      BY <1>u, <3>1 DEF FwdInv, Piped
  <2> QED
    BY <2>1, <2>2
<1>5. FwdTypes' /\ Asked' /\ Reachable' /\ PlacesHeld'
  BY <1>0, <1>3, <1>u DEF FwdTypes, Asked, Reachable, Held, PlacesHeld, Reserving, registry
<1> QED
  BY <1>4, <1>5 DEF FwdInv

\* CloseMark: every local socket of a connection at work is taken.
LEMMA MarkKeeps ==
  ASSUME FwdInv, NEW f \in Fwds, CloseMark(f)
  PROVE  FwdInv'
<1>0. FwdTypes /\ Asked /\ Reachable /\ PlacesHeld /\ conn \in [Conns -> ConnRecs]
  BY DEF FwdInv, FwdTypes
<1>1. PICK D : D = {p \in Conns \X {"local", "remote"} : conn[p[1]].fwd = f /\ p[2] \in Sockets(p[1])}
  OBVIOUS
<1>u. /\ UNCHANGED <<tearing, conn>> /\ UNCHANGED registry /\ f \in tearing /\ tunnel[f] = "open"
      /\ tunnel' = [tunnel EXCEPT ![f] = "marked"] /\ doomed' = [doomed EXCEPT ![f] = D]
  BY <1>1 DEF CloseMark
<1>2. D \subseteq Conns \X Sides
  BY <1>1 DEF Sides
<1>3. tunnel' \in [Fwds -> {"none", "open", "marked", "closed"}] /\ doomed' \in [Fwds -> SUBSET (Conns \X Sides)]
  BY <1>0, <1>2, <1>u DEF FwdTypes
<1>4. ASSUME NEW h \in Conns, conn[h].fwd = f, conn[h].local = "tracked" PROVE <<h, "local">> \in D
  <2>1. "local" \in Sockets(h)
    BY <1>4 DEF Sockets
  <2> QED
    BY <1>1, <1>4, <2>1
<1>5. tunnel'[f] = "marked" /\ doomed'[f] = D
      /\ \A g \in Fwds : g # f => tunnel'[g] = tunnel[g] /\ doomed'[g] = doomed[g]
  BY <1>0, <1>u DEF FwdTypes
<1>6. ASSUME NEW h \in Conns PROVE Piped(h)'
  <2>0. Piped(h) /\ conn'[h] = conn[h]
    BY <1>u DEF FwdInv
  <2>1. CASE conn[h].fwd = f
    BY <1>4, <1>5, <1>u, <2>0, <2>1 DEF Piped
  <2>2. CASE conn[h].fwd # f
    BY <1>5, <2>0, <2>2 DEF Piped
  <2> QED
    BY <2>1, <2>2
<1>7. Reachable'
  BY <1>0, <1>5, <1>u DEF Reachable, Held, registry
<1>8. FwdTypes' /\ Asked' /\ PlacesHeld'
  BY <1>0, <1>3, <1>u DEF FwdTypes, Asked, PlacesHeld, Reserving, registry
<1> QED
  BY <1>6, <1>7, <1>8 DEF FwdInv

\* CloseReap: the sockets taken, and what the SSH client carries, are shut.
LEMMA ReapKeeps ==
  ASSUME FwdInv, NEW f \in Fwds, CloseReap(f)
  PROVE  FwdInv'
<1>0. FwdTypes /\ Asked /\ Reachable /\ PlacesHeld /\ conn \in [Conns -> ConnRecs]
  BY DEF FwdInv, FwdTypes
<1>u. /\ UNCHANGED registry /\ f \in tearing /\ tunnel[f] = "marked" /\ tearing' = tearing \ {f}
      /\ tunnel' = [tunnel EXCEPT ![f] = "closed"] /\ doomed' = [doomed EXCEPT ![f] = {}]
  BY DEF CloseReap
<1>1. tunnel' \in [Fwds -> {"none", "open", "marked", "closed"}] /\ doomed' \in [Fwds -> SUBSET (Conns \X Sides)]
  BY <1>0, <1>u DEF FwdTypes
<1>2. tunnel'[f] = "closed" /\ \A g \in Fwds : g # f => tunnel'[g] = tunnel[g] /\ doomed'[g] = doomed[g]
  BY <1>0, <1>u DEF FwdTypes
<1>3. ASSUME NEW h \in Conns
      PROVE  conn'[h] \in ConnRecs /\ Piped(h)'
  <2>0. Piped(h) /\ conn[h] \in ConnRecs
    BY <1>0 DEF FwdInv
  <2>1. CASE conn[h].fwd # f
    <3>1. conn'[h] = conn[h]
      BY <2>1 DEF CloseReap
    <3> QED
      BY <1>2, <2>0, <2>1, <3>1 DEF Piped
  <2>2. CASE conn[h].fwd = f
    <3>1. PICK l, r : /\ l = IF <<h, "local">> \in doomed[f] THEN "shut" ELSE conn[h].local
                      /\ r = IF conn[h].remote = "none" THEN "none" ELSE "shut"
      OBVIOUS
    <3>2. conn'[h] = [conn[h] EXCEPT !.local = l, !.remote = r]
      BY <2>2, <3>1 DEF CloseReap
    <3>3. conn[h] = [at |-> conn[h].at, fwd |-> conn[h].fwd, local |-> conn[h].local, remote |-> conn[h].remote]
      BY <2>0, ConnRec
    <3>4. conn'[h] = [at |-> conn[h].at, fwd |-> f, local |-> l, remote |-> r]
      BY <2>2, <3>2, <3>3
    <3>5. l \in Ends /\ r \in Ends
      BY <2>0, <3>1, ConnRec DEF Ends
    <3>6. conn'[h] \in ConnRecs
      BY <2>0, <3>4, <3>5, ConnRec DEF ConnRecs
    <3>7. conn[h].at = "piping" => l = "shut" /\ r = "shut"
      BY <1>u, <2>0, <2>2, <3>1 DEF Piped
    <3>8. conn'[h].at = conn[h].at /\ conn'[h].fwd = f /\ conn'[h].local = l /\ conn'[h].remote = r
      BY <3>4
    <3>9. Piped(h)'
      BY <1>2, <3>7, <3>8 DEF Piped
    <3> QED
      BY <3>6, <3>9
  <2> QED
    BY <2>1, <2>2
<1>4. conn' \in [Conns -> ConnRecs]
  <2>1. PICK F : conn' = [h \in Conns |-> F[h]]
    <3>1. conn' = [h \in Conns |-> conn'[h]]
      BY DEF CloseReap
    <3> QED
      BY <3>1
  <2> QED
    BY <1>3, <2>1
<1>5. Reachable'
  BY <1>0, <1>2, <1>u DEF Reachable, Held, registry
<1>6. FwdTypes' /\ Asked' /\ PlacesHeld'
  BY <1>0, <1>1, <1>4, <1>u DEF FwdTypes, Asked, PlacesHeld, Reserving, registry
<1> QED
  BY <1>3, <1>5, <1>6 DEF FwdInv

-----------------------------------------------------------------------------
(* The places.                                                             *)

\* The places of the other owners, and of requests that go elsewhere, stay.
LEMMA Counting ==
  ASSUME Parameters, FwdTypes, PlacesHeld, NEW c \in Calls, NEW o \in Owners
  PROVE  /\ Reserving(o)' = Reserving(o) => Cardinality(Reserving(o)') = reserved[o]
         /\ (c \notin Reserving(o) /\ Reserving(o)' = Reserving(o) \cup {c}) =>
               Cardinality(Reserving(o)') = reserved[o] + 1
         /\ (c \in Reserving(o) /\ Reserving(o)' = Reserving(o) \ {c}) =>
               /\ Cardinality(Reserving(o)') = reserved[o] - 1 /\ reserved[o] - 1 \in Nat
<1>1. IsFiniteSet(Reserving(o))
  BY FS_Subset DEF Parameters, Reserving
<1>2. reserved[o] = Cardinality(Reserving(o))
  BY DEF PlacesHeld
<1>3. c \notin Reserving(o) => Cardinality(Reserving(o) \cup {c}) = Cardinality(Reserving(o)) + 1
  BY <1>1, FS_AddElement
<1>4. c \in Reserving(o) =>
        /\ IsFiniteSet(Reserving(o) \ {c})
        /\ Cardinality(Reserving(o) \ {c}) = Cardinality(Reserving(o)) - 1
  BY <1>1, FS_RemoveElement
<1>5. IsFiniteSet(Reserving(o) \ {c}) => Cardinality(Reserving(o) \ {c}) \in Nat
  BY FS_CardinalityType
<1> QED
  BY <1>2, <1>3, <1>4, <1>5

\* A request that gives its place back.
LEMMA GivesBack ==
  ASSUME Parameters, FwdTypes, PlacesHeld, NEW c \in Calls, NEW o \in Owners,
         request[c].at \in Dialling, request[c].owner = o, request'[c].at \notin Dialling,
         \A d \in Calls : d # c => request'[d] = request[d], reserved' = [reserved EXCEPT ![o] = @ - 1]
  PROVE  PlacesHeld'
<1>1. /\ c \in Reserving(o) /\ Reserving(o)' = Reserving(o) \ {c}
      /\ \A p \in Owners : p # o => Reserving(p)' = Reserving(p)
  BY DEF Reserving
<1>2. Cardinality(Reserving(o)') = reserved[o] - 1 /\ reserved[o] - 1 \in Nat
  BY <1>1, Counting
<1>3. \A p \in Owners : p # o => Cardinality(Reserving(p)') = reserved[p]
  BY <1>1, Counting
<1> QED
  BY <1>2, <1>3 DEF PlacesHeld

\* A request that takes a place, and one that neither takes nor gives one.
LEMMA TakesOne ==
  ASSUME Parameters, FwdTypes, PlacesHeld, NEW c \in Calls, NEW o \in Owners,
         request[c].at \notin Dialling, request'[c].at \in Dialling, request'[c].owner = o,
         \A d \in Calls : d # c => request'[d] = request[d], reserved' = [reserved EXCEPT ![o] = @ + 1]
  PROVE  PlacesHeld'
<1>1. /\ c \notin Reserving(o) /\ Reserving(o)' = Reserving(o) \cup {c}
      /\ \A p \in Owners : p # o => Reserving(p)' = Reserving(p)
  BY DEF Reserving
<1>2. Cardinality(Reserving(o)') = reserved[o] + 1
  BY <1>1, Counting
<1>3. \A p \in Owners : p # o => Cardinality(Reserving(p)') = reserved[p]
  BY <1>1, Counting
<1> QED
  BY <1>1, <1>2, <1>3 DEF PlacesHeld

LEMMA TakesNone ==
  ASSUME PlacesHeld, NEW c \in Calls, \A d \in Calls : d # c => request'[d] = request[d], reserved' = reserved,
         \/ request[c].at \notin Dialling /\ request'[c].at \notin Dialling
         \/ request[c].at \in Dialling /\ request'[c].at \in Dialling /\ request'[c].owner = request[c].owner
  PROVE  PlacesHeld'
<1>1. \A p \in Owners : Reserving(p)' = Reserving(p)
  BY DEF Reserving
<1> QED
  BY <1>1 DEF PlacesHeld

-----------------------------------------------------------------------------
(* The requests.                                                           *)

LEMMA RequestRec ==
  ASSUME NEW x \in RequestRecs
  PROVE  /\ x = [at |-> x.at, owner |-> x.owner, fwd |-> x.fwd]
         /\ x.at \in Places /\ x.owner \in Owners \cup {NoOwner} /\ x.fwd \in Fwds \cup {NoFwd}
  BY DEF RequestRecs

\* What a request that goes on is.
LEMMA Moves ==
  ASSUME FwdTypes, NEW c \in Calls, NEW at \in Places, Goto(c, at)
  PROVE  /\ request' \in [Calls -> RequestRecs]
         /\ request'[c].at = at /\ request'[c].owner = request[c].owner /\ request'[c].fwd = request[c].fwd
         /\ \A d \in Calls : d # c => request'[d] = request[d]
<1>1. request \in [Calls -> RequestRecs] /\ request[c] \in RequestRecs
  BY DEF FwdTypes
<1>2. request[c] = [at |-> request[c].at, owner |-> request[c].owner, fwd |-> request[c].fwd]
  BY <1>1, RequestRec
<1>3. PICK x : x = [at |-> at, owner |-> request[c].owner, fwd |-> request[c].fwd]
  OBVIOUS
<1>4. request'[c] = x /\ \A d \in Calls : d # c => request'[d] = request[d]
  BY <1>1, <1>2, <1>3 DEF Goto
<1>5. x \in RequestRecs
  BY <1>1, <1>3, RequestRec DEF RequestRecs
<1>6. request' \in [Calls -> RequestRecs]
  <2>1. request' = [d \in Calls |-> request'[d]]
    BY <1>1 DEF Goto
  <2> QED
    BY <1>1, <1>4, <1>5, <2>1
<1> QED
  BY <1>3, <1>4, <1>6

\* Every step but the connections' leaves them alone, and its tunnels open at most.
Aside == /\ UNCHANGED <<conn, doomed>>
         /\ \A g \in Fwds : tunnel[g] # "none" => tunnel'[g] = tunnel[g]

LEMMA PipesAside == ASSUME FwdTypes, \A h \in Conns : Piped(h), Aside PROVE \A h \in Conns : Piped(h)'
<1> SUFFICES ASSUME NEW h \in Conns PROVE Piped(h)'
  OBVIOUS
<1>1. Piped(h) /\ conn'[h] = conn[h] /\ doomed' = doomed
  BY DEF Aside
<1>2. conn[h].at # "none" => conn[h].fwd \in Fwds /\ tunnel[conn[h].fwd] # "none" /\ tunnel'[conn[h].fwd] = tunnel[conn[h].fwd]
  BY <1>1 DEF Aside, Piped
<1> QED
  BY <1>1, <1>2 DEF Piped

LEMMA RequestKeeps ==
  ASSUME Parameters, FwdInv, NEW c \in Calls,
         \/ \E o \in Owners : PortForward(c, o)
         \/ \E f \in Fwds : tunnel[f] = "none" /\ OpenForward(c, f)
         \/ Start(c) \/ OpenFails(c) \/ Register(c) \/ Withdraw(c) \/ Publish(c)
  PROVE  FwdInv'
<1>0. FwdTypes /\ Asked /\ Reachable /\ PlacesHeld /\ \A h \in Conns : Piped(h)
  BY DEF FwdInv
<1>t. /\ fwds \subseteq Fwds /\ tearing \subseteq Fwds /\ request \in [Calls -> RequestRecs] /\ request[c] \in RequestRecs
      /\ tunnel \in [Fwds -> {"none", "open", "marked", "closed"}]
  BY <1>0 DEF FwdTypes
<1>p. ASSUME Aside, FwdTypes', Asked', Reachable', PlacesHeld' PROVE FwdInv'
  BY <1>0, <1>p, PipesAside DEF FwdInv
<1>1. ASSUME NEW o \in Owners, PortForward(c, o) PROVE FwdInv'
  <2>1. PICK x : x = [at |-> IF mgrClosed THEN "done" ELSE "start", owner |-> o, fwd |-> NoFwd]
    OBVIOUS
  <2>2. /\ x \in RequestRecs /\ x.at \in {"done", "start"} /\ x.owner = o
    BY <2>1 DEF RequestRecs, Places
  <2>3. /\ request[c].at = "idle" /\ request' = [request EXCEPT ![c] = x]
        /\ UNCHANGED <<fwds, reserved, fmClosed, tunnel, doomed, tearing, conn>>
    BY <1>1, <2>1 DEF PortForward
  <2>4. /\ request' \in [Calls -> RequestRecs] /\ request'[c] = x /\ \A d \in Calls : d # c => request'[d] = request[d]
    BY <1>t, <2>2, <2>3
  <2>5. PlacesHeld'
    BY <1>0, <2>2, <2>3, <2>4, TakesNone DEF Dialling
  <2>6. Asked'
    BY <1>0, <2>2, <2>4 DEF Asked
  <2>7. Reachable'
    BY <1>0, <2>2, <2>3, <2>4 DEF Reachable, Held
  <2>8. FwdTypes' /\ Aside
    BY <1>0, <2>3, <2>4 DEF FwdTypes, Aside
  <2> QED
    BY <1>p, <2>5, <2>6, <2>7, <2>8
<1>2. CASE Start(c)
  <2>0. request[c].at = "start" /\ UNCHANGED <<fwds, fmClosed, tunnel, doomed, tearing, conn>>
    BY <1>2 DEF Start
  <2>1. PICK o \in Owners : o = request[c].owner
    BY <1>0, <2>0 DEF Asked
  <2>2. \/ Goto(c, "done") /\ UNCHANGED reserved
        \/ Goto(c, "open") /\ reserved' = [reserved EXCEPT ![o] = @ + 1]
    BY <1>2, <2>1 DEF Start
  <2>3. PICK at \in {"done", "open"} : /\ Goto(c, at) /\ (at = "done" => UNCHANGED reserved)
                                       /\ at = "open" => reserved' = [reserved EXCEPT ![o] = @ + 1]
    BY <2>2
  <2>4. /\ request' \in [Calls -> RequestRecs]
        /\ request'[c].at = at /\ request'[c].owner = o /\ request'[c].fwd = request[c].fwd
        /\ \A d \in Calls : d # c => request'[d] = request[d]
    BY <1>0, <2>1, <2>3, Moves DEF Places
  <2>5. PlacesHeld'
    <3>1. CASE at = "done"
      BY <1>0, <2>0, <2>3, <2>4, <3>1, TakesNone DEF Dialling
    <3>2. CASE at = "open"
      BY <1>0, <2>0, <2>3, <2>4, <3>2, TakesOne DEF Dialling
    <3> QED
      BY <3>1, <3>2
  <2>6. Asked'
    BY <1>0, <2>1, <2>4 DEF Asked
  <2>7. Reachable'
    BY <1>0, <2>0, <2>4 DEF Reachable, Held
  <2>8. FwdTypes' /\ Aside
    BY <1>0, <2>0, <2>4 DEF FwdTypes, Aside
  <2> QED
    BY <1>p, <2>5, <2>6, <2>7, <2>8
<1>3. ASSUME NEW f \in Fwds, tunnel[f] = "none", OpenForward(c, f) PROVE FwdInv'
  <2>0. request[c].at = "open" /\ UNCHANGED <<fwds, reserved, fmClosed, doomed, tearing, conn>>
    BY <1>3 DEF OpenForward
  <2>1. request[c] = [at |-> request[c].at, owner |-> request[c].owner, fwd |-> request[c].fwd]
    BY <1>t, RequestRec
  <2>2. PICK x : x = [at |-> "register", owner |-> request[c].owner, fwd |-> f]
    OBVIOUS
  <2>3. request'[c] = x /\ \A d \in Calls : d # c => request'[d] = request[d]
    BY <1>t, <1>3, <2>1, <2>2 DEF OpenForward
  <2>4. x \in RequestRecs /\ x.at = "register" /\ x.owner = request[c].owner /\ x.fwd = f
    BY <1>t, <2>2, RequestRec DEF RequestRecs, Places
  <2>5. request' \in [Calls -> RequestRecs]
    <3>1. request' = [d \in Calls |-> request'[d]]
      BY <1>t, <1>3 DEF OpenForward
    <3> QED
      BY <1>t, <2>3, <2>4, <3>1
  <2>6. tunnel' \in [Fwds -> {"none", "open", "marked", "closed"}] /\ \A g \in Fwds : g # f => tunnel'[g] = tunnel[g]
    BY <1>t, <1>3 DEF OpenForward
  <2>7. PlacesHeld'
    BY <1>0, <2>0, <2>3, <2>4, TakesNone DEF Dialling
  <2>8. Asked'
    BY <1>0, <2>0, <2>3, <2>4 DEF Asked
  <2>9. Reachable'
    BY <1>0, <2>0, <2>3, <2>4, <2>6 DEF Reachable, Held
  <2>10. FwdTypes' /\ Aside
    BY <1>0, <1>3, <2>0, <2>5, <2>6 DEF FwdTypes, Aside
  <2> QED
    BY <1>p, <2>7, <2>8, <2>9, <2>10
<1>4. CASE OpenFails(c)
  <2>0. /\ request[c].at = "open" /\ Goto(c, "done") /\ reserved' = [reserved EXCEPT ![request[c].owner] = @ - 1]
        /\ UNCHANGED <<fwds, fmClosed, tunnel, doomed, tearing, conn>>
    BY <1>4 DEF OpenFails
  <2>1. PICK o \in Owners : o = request[c].owner
    BY <1>0, <2>0 DEF Asked
  <2>4. /\ request' \in [Calls -> RequestRecs]
        /\ request'[c].at = "done" /\ request'[c].owner = o
        /\ \A d \in Calls : d # c => request'[d] = request[d]
    BY <1>0, <2>0, <2>1, Moves DEF Places
  <2>5. PlacesHeld'
    BY <1>0, <2>0, <2>1, <2>4, GivesBack DEF Dialling
  <2>6. Asked'
    BY <1>0, <2>1, <2>4 DEF Asked
  <2>7. Reachable'
    BY <1>0, <2>0, <2>4 DEF Reachable, Held
  <2>8. FwdTypes' /\ Aside
    BY <1>0, <2>0, <2>4 DEF FwdTypes, Aside
  <2> QED
    BY <1>p, <2>5, <2>6, <2>7, <2>8
<1>5. CASE Register(c)
  <2>0. /\ request[c].at = "register" /\ reserved' = [reserved EXCEPT ![request[c].owner] = @ - 1]
        /\ UNCHANGED <<fmClosed, tunnel, doomed, conn>>
    BY <1>5 DEF Register
  <2>1. PICK o \in Owners, f \in Fwds : o = request[c].owner /\ f = request[c].fwd
    BY <1>0, <2>0 DEF Asked
  <2>2. PICK at \in {"done", "publish"} :
           /\ Goto(c, at)
           /\ \/ fmClosed /\ tearing' = tearing \cup {f} /\ UNCHANGED fwds
              \/ ~fmClosed /\ fwds' = fwds \cup {f} /\ UNCHANGED tearing
    BY <1>5, <2>1 DEF Register
  <2>4. /\ request' \in [Calls -> RequestRecs]
        /\ request'[c].at = at /\ request'[c].owner = o /\ request'[c].fwd = f
        /\ \A d \in Calls : d # c => request'[d] = request[d]
    BY <1>0, <2>1, <2>2, Moves DEF Places
  <2>5. PlacesHeld'
    BY <1>0, <2>0, <2>1, <2>4, GivesBack DEF Dialling
  <2>6. Asked'
    BY <1>0, <2>1, <2>4 DEF Asked
  <2>7. Reachable'
    <3>1. (fmClosed => fwds' = {}) /\ fwds \cup tearing \cup {f} = fwds' \cup tearing'
      BY <1>0, <2>2 DEF Reachable
    <3>2. \A g \in Fwds : Held(g) => Held(g)' \/ g = f
      BY <2>1, <2>4 DEF Held
    <3> QED
      BY <1>0, <2>0, <3>1, <3>2 DEF Reachable
  <2>8. FwdTypes' /\ Aside
    BY <1>0, <1>t, <2>0, <2>2, <2>4 DEF FwdTypes, Aside
  <2> QED
    BY <1>p, <2>5, <2>6, <2>7, <2>8
<1>6. CASE Withdraw(c) \/ Publish(c)
  <2>0. request[c].at = "publish" /\ Goto(c, "done") /\ UNCHANGED <<reserved, fmClosed, tunnel, doomed, conn>>
    BY <1>6 DEF Withdraw, Publish
  <2>1. /\ fwds' \subseteq fwds /\ tearing \subseteq tearing' /\ tearing' \subseteq tearing \cup fwds
        /\ fwds \cup tearing \subseteq fwds' \cup tearing'
    BY <1>6 DEF Withdraw, Publish, Unregistered
  <2>4. /\ request' \in [Calls -> RequestRecs]
        /\ request'[c].at = "done" /\ request'[c].owner = request[c].owner
        /\ \A d \in Calls : d # c => request'[d] = request[d]
    BY <1>0, <2>0, Moves DEF Places
  <2>5. PlacesHeld'
    BY <1>0, <2>0, <2>4, TakesNone DEF Dialling
  <2>6. Asked'
    BY <1>0, <2>0, <2>4 DEF Asked
  <2>7. Reachable'
    <3>1. \A g \in Fwds : Held(g) => Held(g)'
      BY <2>0, <2>4 DEF Held
    <3> QED
      BY <1>0, <2>0, <2>1, <3>1 DEF Reachable
  <2>8. FwdTypes' /\ Aside
    BY <1>0, <1>t, <2>0, <2>1, <2>4 DEF FwdTypes, Aside
  <2> QED
    BY <1>p, <2>5, <2>6, <2>7, <2>8
<1> QED
  BY <1>1, <1>2, <1>3, <1>4, <1>5, <1>6

LEMMA CloserKeeps ==
  ASSUME FwdInv, EngineCloses \/ Shutdown \/ \E f \in Fwds : PortForwardClose(f)
  PROVE  FwdInv'
<1>0. FwdTypes /\ Asked /\ Reachable /\ PlacesHeld /\ \A h \in Conns : Piped(h)
  BY DEF FwdInv
<1>1. /\ UNCHANGED <<reserved, tunnel, doomed, request, conn>>
      /\ fwds' \subseteq fwds /\ tearing' \subseteq tearing \cup fwds
      /\ fwds \cup tearing \subseteq fwds' \cup tearing'
      /\ fmClosed' = fmClosed \/ fwds' = {}
  BY DEF EngineCloses, Shutdown, PortForwardClose, Unregistered
<1>2. FwdTypes' /\ Aside
  BY <1>0, <1>1 DEF FwdTypes, Aside
<1>3. Asked' /\ PlacesHeld'
  BY <1>0, <1>1 DEF Asked, PlacesHeld, Reserving
<1>4. Reachable'
  BY <1>0, <1>1 DEF Reachable, Held
<1> QED
  BY <1>0, <1>2, <1>3, <1>4, PipesAside DEF FwdInv

-----------------------------------------------------------------------------
(* The theorems.                                                           *)

LEMMA FwdStep_Inv == ASSUME Parameters, FwdInv, [Next]_fwdVars PROVE FwdInv'
<1>1. CASE UNCHANGED fwdVars
  BY <1>1 DEF fwdVars, FwdInv, FwdTypes, Asked, Reachable, Held, PlacesHeld, Reserving, Piped
<1>2. CASE Next
  <2>1. /\ Fresh({f \in Fwds : tunnel[f] = "none"}) \subseteq {f \in Fwds : tunnel[f] = "none"}
        /\ Fresh({h \in Conns : conn[h].at = "none"}) \subseteq Conns
    BY DEF Fresh
  <2>2. \/ \E c \in Calls :
             \/ \E o \in Owners : PortForward(c, o)
             \/ \E f \in Fwds : tunnel[f] = "none" /\ OpenForward(c, f)
             \/ Start(c) \/ OpenFails(c) \/ Register(c) \/ Withdraw(c) \/ Publish(c)
        \/ EngineCloses \/ Shutdown \/ \E f \in Fwds : PortForwardClose(f)
        \/ \E f \in Fwds : CloseMark(f) \/ CloseReap(f)
        \/ \E f \in Fwds : \E h \in Conns : Accept(h, f)
        \/ \E h \in Conns : ConnSteps(h)
    BY <1>2, <2>1 DEF Next, ConnSteps
  <2>3. CASE \E c \in Calls :
             \/ \E o \in Owners : PortForward(c, o)
             \/ \E f \in Fwds : tunnel[f] = "none" /\ OpenForward(c, f)
             \/ Start(c) \/ OpenFails(c) \/ Register(c) \/ Withdraw(c) \/ Publish(c)
    BY <2>3, RequestKeeps
  <2>4. CASE EngineCloses \/ Shutdown \/ \E f \in Fwds : PortForwardClose(f)
    BY <2>4, CloserKeeps
  <2>5. CASE \E f \in Fwds : CloseMark(f) \/ CloseReap(f)
    BY <2>5, MarkKeeps, ReapKeeps
  <2>6. CASE \E f \in Fwds : \E h \in Conns : Accept(h, f)
    BY <2>6, AcceptKeeps
  <2>7. CASE \E h \in Conns : ConnSteps(h)
    BY <2>7, ConnKeeps
  <2> QED
    BY <2>2, <2>3, <2>4, <2>5, <2>6, <2>7
<1> QED
  BY <1>1, <1>2

\* A tunnel that is not closed is in the registry, in somebody's hands, or the
\* request's that dialled it; the sockets Close takes are all there are.
THEOREM ForwardInvariant == ASSUME Parameters PROVE Spec => []FwdInv
<1>1. Init => FwdInv
  BY FwdInit_Inv
<1>2. FwdInv /\ [Next]_fwdVars => FwdInv'
  BY FwdStep_Inv
<1> QED
  BY <1>1, <1>2, PTL DEF Spec

\* After the shutdown, and once every request has returned, no tunnel is open, no
\* place is reserved, and a pipe of a closed tunnel has lost both its sockets:
\* Register looks again at what Shutdown set, and TrackRemote at what Close set.
THEOREM TunnelsAreClosed == ASSUME Parameters PROVE Spec => []NoTunnelOutlivesShutdown
<1>1. Spec => []FwdInv
  BY ForwardInvariant
<1>2. FwdInv => NoTunnelOutlivesShutdown
  <2> SUFFICES ASSUME FwdInv PROVE NoTunnelOutlivesShutdown
    OBVIOUS
  <2>1. \A h \in Conns : conn[h].at = "piping" /\ tunnel[conn[h].fwd] = "closed" =>
           conn[h].local = "shut" /\ conn[h].remote = "shut"
    BY DEF FwdInv, Piped
  <2>2. ASSUME fmClosed, tearing = {}, \A c \in Calls : request[c].at \in {"idle", "done"}
        PROVE  /\ \A f \in Fwds : tunnel[f] \in {"none", "closed"}
               /\ \A o \in Owners : reserved[o] = 0
    <3>1. \A f \in Fwds : tunnel[f] \in {"none", "closed"}
      BY <2>2 DEF FwdInv, FwdTypes, Reachable, Held
    <3>2. \A o \in Owners : Reserving(o) = {}
      BY <2>2 DEF Reserving, Dialling
    <3> QED
      BY <3>1, <3>2, FS_EmptySet DEF FwdInv, PlacesHeld
  <2> QED
    BY <2>1, <2>2 DEF NoTunnelOutlivesShutdown
<1> QED
  BY <1>1, <1>2, PTL

================================================================================
