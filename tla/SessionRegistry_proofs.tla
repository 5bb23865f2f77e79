------------------------ MODULE SessionRegistry_proofs ------------------------
(***************************************************************************)
(* One default session per owner, and no shell after Shutdown, for any     *)
(* sessions and owners, any finite set of calls and any limits.            *)
(***************************************************************************)
EXTENDS SessionRegistry, FiniteSetTheorems, TLAPS

\* What the names that stand for "none" must be, and that calls can be counted.
Parameters == NoSess \notin Sess /\ NoCall \notin Calls /\ IsFiniteSet(Calls)

Places   == {"idle", "create", "dial", "register", "lookup", "default", "done"}
Making   == {"create", "dial", "register", "default"}
CallType == [at : Places, owner : Owners \cup {NoOwner}, sess : Sess \cup {NoSess}, default : BOOLEAN]

SessTypes ==
    /\ sessions \subseteq Sess /\ closing \subseteq Sess /\ closed \in BOOLEAN
    /\ defaults \in [Owners -> Sess \cup {NoSess}]
    /\ defaultMu \in [Owners -> Calls \cup {NoCall}]
    /\ shell \in [Sess -> {"none", "open", "closed"}]
    /\ owner \in [Sess -> Owners \cup {NoOwner}]
    /\ call \in [Calls -> CallType]

\* A session that anybody knows was dialled; the one a call is about to
\* register is known to that call only.
Dialled ==
    /\ \A s \in sessions \cup closing : shell[s] # "none"
    /\ \A c \in Calls : /\ call[c].at # "idle" => call[c].owner \in Owners
                        /\ call[c].sess # NoSess => shell[call[c].sess] # "none"
                        /\ call[c].at \in {"idle", "create", "dial", "lookup"} => call[c].sess = NoSess
                        /\ call[c].at \in {"register", "default"} => call[c].sess # NoSess
                        /\ call[c].at \in {"register", "default"} => owner[call[c].sess] = call[c].owner
                        /\ call[c].at = "default" => call[c].default
    /\ \A c, d \in Calls : call[c].at = "register" /\ c # d => call[d].sess # call[c].sess
    /\ \A c \in Calls : call[c].at = "register" => call[c].sess \notin sessions

\* A default is registered, and its owner's.
DefaultsKnown ==
    \A o \in Owners : defaults[o] # NoSess => defaults[o] \in sessions /\ owner[defaults[o]] = o

\* Whoever looks up or makes a default session holds the lock; while it makes
\* one there is none; who has returned with one that is registered has the default.
Locked ==
    \A c \in Calls : call[c].default =>
        /\ Busy(c) => defaultMu[call[c].owner] = c
        /\ call[c].at \in Making => defaults[call[c].owner] = NoSess
        /\ call[c].at = "done" /\ call[c].sess \in sessions => defaults[call[c].owner] = call[c].sess

\* An open shell is registered, about to be closed, or with the call that dialled it.
Reachable ==
    /\ closed => sessions = {}
    /\ \A s \in Sess : shell[s] = "open" =>
         \/ s \in sessions \cup closing
         \/ \E c \in Calls : call[c].at = "register" /\ call[c].sess = s

Reserving(o) == {c \in Calls : call[c].at \in {"dial", "register"} /\ call[c].owner = o}

\* The places reserved are those of the calls between Reserve and Register.
PlacesHeld ==
    /\ reserved \in [Owners -> Nat]
    /\ \A o \in Owners : reserved[o] = Cardinality(Reserving(o))

SessInv == SessTypes /\ Dialled /\ DefaultsKnown /\ Locked /\ Reachable

LEMMA SessInit_Inv == ASSUME Parameters, Init PROVE SessInv /\ PlacesHeld
<1>1. SessTypes
  BY DEF Init, SessTypes, CallType, Places, Idle
<1>2. Dialled /\ DefaultsKnown /\ Locked /\ Reachable
  BY DEF Init, Dialled, DefaultsKnown, Locked, Reachable, Busy, Idle
<1>3. \A o \in Owners : Reserving(o) = {}
  BY DEF Init, Reserving, Idle
<1>4. PlacesHeld
  BY <1>3, FS_EmptySet DEF Init, PlacesHeld
<1> QED
  BY <1>1, <1>2, <1>4 DEF SessInv

\* The places of the other owners, and of calls that go elsewhere, stay.
LEMMA Counting ==
  ASSUME Parameters, SessTypes, PlacesHeld, NEW c \in Calls, NEW o \in Owners
  PROVE  /\ Reserving(o)' = Reserving(o) => Cardinality(Reserving(o)') = reserved[o]
         /\ (c \notin Reserving(o) /\ Reserving(o)' = Reserving(o) \cup {c}) =>
               Cardinality(Reserving(o)') = reserved[o] + 1
         /\ (c \in Reserving(o) /\ Reserving(o)' = Reserving(o) \ {c}) =>
               /\ Cardinality(Reserving(o)') = reserved[o] - 1 /\ reserved[o] - 1 \in Nat
<1>1. IsFiniteSet(Reserving(o))
  BY FS_Subset DEF Parameters, Reserving
<1>2. reserved[o] = Cardinality(Reserving(o))
  BY DEF PlacesHeld
<1>3. c \notin Reserving(o) => Cardinality(Reserving(o) \cup {c}) = Cardinality(Reserving(o)) + 1
  BY <1>1, FS_AddElement
<1>4. c \in Reserving(o) =>
        /\ IsFiniteSet(Reserving(o) \ {c})
        /\ Cardinality(Reserving(o) \ {c}) = Cardinality(Reserving(o)) - 1
  BY <1>1, FS_RemoveElement
<1>5. IsFiniteSet(Reserving(o) \ {c}) => Cardinality(Reserving(o) \ {c}) \in Nat
  BY FS_CardinalityType
<1> QED
  BY <1>2, <1>3, <1>4, <1>5

LEMMA Counted ==
  ASSUME Parameters, SessInv, PlacesHeld, [Next]_sessVars
  PROVE  PlacesHeld'
<1> USE DEF SessInv, Goto
<1>1. ASSUME NEW c \in Calls, Reserve(c) PROVE PlacesHeld'
  <2> PICK o \in Owners : o = call[c].owner
    BY <1>1 DEF Reserve, Dialled
  <2>1. call[c].at = "create"
    BY <1>1 DEF Reserve
  <2>2. CASE closed \/ Full(o)
    <3>1. UNCHANGED reserved /\ \A p \in Owners : Reserving(p)' = Reserving(p)
      BY <1>1, <2>1, <2>2 DEF Reserve, Return, Reserving, SessTypes, CallType
    <3> QED
      BY <3>1, Counting DEF PlacesHeld
  <2>3. CASE ~(closed \/ Full(o))
    <3>1. /\ reserved' = [reserved EXCEPT ![o] = @ + 1]
          /\ c \notin Reserving(o) /\ Reserving(o)' = Reserving(o) \cup {c}
          /\ \A p \in Owners : p # o => Reserving(p)' = Reserving(p)
      BY <1>1, <2>1, <2>3 DEF Reserve, Reserving, SessTypes, CallType
    <3>2. Cardinality(Reserving(o)') = reserved[o] + 1
      BY <2>1, <3>1, Counting
    <3>3. \A p \in Owners : p # o => Cardinality(Reserving(p)') = reserved[p]
      BY <3>1, Counting
    <3> QED
      BY <2>1, <3>1, <3>2, <3>3 DEF PlacesHeld
  <2> QED
    BY <2>2, <2>3
<1>2. ASSUME NEW c \in Calls, call[c].at \in {"dial", "register"},
             reserved' = [reserved EXCEPT ![call[c].owner] = @ - 1],
             call'[c].at \notin {"dial", "register"}, \A d \in Calls : d # c => call'[d] = call[d]
      PROVE PlacesHeld'
  <2>1. PICK o \in Owners : o = call[c].owner
    BY <1>2 DEF Dialled
  <2>2. /\ c \in Reserving(o) /\ Reserving(o)' = Reserving(o) \ {c}
        /\ \A p \in Owners : p # o => Reserving(p)' = Reserving(p)
    BY <1>2, <2>1 DEF Reserving
  <2>3. Cardinality(Reserving(o)') = reserved[o] - 1 /\ reserved[o] - 1 \in Nat
    BY <2>1, <2>2, Counting
  <2>4. \A p \in Owners : p # o => Cardinality(Reserving(p)') = reserved[p]
    BY <2>2, Counting
  <2>5. reserved' = [reserved EXCEPT ![o] = @ - 1]
    BY <1>2, <2>1
  <2> QED
    BY <2>1, <2>3, <2>4, <2>5 DEF PlacesHeld
<1>3. ASSUME UNCHANGED reserved, \A p \in Owners : Reserving(p)' = Reserving(p) PROVE PlacesHeld'
  BY <1>3 DEF PlacesHeld
<1>4. ASSUME NEW c \in Calls, Register(c) \/ DialFails(c) PROVE PlacesHeld'
  <2>1. /\ call[c].at \in {"dial", "register"} /\ call'[c].at \notin {"dial", "register"}
        /\ reserved' = [reserved EXCEPT ![call[c].owner] = @ - 1]
        /\ \A d \in Calls : d # c => call'[d] = call[d]
    BY <1>4 DEF Register, DialFails, Return, SessTypes, CallType
  <2> QED
    BY <1>2, <2>1
<1>5. ASSUME NEW c \in Calls, NEW s \in Sess, Dial(c, s) PROVE PlacesHeld'
  BY <1>3, <1>5 DEF Dial, Reserving, SessTypes, CallType
<1>6. ASSUME NEW c \in Calls, NEW o \in Owners, CreateBegin(c, o) \/ DefaultBegin(c, o) PROVE PlacesHeld'
  <2>1. /\ call[c].at = "idle" /\ UNCHANGED reserved
        /\ \E b \in {[Idle EXCEPT !.at = "create", !.owner = o],
                    [Idle EXCEPT !.at = "lookup", !.owner = o, !.default = TRUE]} :
               call' = [call EXCEPT ![c] = b]
    BY <1>6 DEF CreateBegin, DefaultBegin
  <2>2. call'[c].at \in {"create", "lookup"} /\ \A d \in Calls : d # c => call'[d] = call[d]
    BY <2>1 DEF Idle, SessTypes
  <2> QED
    BY <1>3, <2>1, <2>2 DEF Reserving
<1>7. ASSUME NEW c \in Calls, Lookup(c) \/ SetDefault(c) PROVE PlacesHeld'
  <2>1. /\ call[c].at \in {"lookup", "default"} /\ call'[c].at \notin {"dial", "register"}
        /\ \A d \in Calls : d # c => call'[d] = call[d]
        /\ UNCHANGED reserved
    BY <1>7 DEF Lookup, SetDefault, Return, SessTypes, CallType
  <2> QED
    BY <1>3, <2>1 DEF Reserving
<1>8. ASSUME UNCHANGED <<reserved, call>> PROVE PlacesHeld'
  BY <1>3, <1>8 DEF Reserving
<1>9. ASSUME NEW s \in Sess, CloseSession(s) \/ CloseShell(s) \/ ShellExits(s) PROVE PlacesHeld'
  BY <1>8, <1>9 DEF CloseSession, CloseShell, ShellExits
<1>10. ASSUME Shutdown \/ UNCHANGED sessVars PROVE PlacesHeld'
  BY <1>8, <1>10 DEF Shutdown, sessVars
<1>11. Fresh({s \in Sess : shell[s] = "none"}) \subseteq Sess
  BY DEF Fresh
<1> QED
  BY <1>1, <1>4, <1>5, <1>6, <1>7, <1>9, <1>10, <1>11 DEF Next

\* What a call that returns does: it alone moves, and gives back its own lock.
LEMMA ReturnEffect ==
  ASSUME SessTypes, NEW c \in Calls, NEW s \in Sess \cup {NoSess}, Return(c, s)
  PROVE  /\ call' \in [Calls -> CallType] /\ defaultMu' \in [Owners -> Calls \cup {NoCall}]
         /\ call'[c].at = "done" /\ call'[c].sess = s
         /\ call'[c].owner = call[c].owner /\ call'[c].default = call[c].default
         /\ \A d \in Calls : d # c => call'[d] = call[d]
         /\ \A o \in Owners : defaultMu[o] # c => defaultMu'[o] = defaultMu[o]
BY DEF Return, SessTypes, CallType, Places

\* What a call that goes on does.
LEMMA GotoEffect ==
  ASSUME SessTypes, NEW c \in Calls, NEW at \in Places, Goto(c, at)
  PROVE  /\ call' \in [Calls -> CallType] /\ UNCHANGED defaultMu
         /\ call'[c].at = at /\ call'[c].sess = call[c].sess
         /\ call'[c].owner = call[c].owner /\ call'[c].default = call[c].default
         /\ \A d \in Calls : d # c => call'[d] = call[d]
BY DEF Goto, SessTypes, CallType, Places

\* A call that has no session yet goes on, or returns without one.
LEMMA EmptyHanded ==
  ASSUME Parameters, SessInv, NEW c \in Calls, NEW at \in {"create", "dial", "done"},
         call[c].at \in {"create", "dial", "lookup"},
         call[c].at = "lookup" /\ at = "create" => defaults[call[c].owner] = NoSess,
         at = "dial" => call[c].at = "create",
         IF at = "done" THEN Return(c, NoSess) ELSE Goto(c, at),
         UNCHANGED <<sessions, defaults, closed, shell, owner, closing>>
  PROVE  SessInv'
<1>1. SessTypes /\ at \in Places /\ NoSess \in Sess \cup {NoSess}
  BY DEF SessInv, Places
<1>2. /\ call' \in [Calls -> CallType] /\ defaultMu' \in [Owners -> Calls \cup {NoCall}]
      /\ call'[c].at = at /\ call'[c].sess = NoSess
      /\ call'[c].owner = call[c].owner /\ call'[c].default = call[c].default
      /\ \A d \in Calls : d # c => call'[d] = call[d]
      /\ \A o \in Owners : defaultMu[o] # c => defaultMu'[o] = defaultMu[o]
      /\ at # "done" => UNCHANGED defaultMu
  <2>1. CASE at = "done"
    BY <1>1, <2>1, ReturnEffect
  <2>2. CASE at # "done" /\ Goto(c, at)
    <3>1. call[c].sess = NoSess
      BY DEF SessInv, Dialled
    <3>2. defaultMu \in [Owners -> Calls \cup {NoCall}]
      BY <1>1 DEF SessTypes
    <3> QED
      BY <1>1, <2>2, <3>1, <3>2, GotoEffect
  <2> QED
    BY <2>1, <2>2
<1>3. SessTypes'
  BY <1>1, <1>2 DEF SessTypes
<1>4. Dialled'
  BY <1>2 DEF SessInv, Dialled
<1>5. DefaultsKnown'
  BY DEF SessInv, DefaultsKnown
<1>6. Locked'
  <2>1. NoSess \notin sessions /\ call[c].owner \in Owners
    BY <1>1 DEF Parameters, SessInv, SessTypes, Dialled
  <2>2. \A d \in Calls : d # c /\ call[d].at # "idle" => call[d].owner \in Owners
    BY DEF SessInv, Dialled
  <2>3. \A d \in Calls : d # c /\ call[d].default /\ Busy(d) => defaultMu'[call[d].owner] = d
    BY <1>2, <2>2 DEF SessInv, Locked, Busy
  <2> QED
    BY <1>2, <2>1, <2>3 DEF SessInv, Locked, Busy, Making
<1>7. Reachable'
  BY <1>2 DEF SessInv, Reachable
<1> QED
  BY <1>3, <1>4, <1>5, <1>6, <1>7 DEF SessInv

LEMMA SessNext_Inv ==
  ASSUME Parameters, SessInv, [Next]_sessVars
  PROVE  SessInv'
<1> USE DEF SessInv, Parameters, Places, Making, CallType
<1>1. ASSUME NEW c \in Calls, NEW o \in Owners, CreateBegin(c, o) PROVE SessInv'
  <2>1. /\ call'[c] = [at |-> "create", owner |-> o, sess |-> NoSess, default |-> FALSE]
        /\ \A d \in Calls : d # c => call'[d] = call[d]
        /\ call[c].at = "idle"
        /\ UNCHANGED <<sessions, defaults, defaultMu, closed, shell, owner, closing>>
    BY <1>1 DEF CreateBegin, Idle, SessTypes
  <2>2. SessTypes'
    BY <1>1, <2>1 DEF CreateBegin, Idle, SessTypes
  <2>3. Dialled' /\ DefaultsKnown' /\ Locked'
    BY <2>1 DEF Dialled, DefaultsKnown, Locked, Busy
  <2>4. Reachable'
    BY <2>1 DEF Reachable
  <2> QED
    BY <2>2, <2>3, <2>4
<1>2. ASSUME NEW c \in Calls, NEW o \in Owners, DefaultBegin(c, o) PROVE SessInv'
  <2>1. /\ call'[c] = [at |-> "lookup", owner |-> o, sess |-> NoSess, default |-> TRUE]
        /\ \A d \in Calls : d # c => call'[d] = call[d]
        /\ call[c].at = "idle" /\ defaultMu[o] = NoCall
        /\ defaultMu'[o] = c /\ \A p \in Owners : p # o => defaultMu'[p] = defaultMu[p]
        /\ UNCHANGED <<sessions, defaults, closed, shell, owner, closing>>
    BY <1>2 DEF DefaultBegin, Idle, SessTypes
  <2>2. SessTypes'
    BY <1>2, <2>1 DEF DefaultBegin, Idle, SessTypes
  <2>3. Dialled' /\ DefaultsKnown'
    BY <2>1 DEF Dialled, DefaultsKnown
  <2>4. Locked'
    BY <2>1 DEF Locked, Dialled, Busy
  <2>5. Reachable'
    BY <2>1 DEF Reachable
  <2> QED
    BY <2>2, <2>3, <2>4, <2>5
<1>3. ASSUME NEW c \in Calls, Reserve(c) PROVE SessInv'
  <2>1. call[c].at = "create" /\ UNCHANGED <<sessions, defaults, closed, shell, owner, closing>>
    BY <1>3 DEF Reserve
  <2>2. CASE Return(c, NoSess)
    BY <2>1, <2>2, EmptyHanded
  <2>3. CASE Goto(c, "dial")
    BY <2>1, <2>3, EmptyHanded
  <2> QED
    BY <1>3, <2>2, <2>3 DEF Reserve
<1>4. ASSUME NEW c \in Calls, NEW s \in Sess, Dial(c, s) PROVE SessInv'
  <2>1. /\ call[c].at = "dial" /\ shell[s] = "none"
        /\ UNCHANGED <<sessions, defaults, defaultMu, closed, closing>>
        /\ call'[c].at = "register" /\ call'[c].sess = s
        /\ call'[c].owner = call[c].owner /\ call'[c].default = call[c].default
        /\ \A d \in Calls : d # c => call'[d] = call[d]
        /\ shell'[s] = "open" /\ owner'[s] = call[c].owner
        /\ \A t \in Sess : t # s => shell'[t] = shell[t] /\ owner'[t] = owner[t]
    BY <1>4 DEF Dial, SessTypes
  <2>2. SessTypes'
    BY <1>4, <2>1 DEF Dial, SessTypes, Dialled
  <2>3. Dialled'
    <3>1. \A d \in Calls : d # c => call[d].sess # s
      BY <2>1 DEF SessTypes, Dialled
    <3>2. s \notin sessions \cup closing /\ call[c].owner \in Owners
      BY <2>1 DEF Dialled
    <3>3. \A d \in Calls : call[d].sess \in Sess \cup {NoSess}
      BY DEF SessTypes
    <3>4. sessions \cup closing \subseteq Sess
      BY DEF SessTypes
    <3> QED
      BY <2>1, <3>1, <3>2, <3>3, <3>4 DEF Dialled
  <2>4. DefaultsKnown'
    BY <2>1 DEF SessTypes, Dialled, DefaultsKnown
  <2>5. Locked'
    BY <2>1 DEF Locked, Busy
  <2>6. Reachable'
    BY <2>1 DEF Reachable
  <2> QED
    BY <2>2, <2>3, <2>4, <2>5, <2>6
<1>5. ASSUME NEW c \in Calls, DialFails(c) PROVE SessInv'
  <2>1. /\ call[c].at = "dial" /\ Return(c, NoSess)
        /\ UNCHANGED <<sessions, defaults, closed, shell, owner, closing>>
    BY <1>5 DEF DialFails
  <2> QED
    BY <2>1, EmptyHanded
<1>6. ASSUME NEW c \in Calls, Register(c) PROVE SessInv'
  <2> DEFINE s == call[c].sess
  <2>1. /\ call[c].at = "register" /\ s \in Sess /\ s \notin sessions /\ shell[s] # "none"
        /\ owner[s] = call[c].owner /\ call[c].owner \in Owners
        /\ UNCHANGED <<defaults, closed, shell, owner>>
    BY <1>6 DEF Register, Dialled, SessTypes
  <2>2. CASE closed /\ Return(c, NoSess) /\ closing' = closing \cup {s} /\ UNCHANGED sessions
    <3>1. /\ call' \in [Calls -> CallType] /\ defaultMu' \in [Owners -> Calls \cup {NoCall}]
          /\ call'[c].at = "done" /\ call'[c].sess = NoSess
          /\ call'[c].owner = call[c].owner /\ call'[c].default = call[c].default
          /\ \A d \in Calls : d # c => call'[d] = call[d]
          /\ \A p \in Owners : defaultMu[p] # c => defaultMu'[p] = defaultMu[p]
      BY <2>2, ReturnEffect
    <3>2. SessTypes' /\ DefaultsKnown'
      BY <2>1, <2>2, <3>1 DEF SessTypes, DefaultsKnown
    <3>3. Dialled'
      BY <2>1, <2>2, <3>1 DEF Dialled
    <3>4. Locked'
      BY <2>1, <2>2, <3>1 DEF SessTypes, Dialled, Locked, Busy
    <3>5. Reachable'
      BY <2>1, <2>2, <3>1 DEF Reachable
    <3> QED
      BY <3>2, <3>3, <3>4, <3>5
  <2>3. CASE ~closed /\ call[c].default /\ Goto(c, "default") /\ sessions' = sessions \cup {s} /\ UNCHANGED closing
    <3>1. SessTypes' /\ Dialled' /\ DefaultsKnown'
      BY <2>1, <2>3, GotoEffect DEF SessTypes, Dialled, DefaultsKnown
    <3>2. Locked' /\ Reachable'
      BY <2>1, <2>3, GotoEffect DEF SessTypes, Dialled, Locked, Busy, Reachable
    <3> QED
      BY <3>1, <3>2
  <2>4. CASE ~closed /\ ~call[c].default /\ Return(c, s) /\ sessions' = sessions \cup {s} /\ UNCHANGED closing
    <3>1. SessTypes' /\ Dialled' /\ DefaultsKnown'
      BY <2>1, <2>4, ReturnEffect DEF SessTypes, Dialled, DefaultsKnown
    <3>2. Locked' /\ Reachable'
      BY <2>1, <2>4, ReturnEffect DEF SessTypes, Dialled, Locked, Busy, Reachable
    <3> QED
      BY <3>1, <3>2
  <2> QED
    BY <1>6, <2>2, <2>3, <2>4 DEF Register, SessTypes
<1>7. ASSUME NEW c \in Calls, Lookup(c) PROVE SessInv'
  <2> DEFINE o == call[c].owner
             s == defaults[o]
  <2>1. /\ call[c].at = "lookup" /\ o \in Owners /\ call[c].sess = NoSess
        /\ UNCHANGED <<reserved, closed, shell, owner, closing>>
    BY <1>7 DEF Lookup, Dialled
  <2>2. \/ Return(c, NoSess) /\ UNCHANGED <<sessions, defaults>>
        \/ /\ s \in sessions /\ shell[s] = "closed" /\ Goto(c, "create")
           /\ sessions' = sessions \ {s} /\ defaults' = [defaults EXCEPT ![o] = NoSess]
        \/ /\ s \in sessions /\ Return(c, s) /\ UNCHANGED <<sessions, defaults>>
        \/ /\ s \notin sessions /\ Goto(c, "create") /\ UNCHANGED <<sessions, defaults>>
    BY <1>7, <2>1 DEF Lookup, SessTypes, Dialled
  <2>3. CASE Return(c, NoSess) /\ UNCHANGED <<sessions, defaults>>
    BY <2>1, <2>3, EmptyHanded
  <2>4. CASE /\ s \in sessions /\ shell[s] = "closed" /\ Goto(c, "create")
             /\ sessions' = sessions \ {s} /\ defaults' = [defaults EXCEPT ![o] = NoSess]
    <3>1. /\ defaults'[o] = NoSess /\ s # NoSess
          /\ \A p \in Owners : p # o => defaults'[p] = defaults[p] /\ defaults[p] # s
      BY <2>1, <2>4 DEF SessTypes, DefaultsKnown
    <3>2. SessTypes' /\ Dialled'
      BY <2>1, <2>4, GotoEffect DEF SessTypes, Dialled
    <3>3. DefaultsKnown'
      BY <2>1, <2>4, <3>1 DEF DefaultsKnown
    <3>4. Locked' /\ Reachable'
      BY <2>1, <2>4, <3>1, GotoEffect DEF SessTypes, Dialled, Locked, Busy, Reachable
    <3> QED
      BY <3>2, <3>3, <3>4
  <2>5. CASE s \in sessions /\ Return(c, s) /\ UNCHANGED <<sessions, defaults>>
    <3>1. s \in Sess \cup {NoSess} /\ shell[s] # "none" /\ s # NoSess
      BY <2>1, <2>5 DEF SessTypes, Dialled
    <3>0. /\ call' \in [Calls -> CallType] /\ defaultMu' \in [Owners -> Calls \cup {NoCall}]
          /\ call'[c].at = "done" /\ call'[c].sess = s
          /\ call'[c].owner = call[c].owner /\ call'[c].default = call[c].default
          /\ \A d \in Calls : d # c => call'[d] = call[d]
          /\ \A p \in Owners : defaultMu[p] # c => defaultMu'[p] = defaultMu[p]
      BY <2>5, <3>1, ReturnEffect
    <3>2. SessTypes' /\ DefaultsKnown'
      BY <2>1, <2>5, <3>0 DEF SessTypes, DefaultsKnown
    <3>3. Dialled'
      BY <2>1, <2>5, <3>0, <3>1 DEF Dialled
    <3>4. Locked'
      BY <2>1, <2>5, <3>0, <3>1 DEF Dialled, Locked, Busy
    <3>5. Reachable'
      BY <2>1, <2>5, <3>0 DEF Reachable
    <3> QED
      BY <3>2, <3>3, <3>4, <3>5
  <2>6. CASE s \notin sessions /\ Goto(c, "create") /\ UNCHANGED <<sessions, defaults>>
    <3>1. s = NoSess
      BY <2>1, <2>6 DEF DefaultsKnown
    <3> QED
      BY <2>1, <2>6, <3>1, EmptyHanded
  <2> QED
    BY <2>2, <2>3, <2>4, <2>5, <2>6
<1>8. ASSUME NEW c \in Calls, SetDefault(c) PROVE SessInv'
  <2> DEFINE o == call[c].owner
             s == call[c].sess
  <2>1. /\ call[c].at = "default" /\ o \in Owners /\ s \in Sess /\ shell[s] # "none"
        /\ call[c].default /\ owner[s] = o
        /\ UNCHANGED <<sessions, reserved, closed, shell, owner>>
    BY <1>8 DEF SetDefault, Dialled, SessTypes
  <2>2. CASE closing' = closing \cup {s} /\ Return(c, NoSess) /\ UNCHANGED defaults
    <3>1. /\ call' \in [Calls -> CallType] /\ defaultMu' \in [Owners -> Calls \cup {NoCall}]
          /\ call'[c].at = "done" /\ call'[c].sess = NoSess
          /\ call'[c].owner = call[c].owner /\ call'[c].default = call[c].default
          /\ \A d \in Calls : d # c => call'[d] = call[d]
          /\ \A p \in Owners : defaultMu[p] # c => defaultMu'[p] = defaultMu[p]
      BY <2>2, ReturnEffect
    <3>2. SessTypes' /\ DefaultsKnown'
      BY <2>1, <2>2, <3>1 DEF SessTypes, DefaultsKnown
    <3>3. Dialled'
      <4>1. \A t \in sessions' \cup closing' : shell'[t] # "none"
        BY <2>1, <2>2 DEF Dialled
      <4>2. \A d, e \in Calls : call'[d].at = "register" /\ d # e =>
              /\ call[d].at = "register" /\ call'[d].sess = call[d].sess /\ call[d].sess # NoSess
              /\ call[e].sess # call[d].sess
        BY <3>1 DEF Dialled
      <4>3. \A d, e \in Calls : call'[d].at = "register" /\ d # e => call'[e].sess # call'[d].sess
        BY <3>1, <4>2
      <4>4. \A d \in Calls : call'[d].at = "register" => call'[d].sess \notin sessions'
        BY <2>1, <3>1 DEF Dialled
      <4> QED
        BY <2>1, <3>1, <4>1, <4>3, <4>4 DEF Dialled
    <3>4. Locked'
      BY <2>1, <2>2, <3>1 DEF SessTypes, Dialled, Locked, Busy
    <3>5. Reachable'
      BY <2>1, <2>2, <3>1 DEF Reachable
    <3> QED
      BY <3>2, <3>3, <3>4, <3>5
  <2>3. CASE /\ s \in sessions /\ defaults' = [defaults EXCEPT ![o] = s] /\ Return(c, s) /\ UNCHANGED closing
    <3>1. defaults[o] = NoSess /\ defaults'[o] = s /\ \A p \in Owners : p # o => defaults'[p] = defaults[p]
      BY <2>1, <2>3 DEF SessTypes, Locked
    <3>0. /\ call' \in [Calls -> CallType] /\ defaultMu' \in [Owners -> Calls \cup {NoCall}]
          /\ call'[c].at = "done" /\ call'[c].sess = s
          /\ call'[c].owner = call[c].owner /\ call'[c].default = call[c].default
          /\ \A d \in Calls : d # c => call'[d] = call[d]
          /\ \A p \in Owners : defaultMu[p] # c => defaultMu'[p] = defaultMu[p]
      BY <2>1, <2>3, ReturnEffect
    <3>2. SessTypes' /\ DefaultsKnown'
      BY <2>1, <2>3, <3>0, <3>1 DEF SessTypes, DefaultsKnown
    <3>3. Dialled'
      BY <2>1, <2>3, <3>0 DEF Dialled
    <3>4. \A d \in Calls : d # c /\ call[d].default /\ call[d].owner = o => ~Busy(d)
      BY <2>1 DEF Locked, Busy
    <3>5. Locked'
      <4>1. \A d \in Calls : d # c /\ call[d].default /\ call[d].at = "done" /\ call[d].sess \in sessions
              => call[d].owner # o
        BY <2>1, <3>1 DEF Locked, SessTypes
      <4> QED
        BY <2>1, <2>3, <3>0, <3>1, <3>4, <4>1 DEF Locked, Busy, Dialled
    <3>6. Reachable'
      BY <2>1, <2>3, <3>0 DEF Reachable
    <3> QED
      BY <3>2, <3>3, <3>5, <3>6
  <2> QED
    BY <1>8, <2>2, <2>3 DEF SetDefault
<1>9. ASSUME NEW s \in Sess, CloseSession(s) PROVE SessInv'
  <2>1. /\ s \in sessions /\ sessions' = sessions \ {s} /\ closing' = closing \cup {s}
        /\ \A o \in Owners : defaults'[o] = IF defaults[o] = s THEN NoSess ELSE defaults[o]
        /\ UNCHANGED <<defaultMu, closed, shell, owner, call>>
    BY <1>9 DEF CloseSession
  <2>2. SessTypes' /\ Dialled'
    BY <1>9, <2>1 DEF CloseSession, SessTypes, Dialled
  <2>3. DefaultsKnown'
    BY <2>1 DEF DefaultsKnown
  <2>4. Locked'
    BY <2>1 DEF Locked, Busy, Dialled
  <2>5. Reachable'
    BY <2>1 DEF Reachable
  <2> QED
    BY <2>2, <2>3, <2>4, <2>5
<1>10. ASSUME NEW s \in Sess, CloseShell(s) PROVE SessInv'
  <2>1. /\ s \in closing /\ closing' = closing \ {s}
        /\ shell'[s] = "closed" /\ \A t \in Sess : t # s => shell'[t] = shell[t]
        /\ UNCHANGED <<sessions, defaults, defaultMu, closed, owner, call>>
    BY <1>10 DEF CloseShell, SessTypes
  <2>2. SessTypes'
    BY <1>10, <2>1 DEF CloseShell, SessTypes
  <2>3. Dialled'
    BY <2>1 DEF SessTypes, Dialled
  <2> QED
    BY <2>1, <2>2, <2>3 DEF DefaultsKnown, Locked, Busy, Reachable
<1>11. ASSUME NEW s \in Sess, ShellExits(s) PROVE SessInv'
  <2>1. /\ shell'[s] = "closed" /\ \A t \in Sess : t # s => shell'[t] = shell[t]
        /\ UNCHANGED <<sessions, defaults, defaultMu, closed, owner, closing, call>>
    BY <1>11 DEF ShellExits, SessTypes
  <2>2. SessTypes'
    BY <1>11, <2>1 DEF ShellExits, SessTypes
  <2>3. Dialled'
    BY <2>1 DEF SessTypes, Dialled
  <2> QED
    BY <2>1, <2>2, <2>3 DEF DefaultsKnown, Locked, Busy, Reachable
<1>12. ASSUME Shutdown PROVE SessInv'
  <2>1. /\ closed' = TRUE /\ closing' = closing \cup sessions /\ sessions' = {}
        /\ \A o \in Owners : defaults'[o] = NoSess
        /\ UNCHANGED <<defaultMu, shell, owner, call>>
    BY <1>12 DEF Shutdown
  <2>2. SessTypes' /\ Dialled'
    BY <1>12, <2>1 DEF Shutdown, SessTypes, Dialled
  <2>3. DefaultsKnown' /\ Reachable'
    BY <2>1 DEF DefaultsKnown, Reachable
  <2>4. Locked'
    BY <2>1 DEF Locked, Busy, Dialled
  <2> QED
    BY <2>2, <2>3, <2>4
<1>13. ASSUME UNCHANGED sessVars PROVE SessInv'
  BY <1>13 DEF sessVars, SessTypes, Dialled, DefaultsKnown, Locked, Busy, Reachable
<1>14. Fresh({s \in Sess : shell[s] = "none"}) \subseteq Sess
  BY DEF Fresh
<1> QED
  BY <1>1, <1>2, <1>3, <1>4, <1>5, <1>6, <1>7, <1>8, <1>9, <1>10, <1>11, <1>12, <1>13, <1>14 DEF Next

\* Calls of an owner that name no session share one: of the open, registered
\* sessions that such calls made or were given there is at most one
\* (Manager.resolveSession).
THEOREM DefaultIsShared ==
  ASSUME Parameters
  PROVE  Spec => []OneDefaultPerOwner
<1>1. SessInv => OneDefaultPerOwner
  <2> SUFFICES ASSUME SessInv, NEW o \in Owners
               PROVE Cardinality({s \in sessions : shell[s] = "open" /\
                        \E c \in Calls : call[c].default /\ call[c].owner = o /\ call[c].sess = s}) <= 1
    BY DEF OneDefaultPerOwner
  <2> DEFINE given == {s \in sessions : shell[s] = "open" /\
                        \E c \in Calls : call[c].default /\ call[c].owner = o /\ call[c].sess = s}
  <2>1. \A c, d \in Calls :
           /\ call[c].default /\ call[c].owner = o /\ call[c].sess \in sessions
           /\ call[d].default /\ call[d].owner = o /\ call[d].sess \in sessions
           => call[c].sess = call[d].sess
    <3> SUFFICES ASSUME NEW c \in Calls, NEW d \in Calls,
                        call[c].default, call[c].owner = o, call[c].sess \in sessions,
                        call[d].default, call[d].owner = o, call[d].sess \in sessions
                 PROVE  call[c].sess = call[d].sess
      OBVIOUS
    <3>1. NoSess \notin sessions
      BY DEF Parameters, SessInv, SessTypes
    <3>2. call[c].at \in {"default", "done"} /\ call[d].at \in {"default", "done"}
      BY <3>1 DEF SessInv, SessTypes, CallType, Places, Dialled
    <3>3. CASE call[c].at = "default" /\ call[d].at = "default"
      BY <3>3 DEF SessInv, Locked, Busy
    <3>4. CASE call[c].at = "done" \/ call[d].at = "done"
      BY <3>1, <3>2, <3>4 DEF SessInv, Locked, Making
    <3> QED
      BY <3>2, <3>3, <3>4
  <2>2. \A s, t \in given : s = t
    BY <2>1
  <2>3. CASE given = {}
    BY <2>3, FS_EmptySet
  <2>4. CASE given # {}
    <3>1. PICK s : s \in given
      BY <2>4
    <3>2. given = {s}
      BY <2>2, <3>1
    <3>3. Cardinality({s}) = 1
      BY FS_Singleton
    <3> QED
      BY <3>2, <3>3
  <2> QED
    BY <2>3, <2>4
<1>2. Init => SessInv
  BY SessInit_Inv
<1>3. SessInv /\ [Next]_sessVars => SessInv'
  BY SessNext_Inv
<1> QED
  BY <1>1, <1>2, <1>3, PTL DEF Spec

\* When Shutdown has closed what it took over and every call is back, no shell
\* runs and no place is held: what was being dialled is closed by its creator
\* (Manager.Shutdown, createSession).
THEOREM ShutdownLeavesNothing ==
  ASSUME Parameters
  PROVE  Spec => []NoShellOutlivesShutdown
<1>1. SessInv /\ PlacesHeld => NoShellOutlivesShutdown
  <2> SUFFICES ASSUME SessInv, PlacesHeld, closed, closing = {}, \A c \in Calls : ~Busy(c)
               PROVE  (\A s \in Sess : shell[s] # "open") /\ (\A o \in Owners : reserved[o] = 0)
    BY DEF NoShellOutlivesShutdown
  <2>1. \A s \in Sess : shell[s] # "open"
    BY DEF SessInv, Reachable, Busy
  <2>2. \A o \in Owners : Reserving(o) = {}
    BY DEF Reserving, Busy
  <2> QED
    BY <2>1, <2>2, FS_EmptySet DEF PlacesHeld
<1>2. Init => SessInv /\ PlacesHeld
  BY SessInit_Inv
<1>3. SessInv /\ PlacesHeld /\ [Next]_sessVars => SessInv' /\ PlacesHeld'
  BY SessNext_Inv, Counted
<1> QED
  BY <1>1, <1>2, <1>3, PTL DEF Spec
===============================================================================
