--------------------------- MODULE SessionRegistry ---------------------------
(***************************************************************************)
(* The manager's registry of sessions: a call reserves a place, opens the  *)
(* shell without a lock, and registers it; an owner's calls that name no   *)
(* session share a default one, created under a lock of the owner's; and   *)
(* the human's CloseSession, the shell's own exit and Shutdown come        *)
(* between any two steps.                                                  *)
(*                                                                         *)
(* Validation of names, the published events and the agents' statistics    *)
(* are left out.  Two owners whose names hash to the same lock wait for    *)
(* each other; here each has its own.                                      *)
(***************************************************************************)
EXTENDS Naturals, FiniteSets, Functions, Identifiers

CONSTANTS
    Sess, Owners, Calls,
    NoSess, NoCall, NoOwner,  \* absent
    MaxSessions,              \* maxSessionsTotal
    MaxPerOwner               \* maxSessionsPerOwner

VARIABLES
    sessions,   \* Manager.sessions
    reserved,   \* reservedByOwner; reservedSessions is its sum
    defaults,   \* Manager.defaults
    defaultMu,  \* the call that holds the owner's lock
    closed,     \* Manager.closed
    shell,      \* each session's shell: "none", "open" or "closed"
    owner,      \* Session.Owner
    closing,    \* sessions some call is about to close
    call        \* each call: [at, owner, sess, default]

sessVars == <<sessions, reserved, defaults, defaultMu, closed, shell, owner, closing, call>>

Idle == [at |-> "idle", owner |-> NoOwner, sess |-> NoSess, default |-> FALSE]

Init ==
    /\ sessions = {} /\ reserved = [o \in Owners |-> 0]
    /\ defaults = [o \in Owners |-> NoSess] /\ defaultMu = [o \in Owners |-> NoCall]
    /\ closed = FALSE
    /\ shell = [s \in Sess |-> "none"] /\ owner = [s \in Sess |-> NoOwner]
    /\ closing = {}
    /\ call = [c \in Calls |-> Idle]

-----------------------------------------------------------------------------
\* The call returns; a call for the default session unlocks the owner's lock.
Return(c, s) ==
    /\ call' = [call EXCEPT ![c].at = "done", ![c].sess = s]
    /\ defaultMu' = [o \in Owners |-> IF defaultMu[o] = c THEN NoCall ELSE defaultMu[o]]

Goto(c, at) == call' = [call EXCEPT ![c].at = at] /\ UNCHANGED defaultMu

(* CreateSession, asked for by name or on behalf of resolveSession.        *)

CreateBegin(c, o) ==
    /\ call[c].at = "idle"
    /\ call' = [call EXCEPT ![c] = [Idle EXCEPT !.at = "create", !.owner = o]]
    /\ UNCHANGED <<sessions, reserved, defaults, defaultMu, closed, shell, owner, closing>>

Owned(o) == {s \in sessions : owner[s] = o}

\* reserveSession.
Full(o) ==
    \/ Cardinality(sessions) + FoldFunction(+, 0, reserved) >= MaxSessions
    \/ Cardinality(Owned(o)) + reserved[o] >= MaxPerOwner

Reserve(c) ==
    /\ call[c].at = "create"
    /\ LET o == call[c].owner
       IN  IF closed \/ Full(o)
           THEN Return(c, NoSess) /\ UNCHANGED reserved
           ELSE Goto(c, "dial") /\ reserved' = [reserved EXCEPT ![o] = @ + 1]
    /\ UNCHANGED <<sessions, defaults, closed, shell, owner, closing>>

\* newSession or the remote dialer, with no lock held; or it fails.
Dial(c, s) ==
    /\ call[c].at = "dial" /\ shell[s] = "none"
    /\ shell' = [shell EXCEPT ![s] = "open"] /\ owner' = [owner EXCEPT ![s] = call[c].owner]
    /\ call' = [call EXCEPT ![c].at = "register", ![c].sess = s]
    /\ UNCHANGED <<sessions, reserved, defaults, defaultMu, closed, closing>>

DialFails(c) ==
    /\ call[c].at = "dial"
    /\ reserved' = [reserved EXCEPT ![call[c].owner] = @ - 1]
    /\ Return(c, NoSess)
    /\ UNCHANGED <<sessions, defaults, closed, shell, owner, closing>>

\* A mutant: the second look at closed is left out.
Register_Late(c) ==
    /\ call[c].at = "register"
    /\ reserved' = [reserved EXCEPT ![call[c].owner] = @ - 1]
    /\ sessions' = sessions \cup {call[c].sess}
    /\ IF call[c].default THEN Goto(c, "default") ELSE Return(c, call[c].sess)
    /\ UNCHANGED <<defaults, closed, shell, owner, closing>>

Register(c) ==
    /\ call[c].at = "register"
    /\ reserved' = [reserved EXCEPT ![call[c].owner] = @ - 1]
    /\ IF closed
       THEN closing' = closing \cup {call[c].sess} /\ Return(c, NoSess) /\ UNCHANGED sessions
       ELSE /\ sessions' = sessions \cup {call[c].sess}
            /\ IF call[c].default THEN Goto(c, "default") ELSE Return(c, call[c].sess)
            /\ UNCHANGED closing
    /\ UNCHANGED <<defaults, closed, shell, owner>>

-----------------------------------------------------------------------------
(* resolveSession without an id.                                           *)

\* A mutant: nobody waits for the owner's lock.
DefaultBegin_Unlocked(c, o) ==
    /\ call[c].at = "idle"
    /\ UNCHANGED defaultMu
    /\ call' = [call EXCEPT ![c] = [Idle EXCEPT !.at = "lookup", !.owner = o, !.default = TRUE]]
    /\ UNCHANGED <<sessions, reserved, defaults, closed, shell, owner, closing>>

DefaultBegin(c, o) ==
    /\ call[c].at = "idle" /\ defaultMu[o] = NoCall
    /\ defaultMu' = [defaultMu EXCEPT ![o] = c]
    /\ call' = [call EXCEPT ![c] = [Idle EXCEPT !.at = "lookup", !.owner = o, !.default = TRUE]]
    /\ UNCHANGED <<sessions, reserved, defaults, closed, shell, owner, closing>>

\* The default session, unless there is none or its shell has exited.
Lookup(c) ==
    /\ call[c].at = "lookup"
    /\ LET o == call[c].owner
           s == defaults[o]
       IN  CASE closed -> Return(c, NoSess) /\ UNCHANGED <<sessions, defaults>>
             [] ~closed /\ s \in sessions /\ shell[s] = "closed" ->
                    /\ sessions' = sessions \ {s} /\ defaults' = [defaults EXCEPT ![o] = NoSess]
                    /\ Goto(c, "create")
             [] ~closed /\ s \in sessions /\ shell[s] = "open" -> Return(c, s) /\ UNCHANGED <<sessions, defaults>>
             [] OTHER -> Goto(c, "create") /\ UNCHANGED <<sessions, defaults>>
    /\ UNCHANGED <<reserved, closed, shell, owner, closing>>

\* Closed meanwhile, by Shutdown or by CloseSession: the new session is given up.
SetDefault(c) ==
    /\ call[c].at = "default"
    /\ LET s == call[c].sess
       IN  IF closed \/ s \notin sessions
           THEN closing' = closing \cup {s} /\ Return(c, NoSess) /\ UNCHANGED defaults
           ELSE defaults' = [defaults EXCEPT ![call[c].owner] = s] /\ Return(c, s) /\ UNCHANGED closing
    /\ UNCHANGED <<sessions, reserved, closed, shell, owner>>

-----------------------------------------------------------------------------
\* CloseSession by a human or the owner: unregistered first, closed after.
CloseSession(s) ==
    /\ s \in sessions
    /\ sessions' = sessions \ {s}
    /\ defaults' = [o \in Owners |-> IF defaults[o] = s THEN NoSess ELSE defaults[o]]
    /\ closing' = closing \cup {s}
    /\ UNCHANGED <<reserved, defaultMu, closed, shell, owner, call>>

\* Session.close, by whoever took it upon itself.
CloseShell(s) ==
    /\ s \in closing
    /\ closing' = closing \ {s} /\ shell' = [shell EXCEPT ![s] = "closed"]
    /\ UNCHANGED <<sessions, reserved, defaults, defaultMu, closed, owner, call>>

\* The shell exits by itself; the session stays registered.
ShellExits(s) ==
    /\ shell[s] = "open"
    /\ shell' = [shell EXCEPT ![s] = "closed"]
    /\ UNCHANGED <<sessions, reserved, defaults, defaultMu, closed, owner, closing, call>>

Shutdown ==
    /\ ~closed
    /\ closed' = TRUE
    /\ closing' = closing \cup sessions
    /\ sessions' = {} /\ defaults' = [o \in Owners |-> NoSess]
    /\ UNCHANGED <<reserved, defaultMu, shell, owner, call>>

Next ==
    \/ \E c \in Calls :
          \/ \E o \in Owners : CreateBegin(c, o) \/ DefaultBegin(c, o)
          \/ \E s \in Fresh({s \in Sess : shell[s] = "none"}) : Dial(c, s)
          \/ Reserve(c) \/ DialFails(c) \/ Register(c) \/ Lookup(c) \/ SetDefault(c)
    \/ \E s \in Sess : CloseSession(s) \/ CloseShell(s) \/ ShellExits(s)
    \/ Shutdown

Spec == Init /\ [][Next]_sessVars

-----------------------------------------------------------------------------
(* What must hold.                                                         *)

Busy(c) == call[c].at \notin {"idle", "done"}

\* An owner's calls without a session id share one session: at most one open
\* session that such a call made or was given is registered, whatever calls
\* overlapped and whatever was closed between their steps (defaultMu spans the
\* look-up and the creation).
OneDefaultPerOwner ==
    \A o \in Owners : Cardinality(
        {s \in sessions : shell[s] = "open" /\
            \E c \in Calls : call[c].default /\ call[c].owner = o /\ call[c].sess = s}) <= 1

\* Once Shutdown has closed what it took over and the calls it met are back,
\* no shell runs and no place is reserved: a session that was being created is
\* closed by its creator.
NoShellOutlivesShutdown ==
    closed /\ closing = {} /\ (\A c \in Calls : ~Busy(c)) =>
        /\ \A s \in Sess : shell[s] # "open"
        /\ \A o \in Owners : reserved[o] = 0
===============================================================================
