---------------------------- MODULE ShellSession ----------------------------
(***************************************************************************)
(* One persistent shell session: the reader goroutine, the callers that    *)
(* start a command, answer its prompt or signal it, the transport that can *)
(* block, drop and reconnect, and the shell at the far end.                *)
(*                                                                         *)
(* A command line and its two boundary markers travel as one item; a read  *)
(* from the transport yields one whole token (the marker scanner's         *)
(* handling of a split marker is data and is abstracted).  Every answer to *)
(* a prompt is a secret the redactor must hide, the worst case.            *)
(***************************************************************************)
EXTENDS Naturals, Sequences, FiniteSets

CONSTANTS
    Cmds,         \* commands callers may start on the session
    Inits,        \* Inits[c]: the job that runs the init line on connection c
    NoJob,        \* the nil *Job
    Answered,     \* commands whose prompt a caller answers (once each)
    Signallers,   \* commands a caller signals (once each)
    MaxAttempts   \* reconnect attempts of tryReconnect (5 in the code)

ASSUME SessionAssumption ==
    /\ Len(Inits) \in Nat \ {0} /\ DOMAIN Inits = 1..Len(Inits)
    /\ \A c, d \in DOMAIN Inits : Inits[c] \notin Cmds /\ (Inits[c] = Inits[d] => c = d)
    /\ NoJob \notin Cmds \cup {Inits[c] : c \in DOMAIN Inits}
    /\ Answered \subseteq Cmds /\ Signallers \subseteq Cmds
    /\ MaxAttempts \in Nat \ {0}

InitJobs == {Inits[c] : c \in DOMAIN Inits}
Jobs     == Cmds \cup InitJobs
Writers  == [of : Jobs, kind : {"line"}] \cup [of : Answered, kind : {"input"}]
Line(j)  == [of |-> j, kind |-> "line"]
Input(j) == [of |-> j, kind |-> "input"]
Free     == [of |-> NoJob, kind |-> "free"]
Rejoin   == [of |-> NoJob, kind |-> "reader"]
Over     == {"exited", "killed", "failed", "orphaned"}

VARIABLES
    remote,     \* the transport can Reconnect (SSH) or not (local PTY)
    creator,    \* newSessionConn and the manager: "init" | "built" | "open" | "failed"
    current,    \* Session.current
    started,    \* Session.outputStarted
    closed,     \* Session.closed
    tclosed,    \* Session.closeOnce has run: the transport is closed for good
    writeMu,    \* holder of Session.writeMu: a writer, Rejoin (the reader) or Free
    resets,     \* [callback, pending, reported] of setOnReset / notifyReset
    reader,     \* where the reader goroutine is
    attempts,   \* failed reconnect attempts so far
    conn,       \* the connection the transport writes to and reads from
    alive,      \* that connection still works
    inq, outq,  \* bytes on their way to the shell, and back
    run,        \* the command the shell is executing
    asked,      \* the commands that printed a prompt
    job,        \* per job: status, killRequested, and who holds its secret's reservation
    wpc,        \* per writer: where the call is
    flight,     \* per writer: the goroutine that calls shell.Write
    sig,        \* per signalled command: where Signal is
    born,       \* history: the connection a job's line was delivered on
    taken,      \* history: who consumed which input, and on which connection
    shown,      \* history: what was appended to a job's output
    hit         \* history: the commands a signal reached

sessVars  == <<current, started, closed, tclosed>>
readVars  == <<reader, attempts, resets>>
shellVars == <<conn, alive, inq, outq, run, asked>>
callVars  == <<wpc, flight, sig>>
histVars  == <<born, taken, shown, hit>>
vars == <<remote, creator, sessVars, writeMu, readVars, shellVars, job, callVars, histVars>>

Init ==
    /\ remote \in BOOLEAN
    /\ creator = "init"
    /\ current = NoJob /\ started = FALSE /\ closed = FALSE /\ tclosed = FALSE
    /\ writeMu = Free
    /\ resets = [callback |-> FALSE, pending |-> 0, reported |-> 0]
    /\ reader = "read" /\ attempts = 0
    /\ conn = 1 /\ alive = TRUE /\ inq = <<>> /\ outq = <<>> /\ run = NoJob /\ asked = {}
    /\ job = [j \in Jobs |-> [status |-> "new", kill |-> FALSE, secret |-> "none"]]
    /\ wpc = [w \in Writers |-> IF w = Line(Inits[1]) THEN "due" ELSE "off"]
    /\ flight = [w \in Writers |-> "none"]
    /\ sig = [j \in Signallers |-> "off"]
    /\ born = [j \in Jobs |-> 0]
    /\ taken = {} /\ shown = {} /\ hit = {}

-----------------------------------------------------------------------------
(* Job.finalize: first terminal state wins, secrets stop being registered. *)

Finalized(j, status) ==
    IF j = NoJob \/ job[j].status \in Over THEN job
    ELSE [job EXCEPT ![j].status = status,
                     ![j].secret = IF @ = "job" THEN "none" ELSE @]

ExitStatus(j) == IF job[j].kill THEN "killed" ELSE "exited"

\* terminate: the first caller closes the session and owns the job's status.
Terminate(status) ==
    /\ closed' = TRUE
    /\ IF closed THEN UNCHANGED <<current, started, job>>
       ELSE current' = NoJob /\ started' = FALSE /\ job' = Finalized(current, status)

\* A connection that is gone takes its shell, and the bytes sent to it, along.
HangUp == alive' = FALSE /\ inq' = <<>> /\ run' = NoJob

\* closeTransport: exactly once.  Nothing is read from it any more either.
CloseTransport == tclosed' = TRUE /\ outq' = <<>> /\ HangUp

-----------------------------------------------------------------------------
(* newSessionConn and the manager that registers the session.              *)

CreatorReady ==
    /\ creator = "init" /\ wpc[Line(Inits[1])] = "ok"
    /\ job[Inits[1]].status \in Over
    /\ creator' = "built"
    /\ UNCHANGED <<remote, sessVars, writeMu, readVars, shellVars, job, callVars, histVars>>

\* The init write failed, or no marker came back in 30 s: close the session.
CreatorFails ==
    /\ creator = "init"
    /\ wpc[Line(Inits[1])] \in {"ok", "failed"}
    /\ creator' = "failed"
    /\ Terminate("killed") /\ CloseTransport
    /\ UNCHANGED <<remote, writeMu, readVars, conn, asked, callVars, histVars>>

\* Mutant: resets from before the registration are forgotten.
Register_Forgets ==
    /\ creator = "built"
    /\ creator' = "open"
    /\ resets' = [resets EXCEPT !.callback = TRUE, !.pending = 0]
    /\ wpc' = [w \in Writers |-> IF w.of \in Cmds THEN "due" ELSE wpc[w]]
    /\ UNCHANGED <<remote, sessVars, writeMu, reader, attempts, shellVars, job, flight, sig, histVars>>

\* setOnReset: installs the callback and drains what happened before it.
Register ==
    /\ creator = "built"
    /\ creator' = "open"
    /\ resets' = [callback |-> TRUE, pending |-> 0, reported |-> resets.reported + resets.pending]
    /\ wpc' = [w \in Writers |-> IF w.of \in Cmds THEN "due" ELSE wpc[w]]
    /\ UNCHANGED <<remote, sessVars, writeMu, reader, attempts, shellVars, job, flight, sig, histVars>>

\* CloseSession or Shutdown: the logical close, then the transport.
Close ==
    /\ creator = "open" /\ ~closed
    /\ Terminate("killed")
    /\ UNCHANGED <<remote, creator, tclosed, writeMu, readVars, shellVars, callVars, histVars>>

CloseFinish ==
    /\ closed /\ ~tclosed
    /\ CloseTransport
    /\ UNCHANGED <<remote, creator, current, started, closed, writeMu, readVars, conn, asked,
                   job, callVars, histVars>>

-----------------------------------------------------------------------------
(* startJob, writeInput and writeCurrent.                                  *)

\* Mutant: output counts from the start, not from the begin marker.
Attach_Started(j) ==
    /\ wpc[Line(j)] = "due" /\ ~closed /\ current = NoJob
    /\ current' = j /\ started' = TRUE
    /\ job' = [job EXCEPT ![j].status = "running"]
    /\ wpc' = [wpc EXCEPT ![Line(j)] = "want"]
    /\ UNCHANGED <<remote, creator, closed, tclosed, writeMu, readVars, shellVars, flight, sig, histVars>>

\* startJob up to the write: a closed or busy session fails the job.
Attach(j) ==
    /\ wpc[Line(j)] = "due"
    /\ IF closed \/ current # NoJob
       THEN /\ job' = Finalized(j, "failed")
            /\ wpc' = [wpc EXCEPT ![Line(j)] = "failed"]
            /\ UNCHANGED <<current, started>>
       ELSE /\ current' = j /\ started' = FALSE
            /\ job' = [job EXCEPT ![j].status = "running"]
            /\ wpc' = [wpc EXCEPT ![Line(j)] = "want"]
    /\ UNCHANGED <<remote, creator, closed, tclosed, writeMu, readVars, shellVars, flight, sig, histVars>>

\* WriteAttributed up to the write, for an agent: the command must be current
\* and have shown a prompt (which it may have left since); the secret is
\* registered with the redactor before a byte is delivered.
Answer(j) ==
    /\ wpc[Input(j)] = "due"
    /\ current = j /\ \E s \in shown : s.on = j
    /\ wpc' = [wpc EXCEPT ![Input(j)] = "want"]
    /\ job' = [job EXCEPT ![j].secret = "writer"]
    /\ UNCHANGED <<remote, creator, sessVars, writeMu, readVars, shellVars, flight, sig, histVars>>

\* Mutant: a delivered secret is dropped like one that was not.
Settle_DropsSecret(w, good) ==
    /\ wpc' = [wpc EXCEPT ![w] = IF good THEN "ok" ELSE "failed"]
    /\ job' = IF w.kind = "line" THEN IF good THEN job ELSE Finalized(w.of, "failed")
              ELSE [job EXCEPT ![w.of].secret = "none"]
    /\ IF w.kind = "line" /\ ~good /\ current = w.of THEN current' = NoJob /\ started' = FALSE
       ELSE UNCHANGED <<current, started>>

\* What the caller does with the outcome of its write: a command line that
\* was not written fails its job, a secret that was not delivered is dropped
\* and one that was is handed to the job if the job is not over.
Settle(w, good) ==
    /\ wpc' = [wpc EXCEPT ![w] = IF good THEN "ok" ELSE "failed"]
    /\ IF w.kind = "line"
       THEN IF good THEN UNCHANGED <<job, current, started>>
            ELSE /\ job' = Finalized(w.of, "failed")
                 /\ IF current = w.of THEN current' = NoJob /\ started' = FALSE
                    ELSE UNCHANGED <<current, started>>
       ELSE /\ job' = [job EXCEPT ![w.of].secret =
                          IF good /\ job[w.of].status \notin Over THEN "job" ELSE "none"]
            /\ UNCHANGED <<current, started>>

\* writeCurrent takes writeMu and looks again whether the job is current.
WriteBegin(w) ==
    /\ wpc[w] = "want" /\ writeMu = Free
    /\ IF closed \/ current # w.of
       THEN Settle(w, FALSE) /\ UNCHANGED <<writeMu, flight>>
       ELSE /\ writeMu' = w
            /\ flight' = [flight EXCEPT ![w] = "pending"]
            /\ wpc' = [wpc EXCEPT ![w] = "writing"]
            /\ UNCHANGED <<job, current, started>>
    /\ UNCHANGED <<remote, creator, closed, tclosed, readVars, shellVars, sig, histVars>>

\* The goroutine's shell.Write: it finds the transport's connection when it
\* runs.  A dead connection either reports an error or swallows the bytes.
FlightDeliver(w) ==
    /\ flight[w] = "pending"
    /\ IF alive
       THEN /\ inq' = Append(inq, w)
            /\ flight' = [flight EXCEPT ![w] = "delivered"]
            /\ born' = IF w.kind = "line" THEN [born EXCEPT ![w.of] = conn] ELSE born
       ELSE /\ \E r \in (IF remote /\ ~tclosed THEN {"ok", "err"} ELSE {"err"}) :
                  flight' = [flight EXCEPT ![w] = r]
            /\ UNCHANGED <<inq, born>>
    /\ UNCHANGED <<remote, creator, sessVars, writeMu, readVars, conn, alive, outq, run, asked, job, wpc, sig,
                   taken, shown, hit>>

FlightReturn(w) ==
    /\ flight[w] = "delivered"
    /\ flight' = [flight EXCEPT ![w] = "ok"]
    /\ UNCHANGED <<remote, creator, sessVars, writeMu, readVars, shellVars, job, wpc, sig, histVars>>

\* The write returned: an error, or a session closed meanwhile, fails the call.
WriteDone(w) ==
    /\ wpc[w] = "writing" /\ flight[w] \in {"ok", "err"}
    /\ writeMu' = Free
    /\ Settle(w, flight[w] = "ok" /\ ~closed)
    /\ UNCHANGED <<remote, creator, closed, tclosed, readVars, shellVars, flight, sig, histVars>>

\* Mutant: a write that timed out leaves the transport open.
WriteAbandon_KeepsTransport(w) ==
    /\ wpc[w] = "writing"
    /\ writeMu' = Free
    /\ Settle(w, FALSE)
    /\ UNCHANGED <<remote, creator, closed, tclosed, readVars, shellVars, flight, sig, histVars>>

\* The timer fired, or (for input) the job ended with the write unfinished:
\* the bytes may still be under way, so the transport is given up.
WriteAbandon(w) ==
    /\ wpc[w] = "writing"
    /\ writeMu' = Free
    /\ Settle(w, FALSE)
    /\ CloseTransport
    /\ UNCHANGED <<remote, creator, closed, readVars, conn, asked, flight, sig, histVars>>

-----------------------------------------------------------------------------
(* Signal: the check that the job is current, then the shell's foreground. *)

SignalCheck(j) ==
    /\ sig[j] = "off" /\ current = j
    /\ sig' = [sig EXCEPT ![j] = "checked"]
    /\ job' = [job EXCEPT ![j].kill = TRUE]
    /\ UNCHANGED <<remote, creator, sessVars, writeMu, readVars, shellVars, wpc, flight, histVars>>

SignalDeliver(j) ==
    /\ sig[j] = "checked"
    /\ sig' = [sig EXCEPT ![j] = "sent"]
    /\ hit' = IF alive /\ run # NoJob THEN hit \cup {run} ELSE hit
    /\ UNCHANGED <<remote, creator, sessVars, writeMu, readVars, shellVars, job, wpc, flight,
                   born, taken, shown>>

-----------------------------------------------------------------------------
(* The shell at the far end, and the link to it.                           *)

\* An idle shell runs whatever line it is given, a stray answer included.
ShellTake ==
    /\ alive /\ run = NoJob /\ inq # <<>>
    /\ inq' = Tail(inq)
    /\ IF Head(inq).kind = "line"
       THEN /\ run' = Head(inq).of
            /\ outq' = Append(outq, [mark |-> "begin", of |-> Head(inq).of, by |-> Head(inq).of])
            /\ UNCHANGED taken
       ELSE /\ outq' = Append(outq, [mark |-> "echo", of |-> Head(inq).of, by |-> NoJob])
            /\ taken' = taken \cup {[of |-> Head(inq).of, by |-> NoJob, on |-> conn]}
            /\ UNCHANGED run
    /\ UNCHANGED <<remote, creator, sessVars, writeMu, readVars, conn, alive, asked, job, callVars, born, shown, hit>>

\* The running command reads what is queued and echoes it.
ShellRead ==
    /\ alive /\ run # NoJob /\ inq # <<>>
    /\ inq' = Tail(inq)
    /\ outq' = Append(outq, [mark |-> "echo", of |-> Head(inq).of, by |-> run])
    /\ taken' = taken \cup {[of |-> Head(inq).of, by |-> run, on |-> conn]}
    /\ UNCHANGED <<remote, creator, sessVars, writeMu, readVars, conn, alive, run, asked, job, callVars,
                   born, shown, hit>>

ShellPrompt ==
    /\ alive /\ run \in Answered \ asked
    /\ asked' = asked \cup {run}
    /\ outq' = Append(outq, [mark |-> "prompt", of |-> run, by |-> run])
    /\ UNCHANGED <<remote, creator, sessVars, writeMu, readVars, conn, alive, inq, run, job, callVars, histVars>>

ShellFinish ==
    /\ alive /\ run # NoJob
    /\ outq' = Append(outq, [mark |-> "end", of |-> run, by |-> run])
    /\ run' = NoJob
    /\ UNCHANGED <<remote, creator, sessVars, writeMu, readVars, conn, alive, inq, asked, job, callVars, histVars>>

\* The link drops (or keepalive gives it up), or the local shell exits.
Drop ==
    /\ alive /\ conn < Len(Inits)
    /\ HangUp
    /\ UNCHANGED <<remote, creator, sessVars, writeMu, readVars, conn, outq, asked, job, callVars, histVars>>

-----------------------------------------------------------------------------
(* readLoop, consume, handleEOF and tryReconnect.                          *)

\* consume: nothing counts outside the current job's two markers.
Consume ==
    /\ reader = "read" /\ outq # <<>> /\ ~tclosed
    /\ outq' = Tail(outq)
    /\ LET t == Head(outq)
           mine == current # NoJob /\ t.of = current
       IN  \/ /\ ~started
              /\ started' = (mine /\ t.mark = "begin")
              /\ UNCHANGED <<current, job, shown>>
           \/ /\ started /\ mine /\ t.mark = "end"
              /\ current' = NoJob /\ started' = FALSE
              /\ job' = Finalized(current, ExitStatus(current))
              /\ UNCHANGED shown
           \/ /\ started /\ ~(mine /\ t.mark = "end")
              /\ shown' = shown \cup {[on |-> current, by |-> t.by, of |-> t.of,
                                       clear |-> t.mark = "echo" /\ job[t.of].secret = "none"]}
              /\ UNCHANGED <<current, started, job>>
    /\ UNCHANGED <<remote, creator, closed, tclosed, writeMu, readVars, conn, alive, inq, run, asked, callVars,
                   born, taken, hit>>

\* handleEOF: a deliberate close ends the reader, a remote transport is
\* reconnected, anything else ends the session.
ReadEOF ==
    /\ reader = "read" /\ ~alive
    /\ IF ~closed /\ remote
       THEN reader' = "retry" /\ attempts' = 0 /\ UNCHANGED <<sessVars, job, alive, inq, outq, run>>
       ELSE reader' = "gone" /\ Terminate("orphaned") /\ CloseTransport /\ UNCHANGED attempts
    /\ UNCHANGED <<remote, creator, writeMu, resets, conn, asked, callVars, histVars>>

\* Mutant: the transport is swapped without waiting for the write in progress.
RetryLock_NoWait ==
    /\ reader = "retry" /\ ~closed
    /\ reader' = "locked"
    /\ UNCHANGED <<remote, creator, sessVars, writeMu, attempts, resets, shellVars, job, callVars, histVars>>

RetryLock ==
    /\ reader = "retry" /\ writeMu = Free
    /\ IF closed
       THEN reader' = "gone" /\ CloseTransport /\ UNCHANGED writeMu
       ELSE reader' = "locked" /\ writeMu' = Rejoin /\ UNCHANGED <<tclosed, alive, inq, outq, run>>
    /\ UNCHANGED <<remote, creator, current, started, closed, attempts, resets, conn, asked, job,
                   callVars, histVars>>

\* The dial failed, or the transport was closed for good in the meantime.
ReconnectFails ==
    /\ reader = "locked"
    /\ writeMu' = Free
    /\ attempts' = attempts + 1
    /\ IF attempts' < MaxAttempts
       THEN reader' = "retry" /\ UNCHANGED <<sessVars, job, alive, inq, outq, run>>
       ELSE reader' = "gone" /\ Terminate("orphaned") /\ CloseTransport
    /\ UNCHANGED <<remote, creator, resets, conn, asked, callVars, histVars>>

\* sshShell.Reconnect: a fresh connection and a fresh shell.
Reconnect ==
    /\ reader = "locked" /\ ~tclosed /\ conn < Len(Inits)
    /\ reader' = "swapped"
    /\ conn' = conn + 1 /\ alive' = TRUE /\ inq' = <<>> /\ outq' = <<>> /\ run' = NoJob
    /\ UNCHANGED <<remote, creator, sessVars, writeMu, attempts, resets, asked, job, callVars, histVars>>

\* Mutant: the job in flight keeps waiting for a marker that cannot come.
Orphan_Forgets ==
    /\ reader = "swapped" /\ ~closed
    /\ writeMu' = Free
    /\ reader' = "notify"
    /\ current' = NoJob /\ started' = FALSE
    /\ UNCHANGED <<remote, creator, closed, tclosed, attempts, resets, shellVars, job, callVars, histVars>>

\* The job in flight is orphaned before writeMu is given back.
Orphan ==
    /\ reader = "swapped"
    /\ writeMu' = Free
    /\ IF closed
       THEN reader' = "gone" /\ CloseTransport /\ UNCHANGED <<current, started, job>>
       ELSE /\ reader' = "notify"
            /\ current' = NoJob /\ started' = FALSE
            /\ job' = Finalized(current, "orphaned")
            /\ UNCHANGED <<tclosed, alive, inq, outq, run>>
    /\ UNCHANGED <<remote, creator, closed, attempts, resets, conn, asked, callVars, histVars>>

\* notifyReset, with the manager's callback or without one yet.
NotifyReset ==
    /\ reader = "notify"
    /\ reader' = "restart"
    /\ resets' = IF resets.callback THEN [resets EXCEPT !.reported = @ + 1]
                 ELSE [resets EXCEPT !.pending = @ + 1]
    /\ UNCHANGED <<remote, creator, sessVars, writeMu, attempts, shellVars, job, callVars, histVars>>

\* The new reader runs before the init line is submitted to the new shell.
Restart ==
    /\ reader = "restart"
    /\ reader' = "read"
    /\ wpc' = [wpc EXCEPT ![Line(Inits[conn])] = "due"]
    /\ UNCHANGED <<remote, creator, sessVars, writeMu, attempts, resets, shellVars, job, flight, sig, histVars>>

-----------------------------------------------------------------------------
Callers == \/ \E j \in Jobs : Attach(j)
           \/ \E j \in Answered : Answer(j)
           \/ \E w \in Writers : WriteBegin(w) \/ WriteDone(w) \/ WriteAbandon(w)
           \/ \E j \in Signallers : SignalCheck(j) \/ SignalDeliver(j)
Flights == \E w \in Writers : FlightDeliver(w) \/ FlightReturn(w)
Creator == CreatorReady \/ CreatorFails \/ Register
Shell   == ShellTake \/ ShellPrompt \/ ShellRead \/ ShellFinish
Reader  == Consume \/ ReadEOF \/ RetryLock \/ ReconnectFails \/ Reconnect \/ Orphan \/ NotifyReset \/ Restart

Next == Callers \/ Flights \/ Creator \/ Close \/ CloseFinish \/ Shell \/ Drop \/ Reader

\* Goroutines are scheduled, timers fire, and a shell that is alive works off
\* its input and finishes its command; nobody has to start, answer, signal,
\* close or drop anything, and a write may block for ever.
Fairness ==
    /\ WF_vars(Reader) /\ WF_vars(Shell) /\ WF_vars(CloseFinish) /\ WF_vars(Creator)
    /\ \A w \in Writers : WF_vars(WriteBegin(w)) /\ WF_vars(WriteDone(w) \/ WriteAbandon(w))
    /\ \A j \in InitJobs : WF_vars(Attach(j))

Spec == Init /\ [][Next]_vars
FairSpec == Spec /\ Fairness
-----------------------------------------------------------------------------
(* What must hold.                                                         *)

\* An answer is consumed by the command it was meant for, or by the idle
\* shell once that command is over, never by another command, and never by
\* the fresh shell of a later connection (writeMu held across Reconnect, the
\* second look of writeCurrent, the transport given up by an abandoned write).
InputStaysWithItsCommand ==
    \A t \in taken : t.by \in {t.of, NoJob} /\ t.on = born[t.of]

\* A command line enters the shell only when the shell owes no completion
\* marker for an earlier one: a job is let go without its marker only with
\* the connection it ran on.
OneLineOutstanding ==
    Cardinality({i \in DOMAIN inq : inq[i].kind = "line"}) + (IF run = NoJob THEN 0 ELSE 1) <= 1

\* What is appended to a job's output was printed by that job's command, not
\* by the idle shell, a stray answer, or the command before (consume's two
\* markers, and the resets of Session.outputStarted).
OutputIsItsOwn == \A s \in shown : s.by = s.on

\* The echo of a secret whose delivery was reported as a success is never
\* appended to an output in the clear: the reservation lasts from before the
\* delivery until the job's final flush.
SecretStaysRedacted == \A s \in shown : s.clear => wpc[Input(s.of)] # "ok"

\* Every reconnect is reported to the manager: now, through the callback, or
\* when the callback is installed; none is lost between setOnReset and
\* notifyReset.
ResetsAllReported ==
    closed \/ /\ conn - 1 = resets.reported + resets.pending
                              + (IF reader \in {"swapped", "notify"} THEN 1 ELSE 0)
              /\ creator = "open" => resets.pending = 0

\* A command that was attached to the session comes to an end there, through
\* blocked writes, dropped links, failed reconnects and a closing session.
EveryCommandSettles == \A j \in Jobs : job[j].status = "running" ~> job[j].status \in Over

\* Signal reaches "the running command's process group": a command that was
\* not signalled is not hit by another command's signal.
SignalHitsOnlyItsCommand == hit \subseteq {j \in Jobs : job[j].kill}
=============================================================================
