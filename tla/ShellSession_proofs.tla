------------------------- MODULE ShellSession_proofs -------------------------
(***************************************************************************)
(* What a shell session keeps apart: one command from the next, a secret   *)
(* from the output, one connection from the one after it.  For any         *)
(* commands, any number of connections and of reconnect attempts.          *)
(***************************************************************************)
EXTENDS ShellSession, FiniteSetTheorems, TLAPS

-----------------------------------------------------------------------------
(* The inductive invariant *)

Tokens == [mark : {"begin", "end", "prompt", "echo"}, of : Jobs, by : Jobs \cup {NoJob}]

JobStates == [Jobs -> [status : {"new", "running"} \cup Over, kill : BOOLEAN,
                       secret : {"none", "writer", "job"}]]
Calls   == [Writers -> {"off", "due", "want", "writing", "ok", "failed"}]
Writes  == [Writers -> {"none", "pending", "delivered", "ok", "err"}]
Births  == [Jobs -> {0} \cup DOMAIN Inits]
Reports == [callback : BOOLEAN, pending : Nat, reported : Nat]
Prints  == [on : Jobs, by : Jobs \cup {NoJob}, of : Jobs, clear : BOOLEAN]

\* The part of the type invariant that the argument needs.
SessionTypes ==
    /\ remote \in BOOLEAN /\ closed \in BOOLEAN /\ tclosed \in BOOLEAN
    /\ alive \in BOOLEAN /\ started \in BOOLEAN
    /\ creator \in {"init", "built", "open", "failed"}
    /\ reader \in {"read", "retry", "locked", "swapped", "notify", "restart", "gone"}
    /\ current \in Jobs \cup {NoJob} /\ run \in Jobs \cup {NoJob}
    /\ writeMu \in Writers \cup {Free, Rejoin}
    /\ resets \in Reports /\ conn \in DOMAIN Inits
    /\ inq \in Seq(Writers) /\ outq \in Seq(Tokens)
    /\ job \in JobStates /\ wpc \in Calls /\ flight \in Writes
    /\ born \in Births /\ shown \subseteq Prints

Arrived(w) == flight[w] \in {"delivered", "ok"}

\* A write that was begun holds writeMu, unless it was abandoned and took the
\* transport along; every line and answer is written once.
WriterInv ==
    /\ \A w \in Writers : wpc[w] = "writing" <=> writeMu = w
    /\ \A w \in Writers : flight[w] = "pending" => wpc[w] = "writing" \/ tclosed
    /\ \A w \in Writers : flight[w] = "delivered" => wpc[w] \in {"writing", "failed"}
    /\ \A w \in Writers : wpc[w] \in {"off", "due", "want"} => flight[w] = "none"
    /\ \A j \in Jobs : born[j] # 0 => Arrived(Line(j))
    /\ creator # "open" => \A w \in Writers : w.of \in Cmds => wpc[w] = "off"
    /\ \A c \in DOMAIN Inits :
         c > conn \/ (c = conn /\ reader \in {"swapped", "notify", "restart"}) => wpc[Line(Inits[c])] = "off"

\* The transport, its connection, and the reader that replaces it.
LinkInv ==
    /\ ~alive => inq = <<>> /\ run = NoJob
    /\ tclosed => ~alive /\ outq = <<>>
    /\ reader \in {"locked", "swapped"} <=> writeMu = Rejoin
    /\ reader = "swapped" => inq = <<>> /\ outq = <<>> /\ run = NoJob

\* The current job is running, was not given up, and its line went to the
\* present connection if it went anywhere.
CurrentInv ==
    /\ closed => current = NoJob
    /\ started => current # NoJob
    /\ current # NoJob =>
         /\ job[current].status = "running"
         /\ wpc[Line(current)] \in {"want", "writing", "ok"}
         /\ reader # "swapped" => born[current] \in {0, conn}
         /\ started => born[current] # 0
    /\ \A j \in Answered : wpc[Input(j)] \notin {"off", "due"} => born[j] # 0
    /\ \A s \in shown : born[s.on] # 0

IsLine(i) == i \in DOMAIN inq /\ inq[i].kind = "line"
IsEnd(i)  == i \in DOMAIN outq /\ outq[i].mark = "end"

\* The command that the shell has yet to complete: its line is on the way, it
\* runs, or its end marker is on the way back.
Outstanding(j) ==
    \/ \E i \in DOMAIN inq : IsLine(i) /\ inq[i].of = j
    \/ run = j
    \/ \E i \in DOMAIN outq : IsEnd(i) /\ outq[i].of = j

\* There is at most one, the current one while the session is open, and a line
\* is only written when there is none.
LineInv ==
    /\ \A i, k \in DOMAIN inq : IsLine(i) /\ IsLine(k) => i = k
    /\ \A i, k \in DOMAIN outq : IsEnd(i) /\ IsEnd(k) => i = k
    /\ \A i \in DOMAIN inq : IsLine(i) => run = NoJob /\ \A k \in DOMAIN outq : ~IsEnd(k)
    /\ run # NoJob => \A k \in DOMAIN outq : ~IsEnd(k)
    /\ \A j \in Jobs : Outstanding(j) => born[j] = conn /\ (current = j \/ closed)
    /\ \A i \in DOMAIN outq : outq[i].mark # "echo" => outq[i].by = outq[i].of /\ born[outq[i].of] # 0
    /\ \A j \in Jobs : flight[Line(j)] = "pending" /\ ~tclosed =>
         /\ current = j \/ closed
         /\ \A k \in Jobs : ~Outstanding(k)

\* An answer on its way meets its own command or the idle shell after it.
InputInv ==
    /\ \A i \in DOMAIN inq : inq[i].kind = "input" =>
         /\ Arrived(inq[i]) /\ born[inq[i].of] = conn /\ run \in {inq[i].of, NoJob}
         /\ \A k \in DOMAIN inq : k < i /\ IsLine(k) => inq[k].of = inq[i].of
    /\ \A j \in Answered : flight[Input(j)] = "pending" /\ ~tclosed =>
         /\ born[j] = conn
         /\ \A k \in Jobs : Outstanding(k) => k = j
    /\ InputStaysWithItsCommand
    /\ \A t \in taken : t.of \in Jobs /\ born[t.of] # 0

\* From a begin marker to the end marker after it everything was printed by
\* that command, which runs as long as there is no end marker.
EndsIn(c, from, to) == \E k \in DOMAIN outq : from <= k /\ k < to /\ outq[k].mark = "end" /\ outq[k].of = c

Bracket(c, from) ==
    /\ \A i \in DOMAIN outq : from <= i /\ ~EndsIn(c, from, i) => outq[i].by = c
    /\ EndsIn(c, from, Len(outq) + 1) \/ run = c \/ ~alive \/ reader = "swapped"

OutputInv ==
    /\ \A b \in DOMAIN outq : outq[b].mark = "begin" => Bracket(outq[b].of, b)
    /\ started => Bracket(current, 1)
    /\ OutputIsItsOwn

\* A secret is registered from before its delivery until its job is over; what
\* was shown in the clear was reported as not delivered.
SecretInv ==
    /\ \A j \in Answered : wpc[Input(j)] \in {"want", "writing"} => job[j].secret = "writer"
    /\ \A j \in Answered : wpc[Input(j)] = "ok" => job[j].secret = "job" \/ job[j].status \in Over
    /\ \A i \in DOMAIN outq : outq[i].mark = "echo" =>
         /\ outq[i].of \in Answered /\ Arrived(Input(outq[i].of))
         /\ outq[i].by \in {outq[i].of, NoJob}
    /\ \A s \in shown : s.clear => s.of \in Answered /\ wpc[Input(s.of)] = "failed"

ResetInv ==
    /\ creator = "open" <=> resets.callback
    /\ creator = "failed" => closed
    /\ ResetsAllReported

SessionInv ==
    /\ SessionTypes /\ WriterInv /\ LinkInv /\ CurrentInv
    /\ LineInv /\ InputInv /\ OutputInv /\ SecretInv /\ ResetInv

-----------------------------------------------------------------------------
(* Facts about names, queues and the shared operators *)

USE DEF vars, sessVars, readVars, shellVars, callVars, histVars

LEMMA Names ==
    /\ NoJob \notin Jobs /\ Answered \subseteq Jobs /\ Cmds \subseteq Jobs
    /\ Free \notin Writers /\ Rejoin \notin Writers /\ Free # Rejoin
    /\ \A j \in Jobs : Line(j) \in Writers
    /\ \A j \in Answered : Input(j) \in Writers
    /\ \A w \in Writers : w.of \in Jobs /\ (w = Line(w.of) \/ (w = Input(w.of) /\ w.of \in Answered))
BY SessionAssumption DEF Jobs, InitJobs, Writers, Free, Rejoin, Line, Input

LEMMA WriterNames ==
    /\ \A i, j : Line(i) = Line(j) => i = j
    /\ \A i, j : Input(i) = Input(j) => i = j
    /\ \A i, j : Line(i) # Input(j)
    /\ \A j : Line(j).kind = "line" /\ Line(j).of = j /\ Input(j).kind = "input" /\ Input(j).of = j
BY DEF Line, Input

LEMMA InitNames ==
    /\ \A c \in DOMAIN Inits : Inits[c] \in Jobs /\ Inits[c] \notin Cmds
    /\ \A c, d \in DOMAIN Inits : Inits[c] = Inits[d] => c = d
    /\ DOMAIN Inits \subseteq Nat \ {0} /\ 1 \in DOMAIN Inits /\ Len(Inits) \in Nat
    /\ \A c \in DOMAIN Inits : c < Len(Inits) => c + 1 \in DOMAIN Inits
BY SessionAssumption DEF Jobs, InitJobs

\* What a queue holds after its head was taken, or one more was put in.
LEMMA TailQueue ==
  ASSUME NEW S, NEW q \in Seq(S), q # <<>>
  PROVE  /\ Head(q) = q[1] /\ q[1] \in S /\ 1 \in DOMAIN q
         /\ Tail(q) \in Seq(S)
         /\ \A i \in DOMAIN Tail(q) : i + 1 \in DOMAIN q /\ Tail(q)[i] = q[i + 1]
         /\ \A i \in DOMAIN q : i # 1 => i - 1 \in DOMAIN Tail(q)
         /\ Len(Tail(q)) = Len(q) - 1
         /\ DOMAIN q = 1..Len(q) /\ DOMAIN Tail(q) = 1..Len(Tail(q)) /\ Len(q) \in Nat
OBVIOUS

LEMMA AppendQueue ==
  ASSUME NEW S, NEW q \in Seq(S), NEW x \in S
  PROVE  /\ Append(q, x) \in Seq(S)
         /\ \A i \in DOMAIN q : i \in DOMAIN Append(q, x) /\ Append(q, x)[i] = q[i]
         /\ \A i \in DOMAIN Append(q, x) : i \in DOMAIN q \/ (i = Len(q) + 1 /\ Append(q, x)[i] = x)
         /\ Len(q) + 1 \in DOMAIN Append(q, x) /\ Append(q, x)[Len(q) + 1] = x
         /\ Len(Append(q, x)) = Len(q) + 1
         /\ DOMAIN q = 1..Len(q) /\ Len(q) \in Nat
OBVIOUS

LEMMA EmptyQueue == DOMAIN <<>> = {} /\ Len(<<>>) = 0 /\ \A S : <<>> \in Seq(S)
OBVIOUS

\* A session that was closed before has no current job: terminate does the
\* same to it.
LEMMA TerminateEffect ==
  ASSUME SessionTypes, CurrentInv, NEW status, Terminate(status)
  PROVE  closed' = TRUE /\ current' = NoJob /\ started' = FALSE /\ job' = Finalized(current, status)
BY DEF Terminate, CurrentInv, SessionTypes, Finalized

\* Only the job itself changes, to an end that keeps; its secret is let go with it.
LEMMA FinalizedEffect ==
  ASSUME SessionTypes, NEW j \in Jobs \cup {NoJob}, NEW status \in Over, job' = Finalized(j, status)
  PROVE  /\ job' \in JobStates
         /\ \A k \in Jobs : k # j => job'[k] = job[k]
         /\ \A k \in Jobs : job[k].status \in Over => job'[k] = job[k]
         /\ j # NoJob => job'[j].status \in Over
         /\ \A k \in Jobs : job[k].secret # "job" => job'[k].secret = job[k].secret
         /\ \A k \in Jobs : job'[k].secret = job[k].secret \/ job'[k].status \in Over
BY Names DEF Finalized, SessionTypes, JobStates, Over
LEMMA JobUpdate ==
  ASSUME SessionTypes, NEW j \in Jobs
  PROVE  /\ \A s \in {"new", "running"} \cup Over : [job EXCEPT ![j].status = s] \in JobStates
         /\ \A s \in {"none", "writer", "job"} : [job EXCEPT ![j].secret = s] \in JobStates
         /\ [job EXCEPT ![j].kill = TRUE] \in JobStates
BY DEF SessionTypes, JobStates

LEMMA CallUpdate ==
  ASSUME SessionTypes, NEW w \in Writers
  PROVE  /\ \A s \in {"off", "due", "want", "writing", "ok", "failed"} : [wpc EXCEPT ![w] = s] \in Calls
         /\ \A s \in {"none", "pending", "delivered", "ok", "err"} : [flight EXCEPT ![w] = s] \in Writes
BY DEF SessionTypes, Calls, Writes

LEMMA SettleEffect ==
  ASSUME SessionTypes, NEW w \in Writers, NEW good \in BOOLEAN, Settle(w, good)
  PROVE  /\ wpc' = [wpc EXCEPT ![w] = IF good THEN "ok" ELSE "failed"]
         /\ w.kind = "line" /\ good => UNCHANGED <<job, current, started>>
         /\ w.kind = "line" /\ ~good => /\ job' = Finalized(w.of, "failed")
                                        /\ current = w.of => current' = NoJob /\ started' = FALSE
                                        /\ current # w.of => UNCHANGED <<current, started>>
         /\ w.kind = "input" => /\ UNCHANGED <<current, started>>
                                /\ job' = [job EXCEPT ![w.of].secret =
                                    IF good /\ job[w.of].status \notin Over THEN "job" ELSE "none"]
         /\ wpc' \in Calls /\ job' \in JobStates
         /\ current' \in Jobs \cup {NoJob} /\ started' \in BOOLEAN
<1>1. w.of \in Jobs /\ w.kind \in {"line", "input"}
  BY Names, WriterNames
<1>2. wpc' \in Calls
  BY DEF Settle, SessionTypes, Calls
<1>3. CASE w.kind = "line"
  BY <1>1, <1>2, <1>3, FinalizedEffect DEF Settle, SessionTypes, Over
<1>4. CASE w.kind = "input"
  BY <1>1, <1>2, <1>4 DEF Settle, SessionTypes, JobStates, Over
<1> QED
  BY <1>1, <1>3, <1>4

\* The same, seen from the session: its command is let go or stays as it was.
LEMMA SettleCurrent ==
  ASSUME SessionTypes, NEW w \in Writers, NEW good \in BOOLEAN, Settle(w, good)
  PROVE  /\ wpc'[w] = IF good THEN "ok" ELSE "failed"
         /\ \A v \in Writers : v # w => wpc'[v] = wpc[v]
         /\ (current' = current /\ started' = started) \/ (current' = NoJob /\ started' = FALSE)
         /\ current' # NoJob => job'[current'].status = job[current].status /\ (w = Line(current) => good)
<1>1. wpc' = [wpc EXCEPT ![w] = IF good THEN "ok" ELSE "failed"]
  BY SettleEffect
<1>2. wpc'[w] = (IF good THEN "ok" ELSE "failed") /\ \A v \in Writers : v # w => wpc'[v] = wpc[v]
  BY <1>1 DEF SessionTypes, Calls
<1>3. w.of \in Jobs /\ w.kind \in {"line", "input"}
  BY Names, WriterNames
<1>4. CASE w.kind = "line" /\ good
  BY <1>2, <1>4, SettleEffect
<1>5. CASE w.kind = "line" /\ ~good
  <2>1. job' = Finalized(w.of, "failed") /\ "failed" \in Over
    BY <1>5 DEF Settle, Over
  <2>2. \A k \in Jobs : k # w.of => job'[k] = job[k]
    BY <1>3, <2>1, FinalizedEffect
  <2>3. current = w.of => current' = NoJob /\ started' = FALSE
    BY <1>5 DEF Settle
  <2>4. current # w.of => current' = current /\ started' = started
    BY <1>5 DEF Settle
  <2> QED
    BY <1>2, <1>3, <2>2, <2>3, <2>4, WriterNames DEF SessionTypes
<1>6. CASE w.kind = "input"
  <2>1. current' = current /\ started' = started /\ w # Line(current)
    BY <1>6, SettleEffect, WriterNames
  <2>2. \A k \in Jobs : job'[k].status = job[k].status
    BY <1>3, <1>6 DEF Settle, SessionTypes, JobStates
  <2> QED
    BY <1>2, <2>1, <2>2 DEF SessionTypes
<1> QED
  BY <1>3, <1>4, <1>5, <1>6

\* What consume appends to the current job's output.
LEMMA ConsumeShows ==
  ASSUME Consume
  PROVE  \/ shown' = shown
         \/ /\ started
            /\ \E s : /\ shown' = shown \cup {s}
                      /\ s.on = current /\ s.by = Head(outq).by /\ s.of = Head(outq).of
                      /\ s.clear => Head(outq).mark = "echo" /\ job[Head(outq).of].secret = "none"
<1> DEFINE s == [on |-> current, by |-> Head(outq).by, of |-> Head(outq).of,
                 clear |-> Head(outq).mark = "echo" /\ job[Head(outq).of].secret = "none"]
<1>1. shown' = shown \/ (started /\ shown' = shown \cup {s})
  BY DEF Consume
<1>2. /\ s.on = current /\ s.by = Head(outq).by /\ s.of = Head(outq).of
      /\ s.clear => Head(outq).mark = "echo" /\ job[Head(outq).of].secret = "none"
  OBVIOUS
<1> QED
  BY <1>1, <1>2

LEMMA QueueTypes ==
  ASSUME SessionTypes
  PROVE  /\ \A i \in DOMAIN outq : outq[i] \in Tokens /\ outq[i].of \in Jobs /\ outq[i].by \in Jobs \cup {NoJob}
         /\ \A i \in DOMAIN inq : inq[i] \in Writers /\ inq[i].of \in Jobs
<1>1. \A t \in Tokens : t.of \in Jobs /\ t.by \in Jobs \cup {NoJob}
  BY DEF Tokens
<1>2. \A i \in DOMAIN outq : outq[i] \in Tokens
  BY DEF SessionTypes
<1>3. \A i \in DOMAIN inq : inq[i] \in Writers
  BY DEF SessionTypes
<1> QED
  BY <1>1, <1>2, <1>3, Names

\* While the transport is open one write is under way at most, and its writer
\* holds writeMu.
LEMMA SoleWrite ==
  ASSUME SessionInv, ~tclosed, NEW w \in Writers, flight[w] = "pending"
  PROVE  /\ \A v \in Writers : flight[v] = "pending" => v = w
         /\ writeMu = w /\ reader \notin {"locked", "swapped"}
BY Names DEF SessionInv, WriterInv, LinkInv

\* The first item of the input was taken: what is left moved up by one.
LEMMA TakenInput ==
  ASSUME SessionTypes, inq # <<>>, inq' = Tail(inq)
  PROVE  /\ 1 \in DOMAIN inq /\ Head(inq) = inq[1] /\ inq[1] \in Writers /\ inq[1].of \in Jobs
         /\ \A i \in DOMAIN inq' : i + 1 \in DOMAIN inq /\ inq'[i] = inq[i + 1] /\ i \in Nat /\ i >= 1
         /\ \A i : IsLine(i)' => i \in DOMAIN inq' /\ IsLine(i + 1) /\ inq'[i] = inq[i + 1]
<1>1. 1 \in DOMAIN inq /\ Head(inq) = inq[1] /\ inq[1] \in Writers
  BY TailQueue DEF SessionTypes
<1>2. \A i \in DOMAIN inq' : i + 1 \in DOMAIN inq /\ inq'[i] = inq[i + 1] /\ i \in Nat /\ i >= 1
  BY TailQueue DEF SessionTypes
<1> QED
  BY <1>1, <1>2, Names DEF IsLine

\* A token was put into the output.
LEMMA PutToken ==
  ASSUME SessionTypes, NEW t \in Tokens, outq' = Append(outq, t)
  PROVE  /\ \A i \in DOMAIN outq : i \in DOMAIN outq' /\ outq'[i] = outq[i]
         /\ \A i \in DOMAIN outq' : i \in DOMAIN outq \/ (i = Len(outq) + 1 /\ outq'[i] = t)
         /\ Len(outq) + 1 \in DOMAIN outq' /\ outq'[Len(outq) + 1] = t /\ Len(outq') = Len(outq) + 1
         /\ t.mark # "end" => \A i : IsEnd(i)' <=> IsEnd(i)
<1>1. /\ \A i \in DOMAIN outq : i \in DOMAIN outq' /\ outq'[i] = outq[i]
      /\ \A i \in DOMAIN outq' : i \in DOMAIN outq \/ (i = Len(outq) + 1 /\ outq'[i] = t)
      /\ Len(outq) + 1 \in DOMAIN outq' /\ outq'[Len(outq) + 1] = t /\ Len(outq') = Len(outq) + 1
  BY AppendQueue DEF SessionTypes
<1> QED
  BY <1>1 DEF IsEnd

\* The tokens the shell puts out.
LEMMA ShellToken ==
  ASSUME SessionTypes
  PROVE  /\ ShellTake => \E t \in Tokens :
              /\ outq' = Append(outq, t) /\ inq # <<>> /\ run = NoJob /\ t.of = Head(inq).of
              /\ Head(inq).kind = "line" => t.mark = "begin" /\ t.by = t.of /\ run' = t.of
              /\ Head(inq).kind # "line" => t.mark = "echo" /\ t.by = NoJob /\ run' = run
         /\ ShellRead => \E t \in Tokens :
              /\ outq' = Append(outq, t) /\ inq # <<>> /\ run # NoJob /\ t.of = Head(inq).of
              /\ t.mark = "echo" /\ t.by = run /\ run' = run
         /\ ShellPrompt => \E t \in Tokens :
              /\ outq' = Append(outq,
                 t) /\ t.mark = "prompt" /\ t.by = run /\ t.of = run /\ run' = run /\ run \in Jobs
         /\ ShellFinish => \E t \in Tokens :
              /\ outq' = Append(outq,
                 t) /\ t.mark = "end" /\ t.by = run /\ t.of = run /\ run' = NoJob /\ run \in Jobs
<1>1. inq # <<>> => Head(inq).of \in Jobs
  BY TailQueue, Names DEF SessionTypes
<1>2. run # NoJob => run \in Jobs
  BY DEF SessionTypes
<1>3. ASSUME ShellTake, Head(inq).kind = "line"
      PROVE  LET t == [mark |-> "begin", of |-> Head(inq).of, by |-> Head(inq).of]
             IN  t \in Tokens /\ outq' = Append(outq, t) /\ run' = t.of
  BY <1>1, <1>3 DEF ShellTake, Tokens
<1>4. ASSUME ShellTake, Head(inq).kind # "line"
      PROVE  LET t == [mark |-> "echo", of |-> Head(inq).of, by |-> NoJob]
             IN  t \in Tokens /\ outq' = Append(outq, t) /\ run' = run
  BY <1>1, <1>4 DEF ShellTake, Tokens
<1>5. ASSUME ShellRead
      PROVE  LET t == [mark |-> "echo", of |-> Head(inq).of, by |-> run]
             IN  t \in Tokens /\ outq' = Append(outq, t) /\ run' = run
  BY <1>1, <1>2, <1>5 DEF ShellRead, Tokens
<1>6. ASSUME ShellPrompt
      PROVE  LET t == [mark |-> "prompt", of |-> run, by |-> run]
             IN  t \in Tokens /\ outq' = Append(outq, t) /\ run' = run
  BY <1>6, Names DEF ShellPrompt, Tokens
<1>7. ASSUME ShellFinish
      PROVE  LET t == [mark |-> "end", of |-> run, by |-> run]
             IN  t \in Tokens /\ outq' = Append(outq, t) /\ run' = NoJob
  BY <1>2, <1>7 DEF ShellFinish, Tokens
<1>8. ShellTake => inq # <<>> /\ run = NoJob
  BY DEF ShellTake
<1>9. ShellRead => inq # <<>> /\ run # NoJob
  BY DEF ShellRead
<1>10. (ShellPrompt => run \in Jobs) /\ (ShellFinish => run \in Jobs)
  BY <1>2, Names DEF ShellPrompt, ShellFinish
<1> QED
  BY <1>3, <1>4, <1>5, <1>6, <1>7, <1>8, <1>9, <1>10

\* The shell and the reader add no command to the outstanding ones.
LEMMA OutstandingShrinks ==
  ASSUME SessionInv, ShellTake \/ ShellRead \/ ShellPrompt \/ ShellFinish \/ Consume
  PROVE  \A k \in Jobs : Outstanding(k)' => Outstanding(k)
<1>1. CASE ShellTake
  <2>1. PICK t \in Tokens :
              /\ outq' = Append(outq, t) /\ inq # <<>> /\ t.of = Head(inq).of
              /\ Head(inq).kind = "line" => t.mark = "begin" /\ run' = t.of
              /\ Head(inq).kind # "line" => t.mark = "echo" /\ run' = run
    BY <1>1, ShellToken DEF SessionInv
  <2>2. inq' = Tail(inq)
    BY <1>1 DEF ShellTake
  <2>3. Head(inq).kind = "line" => IsLine(1) /\ Outstanding(Head(inq).of)
    BY <2>1, <2>2, TakenInput DEF SessionInv, IsLine, Outstanding
  <2>4. \A i : IsEnd(i)' => IsEnd(i) /\ i \in DOMAIN outq /\ outq'[i] = outq[i]
    BY <2>1, PutToken DEF SessionInv, IsEnd
  <2>5. \A i : IsLine(i)' => IsLine(i + 1) /\ i + 1 \in DOMAIN inq /\ inq'[i] = inq[i + 1]
    BY <2>1, <2>2, TakenInput DEF SessionInv
  <2> QED
    BY <2>1, <2>3, <2>4, <2>5 DEF Outstanding
<1>2. CASE ShellRead
  <2>1. PICK t \in Tokens : outq' = Append(outq, t) /\ inq # <<>> /\ t.mark = "echo" /\ run' = run
    BY <1>2, ShellToken DEF SessionInv
  <2>2. \A i : IsEnd(i)' => IsEnd(i) /\ i \in DOMAIN outq /\ outq'[i] = outq[i]
    BY <2>1, PutToken DEF SessionInv, IsEnd
  <2>3. \A i : IsLine(i)' => IsLine(i + 1) /\ i + 1 \in DOMAIN inq /\ inq'[i] = inq[i + 1]
    BY <1>2, <2>1, TakenInput DEF SessionInv, ShellRead
  <2> QED
    BY <2>1, <2>2, <2>3 DEF Outstanding
<1>3. CASE ShellPrompt
  <2>1. PICK t \in Tokens : outq' = Append(outq, t) /\ t.mark = "prompt" /\ run' = run
    BY <1>3, ShellToken DEF SessionInv
  <2>2. \A i : IsEnd(i)' => IsEnd(i) /\ i \in DOMAIN outq /\ outq'[i] = outq[i]
    BY <2>1, PutToken DEF SessionInv, IsEnd
  <2>3. inq' = inq
    BY <1>3 DEF ShellPrompt
  <2> QED
    BY <2>1, <2>2, <2>3 DEF Outstanding, IsLine
<1>4. CASE ShellFinish
  <2>1. PICK t \in Tokens : outq' = Append(outq, t) /\ t.of = run /\ run' = NoJob /\ run \in Jobs
    BY <1>4, ShellToken DEF SessionInv
  <2>2. \A i : IsEnd(i)' => (IsEnd(i) /\ i \in DOMAIN outq /\ outq'[i] = outq[i]) \/ outq'[i].of = run
    BY <2>1, PutToken DEF SessionInv, IsEnd
  <2>3. inq' = inq
    BY <1>4 DEF ShellFinish
  <2> QED
    BY <2>1, <2>2, <2>3, Names DEF Outstanding, IsLine
<1>5. CASE Consume
  <2>1. outq # <<>> /\ outq' = Tail(outq) /\ inq' = inq /\ run' = run
    BY <1>5 DEF Consume
  <2>2. \A i : IsEnd(i)' => IsEnd(i + 1) /\ i + 1 \in DOMAIN outq /\ outq'[i] = outq[i + 1]
    BY <2>1, TailQueue DEF IsEnd, SessionInv, SessionTypes
  <2> QED
    BY <2>1, <2>2 DEF Outstanding, IsLine
<1> QED
  BY <1>1, <1>2, <1>3, <1>4, <1>5

\* A bracket outlives what happens to the output: nothing, all of it gone, a
\* token more, a token less.
LEMMA BracketStays ==
  ASSUME NEW c, NEW from, Bracket(c, from), outq' = outq,
         run = c => run' = c \/ ~alive', ~alive => ~alive', reader = "swapped" => reader' = "swapped"
  PROVE  Bracket(c, from)'
<1>1. \A i : EndsIn(c, from, i)' <=> EndsIn(c, from, i)
  BY DEF EndsIn
<1> QED
  BY <1>1 DEF Bracket

LEMMA BracketEmpty ==
  ASSUME NEW c, NEW from, outq' = <<>>, ~alive' \/ reader' = "swapped"
  PROVE  Bracket(c, from)'
BY EmptyQueue DEF Bracket

LEMMA BracketGrows ==
  ASSUME SessionTypes, NEW t \in Tokens, outq' = Append(outq, t), alive' = alive, reader' = reader,
         alive, reader # "swapped",
         NEW c, NEW from \in Nat, from <= Len(outq) + 1, Bracket(c, from),
         run = c => t.by = c /\ (run' = c \/ (t.mark = "end" /\ t.of = c))
  PROVE  Bracket(c, from)'
<1>0. PICK n \in Nat : n = Len(outq) + 1
  BY DEF SessionTypes
<1>1. /\ \A i \in DOMAIN outq : i \in DOMAIN outq' /\ outq'[i] = outq[i] /\ i \in Nat /\ i < n
      /\ \A i \in DOMAIN outq' : i \in DOMAIN outq \/ (i = n /\ outq'[i] = t)
      /\ n \in DOMAIN outq' /\ outq'[n] = t
      /\ Len(outq') = n
  BY <1>0, AppendQueue DEF SessionTypes
<1>2. \A i \in Nat : EndsIn(c, from, i) => EndsIn(c, from, i)'
  BY <1>0, <1>1 DEF EndsIn
<1>3. EndsIn(c, from, n) \/ run = c
  BY <1>0 DEF Bracket
<1>4. EndsIn(c, from, n) => EndsIn(c, from, n)' /\ EndsIn(c, from, n + 1)'
  BY <1>0, <1>1 DEF EndsIn
<1>5. t.mark = "end" /\ t.of = c => EndsIn(c, from, n + 1)'
  BY <1>0, <1>1 DEF EndsIn
<1>6. ASSUME NEW i \in DOMAIN outq', from <= i, ~EndsIn(c, from, i)' PROVE outq'[i].by = c
  <2>1. CASE i \in DOMAIN outq
    BY <1>1, <1>2, <1>6, <2>1 DEF Bracket
  <2>2. CASE i = n
    BY <1>1, <1>3, <1>4, <1>6, <2>2 DEF EndsIn
  <2> QED
    BY <1>1, <2>1, <2>2
<1>7. Len(outq') + 1 = n + 1
  BY <1>1
<1>8. EndsIn(c, from, n + 1)' \/ run' = c
  BY <1>3, <1>4, <1>5
<1>9. \A i : EndsIn(c, from,
   i)' <=> \E k \in DOMAIN outq' : from <= k /\ k < i /\ outq'[k].mark = "end" /\ outq'[k].of = c
  BY DEF EndsIn
<1> QED
  BY <1>6, <1>7, <1>8, <1>9 DEF Bracket, EndsIn

LEMMA BracketTail ==
  ASSUME SessionTypes, outq # <<>>, outq' = Tail(outq), run' = run, alive' = alive, reader' = reader,
         NEW c, NEW from \in Nat, NEW to \in Nat, Bracket(c, from),
         from = to + 1 \/ (from = 1 /\ to = 1 /\ ~(outq[1].mark = "end" /\ outq[1].of = c)), to >= 1
  PROVE  Bracket(c, to)'
<1>1. /\ \A i \in DOMAIN outq' : i + 1 \in DOMAIN outq /\ outq'[i] = outq[i + 1] /\ i \in Nat /\ i >= 1
      /\ \A i \in DOMAIN outq : i \in Nat /\ i >= 1 /\ (i # 1 => i - 1 \in DOMAIN outq')
      /\ Len(outq') = Len(outq) - 1 /\ Len(outq) \in Nat
  BY TailQueue DEF SessionTypes
<1>0. PICK n \in Nat : n = Len(outq)
  BY DEF SessionTypes
<1>2. \A i \in Nat : EndsIn(c, from, i + 1) => EndsIn(c, to, i)'
  <2>1. SUFFICES ASSUME NEW i \in Nat,
                        NEW k \in DOMAIN outq, from <= k, k < i + 1, outq[k].mark = "end", outq[k].of = c
                 PROVE  \E m \in DOMAIN outq' : to <= m /\ m < i /\ outq'[m].mark = "end" /\ outq'[m].of = c
    BY DEF EndsIn
  <2>2. k # 1
    BY <1>1, <2>1
  <2>0. k \in Nat /\ k - 1 \in DOMAIN outq' /\ k - 1 + 1 = k
    BY <1>1, <2>1, <2>2
  <2>3. outq'[k - 1] = outq[k]
    BY <1>1, <2>0
  <2> QED
    BY <2>1, <2>2, <2>0, <2>3
<1>3. ASSUME NEW i \in DOMAIN outq', to <= i, ~EndsIn(c, to, i)' PROVE outq'[i].by = c
  <2>1. ~EndsIn(c, from, i + 1) /\ from <= i + 1 /\ i + 1 \in DOMAIN outq /\ outq'[i] = outq[i + 1]
    BY <1>1, <1>2, <1>3
  <2> QED
    BY <2>1 DEF Bracket
<1>4. EndsIn(c, from, n + 1) => EndsIn(c, to, n)'
  BY <1>2
<1>5. Len(outq') + 1 = n
  BY <1>0, <1>1
<1>6. EndsIn(c, to, n)' \/ run' = c \/ ~alive' \/ reader' = "swapped"
  BY <1>0, <1>4 DEF Bracket
<1> QED
  BY <1>3, <1>5, <1>6 DEF Bracket, EndsIn

\* OutputInv' from its parts, the commands named by constants.
LEMMA OutputParts ==
  ASSUME \A b, c : b \in DOMAIN outq' /\ outq'[b].mark = "begin" /\ outq'[b].of = c => Bracket(c, b)',
         \A c : started' /\ current' = c => Bracket(c, 1)',
         \A s \in shown' : s.by = s.on
  PROVE  OutputInv'
BY DEF OutputInv, OutputIsItsOwn, Bracket, EndsIn

LEMMA OutputStays ==
  ASSUME OutputInv, outq' = outq, shown' = shown, run' = run \/ ~alive', ~alive => ~alive',
         reader = "swapped" => reader' = "swapped", started' => started /\ current' = current
  PROVE  OutputInv'
<1>1. \A c, from : Bracket(c, from) => Bracket(c, from)'
  BY BracketStays
<1>2. \A b, c : b \in DOMAIN outq' /\ outq'[b].mark = "begin" /\ outq'[b].of = c => Bracket(c, b)'
  BY <1>1 DEF OutputInv
<1>3. \A c : started' /\ current' = c => Bracket(c, 1)'
  BY <1>1 DEF OutputInv
<1>4. \A s \in shown' : s.by = s.on
  BY DEF OutputInv, OutputIsItsOwn
<1> QED
  BY <1>2, <1>3, <1>4, OutputParts

LEMMA OutputEmpty ==
  ASSUME OutputInv, outq' = <<>>, shown' = shown, ~alive' \/ reader' = "swapped"
  PROVE  OutputInv'
<1>1. \A c, from : Bracket(c, from)'
  BY BracketEmpty
<1>2. \A s \in shown' : s.by = s.on
  BY DEF OutputInv, OutputIsItsOwn
<1> QED
  BY <1>1, <1>2, OutputParts

LEMMA OutputGrows ==
  ASSUME SessionInv, NEW t \in Tokens, outq' = Append(outq, t), alive, reader # "swapped",
         UNCHANGED <<alive, reader, shown, started, current>>,
         run # NoJob => t.by = run /\ (run' = run \/ (t.mark = "end" /\ t.of = run)),
         t.mark = "begin" => run' = t.of /\ t.by = t.of
  PROVE  OutputInv'
<1>0. PICK n \in Nat : n = Len(outq) + 1
  BY DEF SessionInv, SessionTypes
<1>1. /\ \A i \in DOMAIN outq : i \in DOMAIN outq' /\ outq'[i] = outq[i] /\ i \in Nat /\ i <= n
      /\ \A i \in DOMAIN outq' : (i \in DOMAIN outq \/ (i = n /\ outq'[i] = t)) /\ i <= n
      /\ n \in DOMAIN outq' /\ outq'[n] = t /\ 1 <= n
  BY <1>0, AppendQueue DEF SessionInv, SessionTypes
<1>2. ASSUME NEW c \in Jobs, NEW from \in Nat, from <= n, Bracket(c, from) PROVE Bracket(c, from)'
  <2>1. run = c => t.by = c /\ (run' = c \/ (t.mark = "end" /\ t.of = c))
    BY <1>2, Names
  <2> QED
    BY <1>0, <1>2, <2>1, BracketGrows DEF SessionInv
<1>3. ASSUME NEW b, NEW c, b \in DOMAIN outq', outq'[b].mark = "begin", outq'[b].of = c PROVE Bracket(c, b)'
  <2>1. CASE b \in DOMAIN outq
    <3>1. outq[b].mark = "begin" /\ outq[b].of = c /\ b \in Nat /\ b <= n /\ c \in Jobs
      BY <1>1, <1>3, <2>1, QueueTypes DEF SessionInv
    <3> QED
      BY <1>2, <2>1, <3>1 DEF SessionInv, OutputInv
  <2>2. CASE b = n
    <3>1. t.of = c /\ t.by = c /\ run' = c
      BY <1>1, <1>3, <2>2
    <3>2. \A i \in DOMAIN outq' : b <= i => outq'[i].by = c
      BY <1>1, <2>2, <3>1
    <3> QED
      BY <3>1, <3>2 DEF Bracket
  <2> QED
    BY <1>1, <1>3, <2>1, <2>2
<1>4. ASSUME NEW c, started', current' = c PROVE Bracket(c, 1)'
  <2>1. started /\ current = c /\ c \in Jobs
    BY <1>4 DEF SessionInv, SessionTypes, CurrentInv
  <2>2. Bracket(c, 1)
    BY <2>1 DEF SessionInv, OutputInv
  <2> QED
    BY <1>1, <1>2, <2>1, <2>2
<1>5. \A s \in shown' : s.by = s.on
  BY DEF SessionInv, OutputInv, OutputIsItsOwn
<1> QED
  BY <1>3, <1>4, <1>5, OutputParts

\* A job that ends keeps the secrets of its writers.
LEMMA SecretKept ==
  ASSUME SessionInv, NEW j \in Jobs \cup {NoJob}, NEW status \in Over, job' = Finalized(j, status)
  PROVE  \A k \in Answered :
           /\ job[k].secret = "writer" => job'[k].secret = "writer"
           /\ job[k].secret = "job" \/ job[k].status \in Over => job'[k].secret = "job" \/ job'[k].status \in
              Over
<1>1. /\ \A k \in Jobs : job[k].status \in Over => job'[k] = job[k]
      /\ \A k \in Jobs : job[k].secret # "job" => job'[k].secret = job[k].secret
      /\ \A k \in Jobs : job'[k].secret = job[k].secret \/ job'[k].status \in Over
  BY FinalizedEffect DEF SessionInv
<1> QED
  BY <1>1, Names

\* SecretInv' where the writes and the output are as before.
LEMMA SecretStays ==
  ASSUME SessionInv, UNCHANGED <<wpc, flight, shown>>, outq' \in {outq, <<>>},
         job' = job \/ \E j \in Jobs \cup {NoJob}, status \in Over : job' = Finalized(j, status)
  PROVE  SecretInv'
<1>1. \A k \in Answered :
           /\ job[k].secret = "writer" => job'[k].secret = "writer"
           /\ job[k].secret = "job" \/ job[k].status \in Over => job'[k].secret = "job" \/ job'[k].status \in
              Over
  BY SecretKept
<1>2. \A i \in DOMAIN outq' : i \in DOMAIN outq /\ outq'[i] = outq[i]
  BY EmptyQueue
<1> QED
  BY <1>1, <1>2 DEF SessionInv, SecretInv, Arrived

\* SecretInv' after a step of one caller, whose own call and job are told apart.
LEMMA SecretCall ==
  ASSUME SessionInv, NEW w \in Writers, UNCHANGED <<flight, shown>>, outq' \in {outq, <<>>},
         \A v \in Writers : v # w => wpc'[v] = wpc[v],
         w.kind = "input" => wpc[w] # "failed",
         \A k \in Answered : w # Input(k) =>
           /\ job[k].secret = "writer" => job'[k].secret = "writer"
           /\ job[k].secret = "job" \/ job[k].status \in Over => job'[k].secret = "job" \/ job'[k].status \in
              Over,
         w.kind = "input" =>
           /\ wpc'[w] \in {"want", "writing"} => job'[w.of].secret = "writer"
           /\ wpc'[w] = "ok" => job'[w.of].secret = "job" \/ job'[w.of].status \in Over
  PROVE  SecretInv'
<1>1. \A i \in DOMAIN outq' : i \in DOMAIN outq /\ outq'[i] = outq[i]
  BY EmptyQueue
<1>2. \A k \in Answered : Input(k) \in Writers /\ Input(k).kind = "input" /\ Input(k).of = k
  BY Names, WriterNames
<1> QED
  BY <1>1, <1>2 DEF SessionInv, SecretInv, Arrived

LEMMA TypesNext ==
  ASSUME SessionInv, [Next]_vars
  PROVE  SessionTypes'
<1>1. ASSUME CreatorReady PROVE SessionTypes'
  BY <1>1 DEF SessionInv, SessionTypes, CreatorReady
<1>2. ASSUME CreatorFails PROVE SessionTypes'
  BY <1>2, TerminateEffect, FinalizedEffect, EmptyQueue, Names
     DEF SessionInv, SessionTypes, CreatorFails, CloseTransport, HangUp, Over
<1>3. ASSUME Register PROVE SessionTypes'
  BY <1>3 DEF SessionInv, SessionTypes, Register, Calls, Reports
<1>4. ASSUME Close PROVE SessionTypes'
  BY <1>4, TerminateEffect, FinalizedEffect, EmptyQueue, Names DEF SessionInv, SessionTypes, Close, Over
<1>5. ASSUME CloseFinish PROVE SessionTypes'
  BY <1>5, EmptyQueue, Names DEF SessionInv, SessionTypes, CloseFinish, CloseTransport, HangUp, Over
<1>6. ASSUME NEW j \in Jobs, Attach(j) PROVE SessionTypes'
  <2>1. Line(j) \in Writers
    BY Names
  <2>2. "running" \in {"new", "running"} \cup Over /\ "failed" \in Over /\ j \in Jobs \cup {NoJob}
    BY DEF Over
  <2>3. ASSUME job' = Finalized(j, "failed") PROVE job' \in JobStates
    BY <2>2, <2>3, FinalizedEffect DEF SessionInv
  <2>4. job' \in JobStates
    BY <1>6, <2>2, <2>3, JobUpdate DEF SessionInv, Attach
  <2>5. wpc' \in Calls
    BY <1>6, <2>1, CallUpdate DEF SessionInv, Attach
  <2>6. current' \in Jobs \cup {NoJob} /\ started' \in BOOLEAN
    BY <1>6 DEF SessionInv, SessionTypes, Attach
  <2> QED
    BY <1>6, <2>1, <2>2, <2>3, <2>4, <2>5, <2>6 DEF SessionInv, SessionTypes, Attach
<1>7. ASSUME NEW j \in Answered, Answer(j) PROVE SessionTypes'
  <2>1. Input(j) \in Writers /\ j \in Jobs
    BY Names
  <2>2. job' \in JobStates
    BY <1>7, <2>1, JobUpdate DEF SessionInv, Answer
  <2>3. wpc' \in Calls
    BY <1>7, <2>1, CallUpdate DEF SessionInv, Answer
  <2> QED
    BY <1>7, <2>1, <2>2, <2>3 DEF SessionInv, SessionTypes, Answer
<1>8. ASSUME NEW w \in Writers, WriteBegin(w) PROVE SessionTypes'
  <2>1. current' \in Jobs \cup {NoJob} /\ started' \in BOOLEAN /\ wpc' \in Calls /\ job' \in JobStates
    BY <1>8, SettleEffect, CallUpdate DEF SessionInv, SessionTypes, WriteBegin
  <2>2. writeMu' \in {writeMu, w}
    BY <1>8 DEF WriteBegin
  <2>3. flight' \in Writes
    BY <1>8, CallUpdate DEF SessionInv, SessionTypes, WriteBegin
  <2> QED
    BY <1>8, <2>1, <2>2, <2>3 DEF SessionInv, SessionTypes, WriteBegin
<1>9. ASSUME NEW w \in Writers, WriteDone(w) PROVE SessionTypes'
  <2>1. PICK good \in BOOLEAN : Settle(w, good)
    BY <1>9 DEF WriteDone, SessionInv, SessionTypes
  <2>2. current' \in Jobs \cup {NoJob} /\ started' \in BOOLEAN /\ wpc' \in Calls /\ job' \in JobStates
    BY <2>1, SettleEffect DEF SessionInv
  <2> QED
    BY <1>9, <2>1, <2>2 DEF SessionInv, SessionTypes, WriteDone
<1>10. ASSUME NEW w \in Writers, WriteAbandon(w) PROVE SessionTypes'
  BY <1>10, SettleEffect, Names, EmptyQueue
     DEF SessionInv, SessionTypes, WriteAbandon, CloseTransport, HangUp, Over
<1>11. ASSUME NEW w \in Writers, FlightDeliver(w) PROVE SessionTypes'
  <2>1. flight' \in Writes
    BY <1>11, CallUpdate DEF SessionInv, FlightDeliver
  <2>2. Append(inq, w) \in Seq(Writers)
    BY AppendQueue DEF SessionInv, SessionTypes
  <2>3. inq' \in Seq(Writers)
    BY <1>11, <2>2 DEF SessionInv, SessionTypes, FlightDeliver
  <2>4. born' \in Births
    BY <1>11, Names DEF SessionInv, SessionTypes, FlightDeliver, Births
  <2> QED
    BY <1>11, <2>1, <2>2, <2>3, <2>4 DEF SessionInv, SessionTypes, FlightDeliver
<1>12. ASSUME NEW w \in Writers, FlightReturn(w) PROVE SessionTypes'
  BY <1>12 DEF SessionInv, SessionTypes, FlightReturn, Writes
<1>13. ASSUME NEW j \in Signallers, SignalCheck(j) PROVE SessionTypes'
  <2>1. job' \in JobStates
    BY <1>13, SessionAssumption, Names, JobUpdate DEF SessionInv, SignalCheck
  <2> QED
    BY <1>13, <2>1 DEF SessionInv, SessionTypes, SignalCheck
<1>14. ASSUME NEW j \in Signallers, SignalDeliver(j) PROVE SessionTypes'
  BY <1>14 DEF SessionInv, SessionTypes, SignalDeliver
<1>15. ASSUME ShellTake PROVE SessionTypes'
  <2>1. Head(inq) \in Writers /\ Tail(inq) \in Seq(Writers) /\ Head(inq).of \in Jobs
    BY <1>15, TailQueue, Names DEF SessionInv, SessionTypes, ShellTake
  <2>2. PICK t \in Tokens : outq' = Append(outq, t)
    BY <1>15, <2>1 DEF ShellTake, Tokens
  <2>3. outq' \in Seq(Tokens)
    BY <2>2, AppendQueue DEF SessionInv, SessionTypes
  <2> QED
    BY <1>15, <2>1, <2>2, <2>3 DEF SessionInv, SessionTypes, ShellTake
<1>16. ASSUME ShellRead PROVE SessionTypes'
  BY <1>16, TailQueue, AppendQueue, Names DEF SessionInv, SessionTypes, ShellRead, Tokens
<1>17. ASSUME ShellPrompt PROVE SessionTypes'
  BY <1>17, TailQueue, AppendQueue, Names DEF SessionInv, SessionTypes, ShellPrompt, Tokens
<1>18. ASSUME ShellFinish PROVE SessionTypes'
  BY <1>18, TailQueue, AppendQueue, Names DEF SessionInv, SessionTypes, ShellFinish, Tokens
<1>19. ASSUME Drop PROVE SessionTypes'
  BY <1>19, EmptyQueue, Names DEF SessionInv, SessionTypes, Drop, HangUp, Over
<1>20. ASSUME Consume PROVE SessionTypes'
  <2>1. Head(outq) \in Tokens /\ Tail(outq) \in Seq(Tokens)
    BY <1>20, TailQueue DEF SessionInv, SessionTypes, Consume
  <2>2. job' \in JobStates
    BY <1>20, FinalizedEffect DEF SessionInv, SessionTypes, Consume, Over, ExitStatus
  <2>3. started => current \in Jobs
    BY DEF SessionInv, SessionTypes, CurrentInv
  <2>4. ASSUME started PROVE \A c \in BOOLEAN : [on |-> current, by |-> Head(outq).by, of |-> Head(outq).of,
     clear |-> c] \in Prints
    BY <2>1, <2>3, <2>4 DEF Tokens, Prints
  <2>5. shown' \subseteq Prints
    BY <1>20, <2>4 DEF SessionInv, SessionTypes, Consume
  <2>6. current' \in Jobs \cup {NoJob} /\ started' \in BOOLEAN
    BY <1>20 DEF SessionInv, SessionTypes, Consume
  <2> QED
    BY <1>20, <2>1, <2>2, <2>3, <2>4, <2>5, <2>6 DEF SessionInv, SessionTypes, Consume
<1>21. ASSUME ReadEOF PROVE SessionTypes'
  BY <1>21, TerminateEffect, FinalizedEffect, EmptyQueue, Names
     DEF SessionInv, SessionTypes, ReadEOF, CloseTransport, HangUp, Over
<1>22. ASSUME RetryLock PROVE SessionTypes'
  BY <1>22, EmptyQueue, Names DEF SessionInv, SessionTypes, RetryLock, CloseTransport, HangUp, Over
<1>23. ASSUME ReconnectFails PROVE SessionTypes'
  BY <1>23, TerminateEffect, FinalizedEffect, EmptyQueue, Names
     DEF SessionInv, SessionTypes, ReconnectFails, CloseTransport, HangUp, Over
<1>24. ASSUME Reconnect PROVE SessionTypes'
  BY <1>24, EmptyQueue, Names, InitNames DEF SessionInv, SessionTypes, Reconnect, Over
<1>25. ASSUME Orphan PROVE SessionTypes'
  BY <1>25, FinalizedEffect, EmptyQueue, Names
     DEF SessionInv, SessionTypes, Orphan, CloseTransport, HangUp, Over
<1>26. ASSUME NotifyReset PROVE SessionTypes'
  BY <1>26 DEF SessionInv, SessionTypes, NotifyReset, Reports
<1>27. ASSUME Restart PROVE SessionTypes'
  BY <1>27, Names, InitNames DEF SessionInv, SessionTypes, Restart, Calls
<1>28. ASSUME UNCHANGED vars PROVE SessionTypes'
  BY <1>28 DEF SessionInv, SessionTypes
<1> QED
  BY <1>1, <1>2, <1>3, <1>4, <1>5, <1>6, <1>7, <1>8, <1>9, <1>10, <1>11,
     <1>12, <1>13, <1>14, <1>15, <1>16, <1>17, <1>18, <1>19, <1>20, <1>21,
     <1>22, <1>23, <1>24, <1>25, <1>26, <1>27, <1>28
     DEF Next, Callers, Flights, Creator, Shell, Reader

LEMMA WriterNext ==
  ASSUME SessionInv, [Next]_vars
  PROVE  WriterInv'
<1>1. ASSUME CreatorReady PROVE WriterInv'
  BY <1>1 DEF SessionInv, CreatorReady, WriterInv, Arrived
<1>2. ASSUME CreatorFails PROVE WriterInv'
  BY <1>2 DEF SessionInv, CreatorFails, WriterInv, CloseTransport, HangUp, Arrived
<1>3. ASSUME Register PROVE WriterInv'
  BY <1>3, Names, WriterNames, InitNames DEF SessionInv, Register, WriterInv, Arrived, SessionTypes, Calls
<1>4. ASSUME Close PROVE WriterInv'
  BY <1>4 DEF SessionInv, Close, WriterInv, Arrived
<1>5. ASSUME CloseFinish PROVE WriterInv'
  BY <1>5 DEF SessionInv, CloseFinish, WriterInv, CloseTransport, HangUp, Arrived
<1>6. ASSUME NEW j \in Jobs, Attach(j) PROVE WriterInv'
  <2>1. Line(j) \in Writers /\ j \in Jobs
    BY Names
  <2>2. \A v \in Writers : v # Line(j) => wpc'[v] = wpc[v]
    BY <1>6 DEF SessionInv, SessionTypes, Calls, Attach
  <2>3. wpc'[Line(j)] \in {"failed", "want"} /\ wpc[Line(j)] = "due"
    BY <1>6, <2>1 DEF SessionInv, SessionTypes, Calls, Attach
  <2>4. UNCHANGED <<writeMu, flight, born, creator, conn, reader, tclosed>>
    BY <1>6 DEF Attach
  <2>5. \A v \in Writers : wpc'[v] = "writing" <=> writeMu' = v
    BY <2>1, <2>2, <2>3, <2>4, Names, WriterNames, InitNames DEF SessionInv, WriterInv, Arrived
  <2>6. \A v \in Writers : flight'[v] = "pending" => wpc'[v] = "writing" \/ tclosed'
    BY <2>1, <2>2, <2>3, <2>4, Names, WriterNames, InitNames DEF SessionInv, WriterInv, Arrived
  <2>7. \A v \in Writers : flight'[v] = "delivered" => wpc'[v] \in {"writing", "failed"}
    BY <2>1, <2>2, <2>3, <2>4, Names, WriterNames, InitNames DEF SessionInv, WriterInv, Arrived
  <2>8. \A v \in Writers : wpc'[v] \in {"off", "due", "want"} => flight'[v] = "none"
    BY <2>1, <2>2, <2>3, <2>4, Names, WriterNames, InitNames DEF SessionInv, WriterInv, Arrived
  <2>9. \A k \in Jobs : born'[k] # 0 => flight'[Line(k)] \in {"delivered", "ok"}
    BY <2>1, <2>2, <2>3, <2>4, Names, WriterNames, InitNames DEF SessionInv, WriterInv, Arrived
  <2>10. creator' # "open" => \A v \in Writers : v.of \in Cmds => wpc'[v] = "off"
    BY <2>1, <2>2, <2>3, <2>4, Names, WriterNames, InitNames DEF SessionInv, WriterInv, Arrived
  <2>11. \A c \in DOMAIN Inits :
         c > conn' \/ (c = conn' /\ reader' \in {"swapped", "notify",
            "restart"}) => wpc'[Line(Inits[c])] = "off"
    BY <2>1, <2>2, <2>3, <2>4, Names, WriterNames, InitNames DEF SessionInv, WriterInv, Arrived
  <2> QED
    BY <2>5, <2>6, <2>7, <2>8, <2>9, <2>10, <2>11 DEF WriterInv, Arrived
<1>7. ASSUME NEW j \in Answered, Answer(j) PROVE WriterInv'
  BY <1>7 DEF SessionInv, Answer, WriterInv, Arrived
<1>8. ASSUME NEW w \in Writers, WriteBegin(w) PROVE WriterInv'
  <2>1. wpc[w] = "want" /\ writeMu = Free
    BY <1>8 DEF WriteBegin
  <2>2. CASE closed \/ current # w.of
    <3>1. wpc' = [wpc EXCEPT ![w] = "failed"]
      BY <1>8, <2>2, SettleEffect DEF SessionInv, WriteBegin
    <3>2. wpc'[w] = "failed" /\ \A v \in Writers : v # w => wpc'[v] = wpc[v]
      BY <3>1 DEF SessionInv, SessionTypes, Calls
    <3>3. UNCHANGED <<writeMu, flight, born, creator, conn, reader, tclosed>>
      BY <1>8, <2>2 DEF WriteBegin
    <3>4. \A v \in Writers : wpc'[v] = "writing" <=> writeMu' = v
      BY <2>1, <3>2, <3>3, Names, WriterNames, InitNames DEF SessionInv, WriterInv, Arrived
    <3>5. \A v \in Writers : flight'[v] = "pending" => wpc'[v] = "writing" \/ tclosed'
      BY <2>1, <3>2, <3>3, Names, WriterNames, InitNames DEF SessionInv, WriterInv, Arrived
    <3>6. \A v \in Writers : flight'[v] = "delivered" => wpc'[v] \in {"writing", "failed"}
      BY <2>1, <3>2, <3>3, Names, WriterNames, InitNames DEF SessionInv, WriterInv, Arrived
    <3>7. \A v \in Writers : wpc'[v] \in {"off", "due", "want"} => flight'[v] = "none"
      BY <2>1, <3>2, <3>3, Names, WriterNames, InitNames DEF SessionInv, WriterInv, Arrived
    <3>8. \A k \in Jobs : born'[k] # 0 => flight'[Line(k)] \in {"delivered", "ok"}
      BY <2>1, <3>2, <3>3, Names, WriterNames, InitNames DEF SessionInv, WriterInv, Arrived
    <3>9. creator' # "open" => \A v \in Writers : v.of \in Cmds => wpc'[v] = "off"
      BY <2>1, <3>2, <3>3, Names, WriterNames, InitNames DEF SessionInv, WriterInv, Arrived
    <3>10. \A c \in DOMAIN Inits :
         c > conn' \/ (c = conn' /\ reader' \in {"swapped", "notify",
            "restart"}) => wpc'[Line(Inits[c])] = "off"
      BY <2>1, <3>2, <3>3, Names, WriterNames, InitNames DEF SessionInv, WriterInv, Arrived
    <3> QED
      BY <3>4, <3>5, <3>6, <3>7, <3>8, <3>9, <3>10 DEF WriterInv, Arrived
  <2>3. CASE ~(closed \/ current # w.of)
    <3>1. wpc'[w] = "writing" /\ \A v \in Writers : v # w => wpc'[v] = wpc[v]
      BY <1>8, <2>3 DEF SessionInv, SessionTypes, Calls, WriteBegin
    <3>2. flight'[w] = "pending" /\ \A v \in Writers : v # w => flight'[v] = flight[v]
      BY <1>8, <2>3 DEF SessionInv, SessionTypes, Writes, WriteBegin
    <3>3. writeMu' = w /\ UNCHANGED <<born, creator, conn, reader, tclosed>>
      BY <1>8, <2>3 DEF WriteBegin
    <3>4. \A v \in Writers : wpc'[v] = "writing" <=> writeMu' = v
      BY <2>1, <3>1, <3>2, <3>3, Names, WriterNames, InitNames DEF SessionInv, WriterInv, Arrived
    <3>5. \A v \in Writers : flight'[v] = "pending" => wpc'[v] = "writing" \/ tclosed'
      BY <2>1, <3>1, <3>2, <3>3, Names, WriterNames, InitNames DEF SessionInv, WriterInv, Arrived
    <3>6. \A v \in Writers : flight'[v] = "delivered" => wpc'[v] \in {"writing", "failed"}
      BY <2>1, <3>1, <3>2, <3>3, Names, WriterNames, InitNames DEF SessionInv, WriterInv, Arrived
    <3>7. \A v \in Writers : wpc'[v] \in {"off", "due", "want"} => flight'[v] = "none"
      BY <2>1, <3>1, <3>2, <3>3, Names, WriterNames, InitNames DEF SessionInv, WriterInv, Arrived
    <3>8. \A k \in Jobs : born'[k] # 0 => flight'[Line(k)] \in {"delivered", "ok"}
      BY <2>1, <3>1, <3>2, <3>3, Names, WriterNames, InitNames DEF SessionInv, WriterInv, Arrived
    <3>9. creator' # "open" => \A v \in Writers : v.of \in Cmds => wpc'[v] = "off"
      BY <2>1, <3>1, <3>2, <3>3, Names, WriterNames, InitNames DEF SessionInv, WriterInv, Arrived
    <3>10. \A c \in DOMAIN Inits :
         c > conn' \/ (c = conn' /\ reader' \in {"swapped", "notify",
            "restart"}) => wpc'[Line(Inits[c])] = "off"
      BY <2>1, <3>1, <3>2, <3>3, Names, WriterNames, InitNames DEF SessionInv, WriterInv, Arrived
    <3> QED
      BY <3>4, <3>5, <3>6, <3>7, <3>8, <3>9, <3>10 DEF WriterInv, Arrived
  <2> QED
    BY <2>2, <2>3
<1>9. ASSUME NEW w \in Writers, WriteDone(w) PROVE WriterInv'
  <2>1. PICK good \in BOOLEAN : Settle(w, good)
    BY <1>9 DEF WriteDone, SessionInv, SessionTypes
  <2>2. wpc' = [wpc EXCEPT ![w] = IF good THEN "ok" ELSE "failed"]
    BY <2>1, SettleEffect DEF SessionInv
  <2> QED
    BY <1>9, <2>2, Names, WriterNames, InitNames
       DEF SessionInv, WriteDone, WriterInv, Arrived, SessionTypes, Calls
<1>10. ASSUME NEW w \in Writers, WriteAbandon(w) PROVE WriterInv'
  <2>1. wpc' = [wpc EXCEPT ![w] = "failed"]
    BY <1>10, SettleEffect DEF SessionInv, WriteAbandon
  <2> QED
    BY <1>10, <2>1, Names, WriterNames, InitNames
       DEF SessionInv, WriteAbandon, WriterInv, Arrived, SessionTypes, Calls,
       CloseTransport
<1>11. ASSUME NEW w \in Writers, FlightDeliver(w) PROVE WriterInv'
  <2>1. \A v \in Writers : v # w => flight'[v] = flight[v]
    BY <1>11 DEF SessionInv, SessionTypes, Writes, FlightDeliver
  <2>2. flight[w] = "pending" /\ flight'[w] \in {"delivered", "ok", "err"}
    BY <1>11 DEF SessionInv, SessionTypes, Writes, FlightDeliver
  <2>3. flight'[w] = "delivered" => alive
    BY <1>11, <2>2 DEF FlightDeliver, SessionInv, SessionTypes, Writes
  <2>4. \A k \in Jobs : born'[k] # 0 => born[k] # 0 \/ (w = Line(k) /\ flight'[w] = "delivered")
    BY <1>11, Names, WriterNames DEF SessionInv, SessionTypes, Births, Writes, FlightDeliver
  <2>5. UNCHANGED <<writeMu, wpc, creator, conn, reader, tclosed>>
    BY <1>11 DEF FlightDeliver
  <2>6. \A v \in Writers : wpc'[v] = "writing" <=> writeMu' = v
    BY <2>1, <2>2, <2>3, <2>4, <2>5, Names, WriterNames, InitNames DEF SessionInv, LinkInv, WriterInv, Arrived
  <2>7. \A v \in Writers : flight'[v] = "pending" => wpc'[v] = "writing" \/ tclosed'
    BY <2>1, <2>2, <2>3, <2>4, <2>5, Names, WriterNames, InitNames DEF SessionInv, LinkInv, WriterInv, Arrived
  <2>8. \A v \in Writers : flight'[v] = "delivered" => wpc'[v] \in {"writing", "failed"}
    BY <2>1, <2>2, <2>3, <2>4, <2>5, Names, WriterNames, InitNames DEF SessionInv, LinkInv, WriterInv, Arrived
  <2>9. \A v \in Writers : wpc'[v] \in {"off", "due", "want"} => flight'[v] = "none"
    BY <2>1, <2>2, <2>3, <2>4, <2>5, Names, WriterNames, InitNames DEF SessionInv, LinkInv, WriterInv, Arrived
  <2>10. \A k \in Jobs : born'[k] # 0 => flight'[Line(k)] \in {"delivered", "ok"}
    BY <2>1, <2>2, <2>3, <2>4, <2>5, Names, WriterNames, InitNames DEF SessionInv, LinkInv, WriterInv, Arrived
  <2>11. creator' # "open" => \A v \in Writers : v.of \in Cmds => wpc'[v] = "off"
    BY <2>1, <2>2, <2>3, <2>4, <2>5, Names, WriterNames, InitNames DEF SessionInv, LinkInv, WriterInv, Arrived
  <2>12. \A c \in DOMAIN Inits :
         c > conn' \/ (c = conn' /\ reader' \in {"swapped", "notify",
            "restart"}) => wpc'[Line(Inits[c])] = "off"
    BY <2>1, <2>2, <2>3, <2>4, <2>5, Names, WriterNames, InitNames DEF SessionInv, LinkInv, WriterInv, Arrived
  <2> QED
    BY <2>6, <2>7, <2>8, <2>9, <2>10, <2>11, <2>12 DEF WriterInv, Arrived
<1>12. ASSUME NEW w \in Writers, FlightReturn(w) PROVE WriterInv'
  BY <1>12 DEF SessionInv, FlightReturn, WriterInv, Arrived
<1>13. ASSUME NEW j \in Signallers, SignalCheck(j) PROVE WriterInv'
  BY <1>13 DEF SessionInv, SignalCheck, WriterInv, Arrived
<1>14. ASSUME NEW j \in Signallers, SignalDeliver(j) PROVE WriterInv'
  BY <1>14 DEF SessionInv, SignalDeliver, WriterInv, Arrived
<1>15. ASSUME ShellTake PROVE WriterInv'
  BY <1>15 DEF SessionInv, ShellTake, WriterInv, Arrived
<1>16. ASSUME ShellRead PROVE WriterInv'
  BY <1>16 DEF SessionInv, ShellRead, WriterInv, Arrived
<1>17. ASSUME ShellPrompt PROVE WriterInv'
  BY <1>17 DEF SessionInv, ShellPrompt, WriterInv, Arrived
<1>18. ASSUME ShellFinish PROVE WriterInv'
  BY <1>18 DEF SessionInv, ShellFinish, WriterInv, Arrived
<1>19. ASSUME Drop PROVE WriterInv'
  BY <1>19 DEF SessionInv, Drop, WriterInv, HangUp, Arrived
<1>20. ASSUME Consume PROVE WriterInv'
  BY <1>20 DEF SessionInv, Consume, WriterInv, Arrived
<1>21. ASSUME ReadEOF PROVE WriterInv'
  BY <1>21 DEF SessionInv, ReadEOF, WriterInv, CloseTransport, HangUp, Arrived
<1>22. ASSUME RetryLock PROVE WriterInv'
  BY <1>22, Names DEF SessionInv, RetryLock, WriterInv, CloseTransport, HangUp, Arrived, LinkInv
<1>23. ASSUME ReconnectFails PROVE WriterInv'
  BY <1>23, Names DEF SessionInv, ReconnectFails, WriterInv, CloseTransport, HangUp, Arrived, LinkInv
<1>24. ASSUME Reconnect PROVE WriterInv'
  BY <1>24, InitNames DEF SessionInv, Reconnect, WriterInv, Arrived, SessionTypes
<1>25. ASSUME Orphan PROVE WriterInv'
  BY <1>25, Names DEF SessionInv, Orphan, WriterInv, CloseTransport, HangUp, Arrived, LinkInv
<1>26. ASSUME NotifyReset PROVE WriterInv'
  BY <1>26 DEF SessionInv, NotifyReset, WriterInv, Arrived
<1>27. ASSUME Restart PROVE WriterInv'
  BY <1>27, Names, WriterNames, InitNames DEF SessionInv, Restart, WriterInv, Arrived, SessionTypes, Calls
<1>28. ASSUME UNCHANGED vars PROVE WriterInv'
  BY <1>28 DEF SessionInv, WriterInv, Arrived
<1> QED
  BY <1>1, <1>2, <1>3, <1>4, <1>5, <1>6, <1>7, <1>8, <1>9, <1>10, <1>11,
     <1>12, <1>13, <1>14, <1>15, <1>16, <1>17, <1>18, <1>19, <1>20, <1>21,
     <1>22, <1>23, <1>24, <1>25, <1>26, <1>27, <1>28
     DEF Next, Callers, Flights, Creator, Shell, Reader

LEMMA LinkNext ==
  ASSUME SessionInv, [Next]_vars
  PROVE  LinkInv'
<1>1. ASSUME CreatorReady PROVE LinkInv'
  BY <1>1 DEF SessionInv, CreatorReady, LinkInv
<1>2. ASSUME CreatorFails PROVE LinkInv'
  BY <1>2 DEF SessionInv, CreatorFails, LinkInv, CloseTransport, HangUp
<1>3. ASSUME Register PROVE LinkInv'
  BY <1>3 DEF SessionInv, Register, LinkInv
<1>4. ASSUME Close PROVE LinkInv'
  BY <1>4 DEF SessionInv, Close, LinkInv
<1>5. ASSUME CloseFinish PROVE LinkInv'
  BY <1>5 DEF SessionInv, CloseFinish, LinkInv, CloseTransport, HangUp
<1>6. ASSUME NEW j \in Jobs, Attach(j) PROVE LinkInv'
  BY <1>6 DEF SessionInv, Attach, LinkInv
<1>7. ASSUME NEW j \in Answered, Answer(j) PROVE LinkInv'
  BY <1>7 DEF SessionInv, Answer, LinkInv
<1>8. ASSUME NEW w \in Writers, WriteBegin(w) PROVE LinkInv'
  BY <1>8, Names DEF SessionInv, WriteBegin, LinkInv
<1>9. ASSUME NEW w \in Writers, WriteDone(w) PROVE LinkInv'
  BY <1>9, Names DEF SessionInv, WriteDone, LinkInv, WriterInv
<1>10. ASSUME NEW w \in Writers, WriteAbandon(w) PROVE LinkInv'
  BY <1>10, Names DEF SessionInv, WriteAbandon, LinkInv, CloseTransport, HangUp, WriterInv
<1>11. ASSUME NEW w \in Writers, FlightDeliver(w) PROVE LinkInv'
  BY <1>11, Names DEF SessionInv, FlightDeliver, LinkInv, WriterInv
<1>12. ASSUME NEW w \in Writers, FlightReturn(w) PROVE LinkInv'
  BY <1>12 DEF SessionInv, FlightReturn, LinkInv
<1>13. ASSUME NEW j \in Signallers, SignalCheck(j) PROVE LinkInv'
  BY <1>13 DEF SessionInv, SignalCheck, LinkInv
<1>14. ASSUME NEW j \in Signallers, SignalDeliver(j) PROVE LinkInv'
  BY <1>14 DEF SessionInv, SignalDeliver, LinkInv
<1>15. ASSUME ShellTake PROVE LinkInv'
  BY <1>15 DEF SessionInv, ShellTake, LinkInv
<1>16. ASSUME ShellRead PROVE LinkInv'
  BY <1>16 DEF SessionInv, ShellRead, LinkInv
<1>17. ASSUME ShellPrompt PROVE LinkInv'
  BY <1>17, Names DEF SessionInv, ShellPrompt, LinkInv
<1>18. ASSUME ShellFinish PROVE LinkInv'
  BY <1>18 DEF SessionInv, ShellFinish, LinkInv
<1>19. ASSUME Drop PROVE LinkInv'
  BY <1>19 DEF SessionInv, Drop, LinkInv, HangUp
<1>20. ASSUME Consume PROVE LinkInv'
  BY <1>20 DEF SessionInv, Consume, LinkInv
<1>21. ASSUME ReadEOF PROVE LinkInv'
  BY <1>21 DEF SessionInv, ReadEOF, LinkInv, CloseTransport, HangUp
<1>22. ASSUME RetryLock PROVE LinkInv'
  BY <1>22, Names DEF SessionInv, RetryLock, LinkInv, CloseTransport, HangUp
<1>23. ASSUME ReconnectFails PROVE LinkInv'
  BY <1>23, Names DEF SessionInv, ReconnectFails, LinkInv, CloseTransport, HangUp
<1>24. ASSUME Reconnect PROVE LinkInv'
  BY <1>24 DEF SessionInv, Reconnect, LinkInv
<1>25. ASSUME Orphan PROVE LinkInv'
  BY <1>25, Names DEF SessionInv, Orphan, LinkInv, CloseTransport, HangUp
<1>26. ASSUME NotifyReset PROVE LinkInv'
  BY <1>26 DEF SessionInv, NotifyReset, LinkInv
<1>27. ASSUME Restart PROVE LinkInv'
  BY <1>27 DEF SessionInv, Restart, LinkInv
<1>28. ASSUME UNCHANGED vars PROVE LinkInv'
  BY <1>28 DEF SessionInv, LinkInv
<1> QED
  BY <1>1, <1>2, <1>3, <1>4, <1>5, <1>6, <1>7, <1>8, <1>9, <1>10, <1>11,
     <1>12, <1>13, <1>14, <1>15, <1>16, <1>17, <1>18, <1>19, <1>20, <1>21,
     <1>22, <1>23, <1>24, <1>25, <1>26, <1>27, <1>28
     DEF Next, Callers, Flights, Creator, Shell, Reader

LEMMA CurrentNext ==
  ASSUME SessionInv, [Next]_vars
  PROVE  CurrentInv'
<1>1. ASSUME CreatorReady PROVE CurrentInv'
  BY <1>1 DEF SessionInv, CreatorReady, CurrentInv
<1>2. ASSUME CreatorFails PROVE CurrentInv'
  BY <1>2, TerminateEffect DEF SessionInv, CreatorFails, CurrentInv
<1>3. ASSUME Register PROVE CurrentInv'
  <2>1. \A w \in Writers : wpc'[w] # wpc[w] => wpc[w] = "off" /\ wpc'[w] = "due"
    BY <1>3, Names DEF SessionInv, SessionTypes, Calls, WriterInv, Register
  <2>2. current # NoJob => Line(current) \in Writers
    BY Names DEF SessionInv, SessionTypes
  <2> QED
    BY <1>3, <2>1, <2>2, Names DEF SessionInv, Register, CurrentInv
<1>4. ASSUME Close PROVE CurrentInv'
  BY <1>4, TerminateEffect DEF SessionInv, Close, CurrentInv
<1>5. ASSUME CloseFinish PROVE CurrentInv'
  BY <1>5 DEF SessionInv, CloseFinish, CurrentInv
<1>6. ASSUME NEW j \in Jobs, Attach(j) PROVE CurrentInv'
  <2>1. Line(j) \in Writers /\ wpc[Line(j)] = "due" /\ j \in Jobs \cup {NoJob}
    BY <1>6, Names DEF Attach
  <2>2. j # current /\ born[j] = 0
    BY <2>1, Names DEF SessionInv, CurrentInv, WriterInv, Arrived
  <2>3. \A w \in Writers : w # Line(j) => wpc'[w] = wpc[w]
    BY <1>6 DEF SessionInv, SessionTypes, Calls, Attach
  <2>4. CASE closed \/ current # NoJob
    <3>1. job' = Finalized(j, "failed") /\ "failed" \in Over /\ UNCHANGED <<current, started>>
      BY <1>6, <2>4 DEF Attach, Over
    <3>2. \A k \in Jobs : k # j => job'[k] = job[k]
      BY <2>1, <3>1, FinalizedEffect DEF SessionInv
    <3>3. current # NoJob => Line(current) \in Writers /\ Line(current) # Line(j)
      BY <2>2, Names, WriterNames DEF SessionInv, SessionTypes
    <3> QED
      BY <1>6, <2>2, <2>3, <3>1, <3>2, <3>3, Names, WriterNames DEF SessionInv, SessionTypes, Attach, CurrentInv
  <2>5. CASE ~(closed \/ current # NoJob)
    <3>1. current' = j /\ started' = FALSE /\ job'[j].status = "running" /\ wpc'[Line(j)] = "want"
      BY <1>6, <2>1, <2>5 DEF Attach, SessionInv, SessionTypes, JobStates, Calls
    <3> QED
      BY <1>6, <2>2, <2>3, <2>5, <3>1, Names, WriterNames DEF SessionInv, Attach, CurrentInv
  <2> QED
    BY <2>4, <2>5
<1>7. ASSUME NEW j \in Answered, Answer(j) PROVE CurrentInv'
  <2>1. j \in Jobs /\ born[j] # 0
    BY <1>7, Names DEF Answer, SessionInv, CurrentInv
  <2>2. \A w \in Writers : w # Input(j) => wpc'[w] = wpc[w]
    BY <1>7 DEF SessionInv, SessionTypes, Calls, Answer
  <2>3. \A k \in Jobs : job'[k].status = job[k].status
    BY <1>7 DEF SessionInv, SessionTypes, JobStates, Answer
  <2> QED
    BY <1>7, <2>1, <2>2, <2>3, Names, WriterNames DEF SessionInv, SessionTypes, Answer, CurrentInv
<1>8. ASSUME NEW w \in Writers, WriteBegin(w) PROVE CurrentInv'
  <2>1. CASE closed \/ current # w.of
    <3>1. Settle(w, FALSE) /\ wpc[w] = "want" /\ UNCHANGED <<closed, born, conn, reader, shown>>
      BY <1>8, <2>1 DEF WriteBegin
    <3> QED
      BY <3>1, SettleCurrent, Names, WriterNames DEF SessionInv, SessionTypes, CurrentInv
  <2>2. CASE ~(closed \/ current # w.of)
    <3>1. UNCHANGED <<job, current, started, closed, born, conn, reader, shown>>
      BY <1>8, <2>2 DEF WriteBegin
    <3>2. wpc[w] = "want" /\ wpc'[w] = "writing" /\ \A v \in Writers : v # w => wpc'[v] = wpc[v]
      BY <1>8, <2>2 DEF WriteBegin, SessionInv, SessionTypes, Calls
    <3> QED
      BY <3>1, <3>2, Names, WriterNames DEF SessionInv, SessionTypes, CurrentInv
  <2> QED
    BY <2>1, <2>2
<1>9. ASSUME NEW w \in Writers, WriteDone(w) PROVE CurrentInv'
  <2>1. PICK good \in BOOLEAN : Settle(w, good)
    BY <1>9 DEF WriteDone, SessionInv, SessionTypes
  <2>2. wpc[w] = "writing" /\ UNCHANGED <<closed, born, conn, reader, shown>>
    BY <1>9 DEF WriteDone
  <2>3. /\ wpc'[w] \in {"ok", "failed"} /\ \A v \in Writers : v # w => wpc'[v] = wpc[v]
        /\ (current' = current /\ started' = started) \/ (current' = NoJob /\ started' = FALSE)
        /\ current' # NoJob => job'[current'].status = job[current].status /\ (w = Line(current) => wpc'[w] =
           "ok")
    BY <2>1, SettleCurrent DEF SessionInv
  <2> QED
    BY <2>2, <2>3, Names, WriterNames DEF SessionInv, SessionTypes, CurrentInv
<1>10. ASSUME NEW w \in Writers, WriteAbandon(w) PROVE CurrentInv'
  <2>1. PICK good \in BOOLEAN : Settle(w, good)
    BY <1>10 DEF WriteAbandon, SessionInv, SessionTypes
  <2>2. wpc[w] = "writing" /\ UNCHANGED <<closed, born, conn, reader, shown>>
    BY <1>10 DEF WriteAbandon
  <2>3. /\ wpc'[w] \in {"ok", "failed"} /\ \A v \in Writers : v # w => wpc'[v] = wpc[v]
        /\ (current' = current /\ started' = started) \/ (current' = NoJob /\ started' = FALSE)
        /\ current' # NoJob => job'[current'].status = job[current].status /\ (w = Line(current) => wpc'[w] =
           "ok")
    BY <2>1, SettleCurrent DEF SessionInv
  <2> QED
    BY <2>2, <2>3, Names, WriterNames DEF SessionInv, SessionTypes, CurrentInv
<1>11. ASSUME NEW w \in Writers, FlightDeliver(w) PROVE CurrentInv'
  <2>1. \A k \in Jobs : born'[k] \in {born[k], conn}
    BY <1>11 DEF FlightDeliver, SessionInv, SessionTypes, Births
  <2>2. conn # 0 /\ conn \in Nat
    BY InitNames DEF SessionInv, SessionTypes
  <2> QED
    BY <1>11, <2>1, <2>2, Names DEF SessionInv, SessionTypes, Prints, FlightDeliver, CurrentInv
<1>12. ASSUME NEW w \in Writers, FlightReturn(w) PROVE CurrentInv'
  BY <1>12 DEF SessionInv, FlightReturn, CurrentInv
<1>13. ASSUME NEW j \in Signallers, SignalCheck(j) PROVE CurrentInv'
  <2>1. \A k \in Jobs : job'[k].status = job[k].status
    BY <1>13 DEF SessionInv, SessionTypes, JobStates, SignalCheck
  <2> QED
    BY <1>13, <2>1 DEF SessionInv, SessionTypes, SignalCheck, CurrentInv
<1>14. ASSUME NEW j \in Signallers, SignalDeliver(j) PROVE CurrentInv'
  BY <1>14 DEF SessionInv, SignalDeliver, CurrentInv
<1>15. ASSUME ShellTake PROVE CurrentInv'
  BY <1>15 DEF SessionInv, ShellTake, CurrentInv
<1>16. ASSUME ShellRead PROVE CurrentInv'
  BY <1>16 DEF SessionInv, ShellRead, CurrentInv
<1>17. ASSUME ShellPrompt PROVE CurrentInv'
  BY <1>17 DEF SessionInv, ShellPrompt, CurrentInv
<1>18. ASSUME ShellFinish PROVE CurrentInv'
  BY <1>18 DEF SessionInv, ShellFinish, CurrentInv
<1>19. ASSUME Drop PROVE CurrentInv'
  BY <1>19 DEF SessionInv, Drop, CurrentInv
<1>20. ASSUME Consume PROVE CurrentInv'
  <2>1. outq # <<>> /\ Head(outq) = outq[1] /\ 1 \in DOMAIN outq
    BY <1>20, TailQueue DEF Consume, SessionInv, SessionTypes
  <2>2. CASE ~started
    BY <1>20, <2>1, <2>2 DEF Consume, SessionInv, CurrentInv, LineInv
  <2>3. CASE started
    <3>1. current' \in {current,
       NoJob} /\ (started' => current' # NoJob) /\ (current' # NoJob => job' = job /\ started')
      BY <1>20, <2>3 DEF Consume, SessionInv, CurrentInv
    <3>2. \A s \in shown' : s \in shown \/ s.on = current
      BY <1>20, ConsumeShows
    <3>3. born[current] # 0
      BY <2>3 DEF SessionInv, CurrentInv
    <3>4. UNCHANGED <<closed, wpc, born, conn, reader>>
      BY <1>20 DEF Consume
    <3> QED
      BY <2>3, <3>1, <3>2, <3>3, <3>4 DEF SessionInv, CurrentInv
  <2> QED
    BY <2>2, <2>3
<1>21. ASSUME ReadEOF PROVE CurrentInv'
  BY <1>21, TerminateEffect DEF SessionInv, ReadEOF, CurrentInv
<1>22. ASSUME RetryLock PROVE CurrentInv'
  BY <1>22 DEF SessionInv, RetryLock, CurrentInv
<1>23. ASSUME ReconnectFails PROVE CurrentInv'
  BY <1>23, TerminateEffect DEF SessionInv, ReconnectFails, CurrentInv
<1>24. ASSUME Reconnect PROVE CurrentInv'
  BY <1>24 DEF SessionInv, Reconnect, CurrentInv
<1>25. ASSUME Orphan PROVE CurrentInv'
  BY <1>25 DEF SessionInv, Orphan, CurrentInv
<1>26. ASSUME NotifyReset PROVE CurrentInv'
  BY <1>26 DEF SessionInv, NotifyReset, CurrentInv
<1>27. ASSUME Restart PROVE CurrentInv'
  <2>1. \A w \in Writers : w # Line(Inits[conn]) => wpc'[w] = wpc[w]
    BY <1>27 DEF SessionInv, SessionTypes, Calls, Restart
  <2>2. wpc[Line(Inits[conn])] = "off"
    BY <1>27 DEF Restart, SessionInv, SessionTypes, WriterInv
  <2> QED
    BY <1>27, <2>1, <2>2, Names, WriterNames DEF SessionInv, SessionTypes, CurrentInv, Restart
<1>28. ASSUME UNCHANGED vars PROVE CurrentInv'
  BY <1>28 DEF SessionInv, CurrentInv
<1> QED
  BY <1>1, <1>2, <1>3, <1>4, <1>5, <1>6, <1>7, <1>8, <1>9, <1>10, <1>11,
     <1>12, <1>13, <1>14, <1>15, <1>16, <1>17, <1>18, <1>19, <1>20, <1>21,
     <1>22, <1>23, <1>24, <1>25, <1>26, <1>27, <1>28
     DEF Next, Callers, Flights, Creator, Shell, Reader

LEMMA LineNext ==
  ASSUME SessionInv, [Next]_vars
  PROVE  LineInv'
<1>1. ASSUME CreatorReady PROVE LineInv'
  BY <1>1 DEF SessionInv, CreatorReady, LineInv, IsLine, IsEnd, Outstanding
<1>2. ASSUME CreatorFails PROVE LineInv'
  <2>1. inq' = <<>> /\ outq' = <<>> /\ run' = NoJob /\ tclosed' = TRUE
    BY <1>2 DEF CreatorFails, CloseTransport, HangUp
  <2> QED
    BY <2>1, EmptyQueue, Names DEF LineInv, IsLine, IsEnd, Outstanding
<1>3. ASSUME Register PROVE LineInv'
  BY <1>3 DEF SessionInv, Register, LineInv, IsLine, IsEnd, Outstanding
<1>4. ASSUME Close PROVE LineInv'
  BY <1>4 DEF SessionInv, Close, LineInv, IsLine, IsEnd, Outstanding, Terminate
<1>5. ASSUME CloseFinish PROVE LineInv'
  <2>1. inq' = <<>> /\ outq' = <<>> /\ run' = NoJob /\ tclosed' = TRUE
    BY <1>5 DEF CloseFinish, CloseTransport, HangUp
  <2> QED
    BY <2>1, EmptyQueue, Names DEF LineInv, IsLine, IsEnd, Outstanding
<1>6. ASSUME NEW j \in Jobs, Attach(j) PROVE LineInv'
  <2>1. CASE closed \/ current # NoJob
    BY <1>6, <2>1 DEF SessionInv, Attach, LineInv, IsLine, IsEnd, Outstanding
  <2>2. CASE ~(closed \/ current # NoJob)
    <3>1. \A k \in Jobs : ~Outstanding(k) /\ (flight[Line(k)] = "pending" => tclosed)
      BY <2>2, Names DEF SessionInv, LineInv
    <3>2. UNCHANGED <<inq, outq, run, conn, born, flight, tclosed, closed>>
      BY <1>6 DEF Attach
    <3> QED
      BY <3>1, <3>2 DEF SessionInv, LineInv, IsLine, IsEnd, Outstanding
  <2> QED
    BY <2>1, <2>2
<1>7. ASSUME NEW j \in Answered, Answer(j) PROVE LineInv'
  BY <1>7 DEF SessionInv, Answer, LineInv, IsLine, IsEnd, Outstanding
<1>8. ASSUME NEW w \in Writers, WriteBegin(w) PROVE LineInv'
  <2>1. CASE closed \/ current # w.of
    <3>1. Settle(w, FALSE) /\ UNCHANGED <<inq, outq, run, conn, born, flight, tclosed, closed>>
      BY <1>8, <2>1 DEF WriteBegin
    <3>2. current' = current
      BY <2>1, <3>1, Names DEF Settle, SessionInv, CurrentInv
    <3> QED
      BY <3>1, <3>2 DEF SessionInv, LineInv, IsLine, IsEnd, Outstanding
  <2>2. CASE ~(closed \/ current # w.of)
    <3>1. wpc[w] = "want" /\ flight[w] = "none"
      BY <1>8 DEF WriteBegin, SessionInv, WriterInv
    <3>2. \A v \in Writers : v # w => flight'[v] = flight[v]
      BY <1>8, <2>2 DEF WriteBegin, SessionInv, SessionTypes, Writes
    <3>3. ASSUME w = Line(w.of), NEW k \in Jobs, Outstanding(k) PROVE FALSE
      <4>1. k = w.of /\ born[k] = conn /\ conn # 0
        BY <2>2, <3>3, InitNames DEF SessionInv, SessionTypes, LineInv
      <4> QED
        BY <3>1, <3>3, <4>1 DEF SessionInv, WriterInv, Arrived
    <3>4. UNCHANGED <<inq, outq, run, conn, born, tclosed, closed, current>>
      BY <1>8, <2>2 DEF WriteBegin
    <3> QED
      BY <2>2, <3>2, <3>3, <3>4, Names, WriterNames DEF SessionInv, LineInv, IsLine, IsEnd, Outstanding
  <2> QED
    BY <2>1, <2>2
<1>9. ASSUME NEW w \in Writers, WriteDone(w) PROVE LineInv'
  <2>1. UNCHANGED <<inq, outq, run, conn, born, flight, tclosed, closed>>
    BY <1>9 DEF WriteDone
  <2>2. CASE current' = current \/ closed
    BY <2>1, <2>2 DEF SessionInv, LineInv, IsLine, IsEnd, Outstanding
  <2>3. CASE ~(current' = current \/ closed)
    <3>1. w = Line(current) /\ flight[w] = "err" /\ current # NoJob
      BY <1>9, <2>3, Names, WriterNames DEF WriteDone, Settle, SessionInv, CurrentInv
    <3>2. ~Outstanding(current)
      BY <3>1, InitNames DEF SessionInv, SessionTypes, LineInv, WriterInv, Arrived
    <3> QED
      BY <2>1, <2>3, <3>1, <3>2 DEF SessionInv, LineInv, IsLine, IsEnd, Outstanding
  <2> QED
    BY <2>2, <2>3
<1>10. ASSUME NEW w \in Writers, WriteAbandon(w) PROVE LineInv'
  <2>1. inq' = <<>> /\ outq' = <<>> /\ run' = NoJob /\ tclosed' = TRUE
    BY <1>10 DEF WriteAbandon, CloseTransport, HangUp
  <2> QED
    BY <2>1, EmptyQueue, Names DEF LineInv, IsLine, IsEnd, Outstanding
<1>11. ASSUME NEW w \in Writers, FlightDeliver(w) PROVE LineInv'
  <2>1. flight[w] = "pending" /\ flight'[w] # "pending" /\ \A v \in Writers : v # w => flight'[v] = flight[v]
    BY <1>11 DEF FlightDeliver, SessionInv, SessionTypes, Writes
  <2>2. \A v \in Writers : flight'[v] = "pending" => flight[v] = "pending" /\ v # w
    BY <2>1
  <2>3. \A k \in Jobs : Line(k) \in Writers
    BY Names
  <2>4. UNCHANGED <<outq, run, conn, tclosed, closed, current>>
    BY <1>11 DEF FlightDeliver
  <2>5. CASE ~alive
    BY <1>11, <2>2, <2>3, <2>4, <2>5 DEF FlightDeliver, SessionInv, LineInv, IsLine, IsEnd, Outstanding
  <2>6. CASE alive
    <3>1. ~tclosed /\ inq' = Append(inq, w)
      BY <1>11, <2>6 DEF FlightDeliver, SessionInv, LinkInv
    <3>2. /\ \A i \in DOMAIN inq : i \in DOMAIN inq' /\ inq'[i] = inq[i]
          /\ \A i \in DOMAIN inq' : i \in DOMAIN inq \/ (i = Len(inq) + 1 /\ inq'[i] = w)
      BY <3>1, AppendQueue DEF SessionInv, SessionTypes
    <3>3. CASE w.kind = "input"
      <4>1. born' = born
        BY <1>11, <2>6, <3>3 DEF FlightDeliver
      <4>2. \A i : IsLine(i)' <=> IsLine(i)
        BY <3>2, <3>3 DEF IsLine
      <4>3. \A i : IsLine(i)' => inq'[i] = inq[i]
        BY <3>2, <4>2 DEF IsLine
      <4>4. \A k \in Jobs : Outstanding(k)' <=> Outstanding(k)
        BY <2>4, <3>2, <4>2, <4>3 DEF Outstanding, IsEnd, IsLine
      <4>5. \A i : IsEnd(i)' <=> IsEnd(i)
        BY <2>4 DEF IsEnd
      <4> QED
        BY <2>2, <2>3, <2>4, <3>2, <4>1, <4>2, <4>4, <4>5 DEF SessionInv, LineInv, IsLine
    <3>4. CASE w.kind = "line"
      <4>1. w = Line(w.of) /\ w.of \in Jobs
        BY <3>4, Names, WriterNames
      <4>2. (current = w.of \/ closed) /\ \A k \in Jobs : ~Outstanding(k)
        BY <2>1, <3>1, <4>1 DEF SessionInv, LineInv
      <4>3. \A i : ~IsLine(i) /\ ~IsEnd(i)
        <5>1. \A i : IsEnd(i) => i \in DOMAIN outq /\ outq[i].of \in Jobs
          BY QueueTypes DEF IsEnd, SessionInv
        <5>2. \A i : IsLine(i) => i \in DOMAIN inq /\ inq[i].of \in Jobs
          BY QueueTypes DEF IsLine, SessionInv
        <5> QED
          BY <4>2, <5>1, <5>2 DEF Outstanding
      <4>4. run = NoJob
        BY <4>2 DEF Outstanding, SessionInv, SessionTypes
      <4>5. \A i : IsLine(i)' => i = Len(inq) + 1 /\ inq'[i] = w
        BY <3>2, <4>3 DEF IsLine
      <4>6. \A i : ~IsEnd(i)'
        BY <2>4, <4>3 DEF IsEnd
      <4>7. \A k \in Jobs : Outstanding(k)' => k = w.of
        BY <2>4, <4>4, <4>5, <4>6, Names DEF Outstanding
      <4>8. born'[w.of] = conn /\ \A k \in Jobs : born[k] # 0 => born'[k] # 0
        BY <1>11, <2>6, <3>4, <4>1, InitNames DEF FlightDeliver, SessionInv, SessionTypes, Births
      <4>9. \A k \in Jobs : flight'[Line(k)] # "pending"
        BY <2>1, <2>2, <2>3, <3>1 DEF SessionInv, WriterInv
      <4>10. \A i \in DOMAIN outq' : outq'[i].mark # "echo" => outq'[i].by = outq'[i].of /\
         born'[outq'[i].of] # 0
        BY <2>4, <4>8, QueueTypes DEF SessionInv, LineInv
      <4>11. \A i, k \in DOMAIN inq' : IsLine(i)' /\ IsLine(k)' => i = k
        BY <4>5
      <4>12. \A k \in Jobs : Outstanding(k)' => born'[k] = conn' /\ (current' = k \/ closed')
        BY <2>4, <4>2, <4>7, <4>8
      <4>13. run' = NoJob
        BY <2>4, <4>4
      <4> QED
        BY <4>6, <4>9, <4>10, <4>11, <4>12, <4>13 DEF LineInv
    <3> QED
      BY <3>3, <3>4, Names, WriterNames
  <2> QED
    BY <2>5, <2>6
<1>12. ASSUME NEW w \in Writers, FlightReturn(w) PROVE LineInv'
  <2>1. \A v \in Writers : flight'[v] = "pending" => flight[v] = "pending"
    BY <1>12 DEF FlightReturn, SessionInv, SessionTypes, Writes
  <2> QED
    BY <1>12, <2>1, Names DEF SessionInv, FlightReturn, LineInv, IsLine, IsEnd, Outstanding
<1>13. ASSUME NEW j \in Signallers, SignalCheck(j) PROVE LineInv'
  BY <1>13 DEF SessionInv, SignalCheck, LineInv, IsLine, IsEnd, Outstanding
<1>14. ASSUME NEW j \in Signallers, SignalDeliver(j) PROVE LineInv'
  BY <1>14 DEF SessionInv, SignalDeliver, LineInv, IsLine, IsEnd, Outstanding
<1>15. ASSUME ShellTake PROVE LineInv'
  <2>1. inq # <<>> /\ inq' = Tail(inq) /\ Head(inq) = inq[1] /\ 1 \in DOMAIN inq
    BY <1>15, TailQueue DEF ShellTake, SessionInv, SessionTypes
  <2>2. \A i \in DOMAIN inq' : i + 1 \in DOMAIN inq /\ inq'[i] = inq[i + 1] /\ i + 1 # 1
    BY <2>1, TailQueue DEF SessionInv, SessionTypes
  <2>3. \A i : IsLine(i)' => IsLine(i + 1) /\ i \in DOMAIN inq' /\ inq'[i] = inq[i + 1]
    BY <2>2 DEF IsLine
  <2>4. UNCHANGED <<conn, born, tclosed, closed, current, flight>> /\ run = NoJob
    BY <1>15 DEF ShellTake
  <2>5. Head(inq) \in Writers /\ Head(inq).of \in Jobs
    BY <2>1, Names DEF SessionInv, SessionTypes
  <2>6. CASE Head(inq).kind # "line"
    <3>1. PICK t \in Tokens : t.mark = "echo" /\ outq' = Append(outq, t)
      BY <1>15, <2>5, <2>6 DEF ShellTake, Tokens
    <3>2. /\ \A i \in DOMAIN outq : i \in DOMAIN outq' /\ outq'[i] = outq[i]
          /\ \A i \in DOMAIN outq' : i \in DOMAIN outq \/ outq'[i] = t
      BY <3>1, AppendQueue DEF SessionInv, SessionTypes
    <3>3. \A i : IsEnd(i)' <=> IsEnd(i)
      BY <3>1, <3>2 DEF IsEnd
    <3>4. run' = run
      BY <1>15, <2>6 DEF ShellTake
    <3>5. \A k \in Jobs : Outstanding(k)' => Outstanding(k)
      BY <2>3, <3>2, <3>3, <3>4 DEF Outstanding, IsEnd, IsLine
    <3>6. \A i, k \in DOMAIN inq' : IsLine(i)' /\ IsLine(k)' => i = k
      BY <2>1, <2>2, <2>3, TailQueue DEF SessionInv, SessionTypes, LineInv
    <3>7. \A i, k \in DOMAIN inq' : IsLine(i)' /\ IsLine(k)' => i = k
      BY <2>2, <2>3, <2>4, <3>1, <3>2, <3>3, <3>4, <3>5, <3>6 DEF SessionInv, LineInv, IsLine, IsEnd
    <3>8. \A i, k \in DOMAIN outq' : IsEnd(i)' /\ IsEnd(k)' => i = k
      BY <2>2, <2>3, <2>4, <3>1, <3>2, <3>3, <3>4, <3>5, <3>6 DEF SessionInv, LineInv, IsLine, IsEnd
    <3>9. \A i \in DOMAIN inq' : IsLine(i)' => run' = NoJob /\ \A k \in DOMAIN outq' : ~IsEnd(k)'
      BY <2>2, <2>3, <2>4, <3>1, <3>2, <3>3, <3>4, <3>5, <3>6 DEF SessionInv, LineInv, IsLine, IsEnd
    <3>10. run' # NoJob => \A k \in DOMAIN outq' : ~IsEnd(k)'
      BY <2>2, <2>3, <2>4, <3>1, <3>2, <3>3, <3>4, <3>5, <3>6 DEF SessionInv, LineInv, IsLine, IsEnd
    <3>11. \A k \in Jobs : Outstanding(k)' => born'[k] = conn' /\ (current' = k \/ closed')
      BY <2>2, <2>3, <2>4, <3>1, <3>2, <3>3, <3>4, <3>5, <3>6 DEF SessionInv, LineInv, IsLine, IsEnd
    <3>12. \A i \in DOMAIN outq' : outq'[i].mark # "echo" => outq'[i].by = outq'[i].of /\ born'[outq'[i].of] # 0
      BY <2>2, <2>3, <2>4, <3>1, <3>2, <3>3, <3>4, <3>5, <3>6 DEF SessionInv, LineInv, IsLine, IsEnd
    <3>13. \A k \in Jobs : flight'[Line(k)] = "pending" /\ ~tclosed' =>
         (current' = k \/ closed') /\ \A m \in Jobs : ~Outstanding(m)'
      BY <2>2, <2>3, <2>4, <3>1, <3>2, <3>3, <3>4, <3>5, <3>6 DEF SessionInv, LineInv, IsLine, IsEnd
    <3> QED
      BY <3>7, <3>8, <3>9, <3>10, <3>11, <3>12, <3>13 DEF LineInv
  <2>7. CASE Head(inq).kind = "line"
    <3>1. PICK t \in Tokens : t.mark = "begin" /\ t.by = t.of /\ t.of = Head(inq).of /\ outq' = Append(outq, t)
      BY <1>15, <2>5, <2>7 DEF ShellTake, Tokens
    <3>2. /\ \A i \in DOMAIN outq : i \in DOMAIN outq' /\ outq'[i] = outq[i]
          /\ \A i \in DOMAIN outq' : i \in DOMAIN outq \/ outq'[i] = t
      BY <3>1, AppendQueue DEF SessionInv, SessionTypes
    <3>3. run' = Head(inq).of
      BY <1>15, <2>7 DEF ShellTake
    <3>4. IsLine(1) /\ Outstanding(Head(inq).of)
      BY <2>1, <2>7 DEF IsLine, Outstanding
    <3>5. \A i : ~IsEnd(i)
      BY <3>4 DEF SessionInv, LineInv, IsLine, IsEnd
    <3>6. \A i : ~IsEnd(i)'
      BY <3>1, <3>2, <3>5 DEF IsEnd
    <3>7. \A i : ~IsLine(i)'
      BY <2>1, <2>2, <2>3, <3>4 DEF SessionInv, LineInv
    <3>8. \A k \in Jobs : Outstanding(k)' => k = Head(inq).of
      BY <3>3, <3>6, <3>7 DEF Outstanding
    <3>9. born[Head(inq).of] = conn /\ conn # 0
      BY <2>5, <3>4, InitNames DEF SessionInv, SessionTypes, LineInv
    <3>10. \A i, k \in DOMAIN inq' : IsLine(i)' /\ IsLine(k)' => i = k
      BY <2>4, <2>5, <3>1, <3>2, <3>4, <3>6, <3>7, <3>8, <3>9 DEF SessionInv, LineInv, IsLine, IsEnd
    <3>11. \A i, k \in DOMAIN outq' : IsEnd(i)' /\ IsEnd(k)' => i = k
      BY <2>4, <2>5, <3>1, <3>2, <3>4, <3>6, <3>7, <3>8, <3>9 DEF SessionInv, LineInv, IsLine, IsEnd
    <3>12. \A i \in DOMAIN inq' : IsLine(i)' => run' = NoJob /\ \A k \in DOMAIN outq' : ~IsEnd(k)'
      BY <2>4, <2>5, <3>1, <3>2, <3>4, <3>6, <3>7, <3>8, <3>9 DEF SessionInv, LineInv, IsLine, IsEnd
    <3>13. run' # NoJob => \A k \in DOMAIN outq' : ~IsEnd(k)'
      BY <2>4, <2>5, <3>1, <3>2, <3>4, <3>6, <3>7, <3>8, <3>9 DEF SessionInv, LineInv, IsLine, IsEnd
    <3>14. \A k \in Jobs : Outstanding(k)' => born'[k] = conn' /\ (current' = k \/ closed')
      BY <2>4, <2>5, <3>1, <3>2, <3>4, <3>6, <3>7, <3>8, <3>9 DEF SessionInv, LineInv, IsLine, IsEnd
    <3>15. \A i \in DOMAIN outq' : outq'[i].mark # "echo" => outq'[i].by = outq'[i].of /\ born'[outq'[i].of] # 0
      BY <2>4, <2>5, <3>1, <3>2, <3>4, <3>6, <3>7, <3>8, <3>9 DEF SessionInv, LineInv, IsLine, IsEnd
    <3>16. \A k \in Jobs : flight'[Line(k)] = "pending" /\ ~tclosed' =>
         (current' = k \/ closed') /\ \A m \in Jobs : ~Outstanding(m)'
      BY <2>4, <2>5, <3>1, <3>2, <3>4, <3>6, <3>7, <3>8, <3>9 DEF SessionInv, LineInv, IsLine, IsEnd
    <3> QED
      BY <3>10, <3>11, <3>12, <3>13, <3>14, <3>15, <3>16 DEF LineInv
  <2> QED
    BY <2>6, <2>7
<1>16. ASSUME ShellRead PROVE LineInv'
  <2>1. inq # <<>> /\ inq' = Tail(inq) /\ Head(inq) = inq[1] /\ 1 \in DOMAIN inq
    BY <1>16, TailQueue DEF ShellRead, SessionInv, SessionTypes
  <2>2. \A i \in DOMAIN inq' : i + 1 \in DOMAIN inq /\ inq'[i] = inq[i + 1] /\ i + 1 # 1
    BY <2>1, TailQueue DEF SessionInv, SessionTypes
  <2>3. \A i : IsLine(i)' => IsLine(i + 1) /\ i \in DOMAIN inq' /\ inq'[i] = inq[i + 1]
    BY <2>2 DEF IsLine
  <2>4. PICK t \in Tokens : t.mark = "echo" /\ outq' = Append(outq, t)
    <3>1. inq[1].of \in Jobs /\ run \in Jobs
      BY <1>16, <2>1, QueueTypes DEF ShellRead, SessionInv, SessionTypes
    <3> QED
      BY <1>16, <2>1, <3>1 DEF ShellRead, Tokens
  <2>5. /\ \A i \in DOMAIN outq : i \in DOMAIN outq' /\ outq'[i] = outq[i]
        /\ \A i \in DOMAIN outq' : i \in DOMAIN outq \/ outq'[i] = t
    BY <2>4, AppendQueue DEF SessionInv, SessionTypes
  <2>6. \A i : IsEnd(i)' <=> IsEnd(i)
    BY <2>4, <2>5 DEF IsEnd
  <2>7. UNCHANGED <<run, conn, born, tclosed, closed, current, flight>> /\ run # NoJob
    BY <1>16 DEF ShellRead
  <2>8. \A k \in Jobs : Outstanding(k)' => Outstanding(k)
    BY <2>3, <2>5, <2>6, <2>7 DEF Outstanding, IsEnd, IsLine
  <2>9. \A i : ~IsLine(i)'
    BY <2>3, <2>7 DEF SessionInv, LineInv, IsLine
  <2>10. \A i, k \in DOMAIN inq' : IsLine(i)' /\ IsLine(k)' => i = k
    BY <2>4, <2>5, <2>6, <2>7, <2>8, <2>9 DEF SessionInv, LineInv, IsLine, IsEnd
  <2>11. \A i, k \in DOMAIN outq' : IsEnd(i)' /\ IsEnd(k)' => i = k
    BY <2>4, <2>5, <2>6, <2>7, <2>8, <2>9 DEF SessionInv, LineInv, IsLine, IsEnd
  <2>12. \A i \in DOMAIN inq' : IsLine(i)' => run' = NoJob /\ \A k \in DOMAIN outq' : ~IsEnd(k)'
    BY <2>4, <2>5, <2>6, <2>7, <2>8, <2>9 DEF SessionInv, LineInv, IsLine, IsEnd
  <2>13. run' # NoJob => \A k \in DOMAIN outq' : ~IsEnd(k)'
    BY <2>4, <2>5, <2>6, <2>7, <2>8, <2>9 DEF SessionInv, LineInv, IsLine, IsEnd
  <2>14. \A k \in Jobs : Outstanding(k)' => born'[k] = conn' /\ (current' = k \/ closed')
    BY <2>4, <2>5, <2>6, <2>7, <2>8, <2>9 DEF SessionInv, LineInv, IsLine, IsEnd
  <2>15. \A i \in DOMAIN outq' : outq'[i].mark # "echo" => outq'[i].by = outq'[i].of /\ born'[outq'[i].of] # 0
    BY <2>4, <2>5, <2>6, <2>7, <2>8, <2>9 DEF SessionInv, LineInv, IsLine, IsEnd
  <2>16. \A k \in Jobs : flight'[Line(k)] = "pending" /\ ~tclosed' =>
         (current' = k \/ closed') /\ \A m \in Jobs : ~Outstanding(m)'
    BY <2>4, <2>5, <2>6, <2>7, <2>8, <2>9 DEF SessionInv, LineInv, IsLine, IsEnd
  <2> QED
    BY <2>10, <2>11, <2>12, <2>13, <2>14, <2>15, <2>16 DEF LineInv
<1>17. ASSUME ShellPrompt PROVE LineInv'
  <2>1. run \in Jobs /\ Outstanding(run)
    BY <1>17, Names DEF ShellPrompt, Outstanding
  <2>2. PICK t \in Tokens : t.mark = "prompt" /\ t.of = run /\ t.by = run /\ outq' = Append(outq, t)
    BY <1>17, <2>1 DEF ShellPrompt, Tokens
  <2>3. /\ \A i \in DOMAIN outq : i \in DOMAIN outq' /\ outq'[i] = outq[i]
        /\ \A i \in DOMAIN outq' : i \in DOMAIN outq \/ outq'[i] = t
    BY <2>2, AppendQueue DEF SessionInv, SessionTypes
  <2>4. \A i : IsEnd(i)' <=> IsEnd(i)
    BY <2>2, <2>3 DEF IsEnd
  <2>5. UNCHANGED <<inq, run, conn, born, tclosed, closed, current, flight>>
    BY <1>17 DEF ShellPrompt
  <2>6. \A i : IsLine(i)' <=> IsLine(i)
    BY <2>5 DEF IsLine
  <2>7. \A k \in Jobs : Outstanding(k)' => Outstanding(k)
    BY <2>3, <2>4, <2>5, <2>6 DEF Outstanding, IsEnd
  <2>8. born[run] # 0
    BY <2>1, InitNames DEF SessionInv, SessionTypes, LineInv
  <2>9. \A i, k \in DOMAIN inq' : IsLine(i)' /\ IsLine(k)' => i = k
    BY <2>2, <2>3, <2>4, <2>5, <2>6, <2>7, <2>8 DEF SessionInv, LineInv, IsLine, IsEnd
  <2>10. \A i, k \in DOMAIN outq' : IsEnd(i)' /\ IsEnd(k)' => i = k
    BY <2>2, <2>3, <2>4, <2>5, <2>6, <2>7, <2>8 DEF SessionInv, LineInv, IsLine, IsEnd
  <2>11. \A i \in DOMAIN inq' : IsLine(i)' => run' = NoJob /\ \A k \in DOMAIN outq' : ~IsEnd(k)'
    BY <2>2, <2>3, <2>4, <2>5, <2>6, <2>7, <2>8 DEF SessionInv, LineInv, IsLine, IsEnd
  <2>12. run' # NoJob => \A k \in DOMAIN outq' : ~IsEnd(k)'
    BY <2>2, <2>3, <2>4, <2>5, <2>6, <2>7, <2>8 DEF SessionInv, LineInv, IsLine, IsEnd
  <2>13. \A k \in Jobs : Outstanding(k)' => born'[k] = conn' /\ (current' = k \/ closed')
    BY <2>2, <2>3, <2>4, <2>5, <2>6, <2>7, <2>8 DEF SessionInv, LineInv, IsLine, IsEnd
  <2>14. \A i \in DOMAIN outq' : outq'[i].mark # "echo" => outq'[i].by = outq'[i].of /\ born'[outq'[i].of] # 0
    BY <2>2, <2>3, <2>4, <2>5, <2>6, <2>7, <2>8 DEF SessionInv, LineInv, IsLine, IsEnd
  <2>15. \A k \in Jobs : flight'[Line(k)] = "pending" /\ ~tclosed' =>
         (current' = k \/ closed') /\ \A m \in Jobs : ~Outstanding(m)'
    BY <2>2, <2>3, <2>4, <2>5, <2>6, <2>7, <2>8 DEF SessionInv, LineInv, IsLine, IsEnd
  <2> QED
    BY <2>9, <2>10, <2>11, <2>12, <2>13, <2>14, <2>15 DEF LineInv
<1>18. ASSUME ShellFinish PROVE LineInv'
  <2>1. run \in Jobs /\ Outstanding(run) /\ run # NoJob
    BY <1>18 DEF ShellFinish, Outstanding, SessionInv, SessionTypes
  <2>2. PICK t \in Tokens : t.mark = "end" /\ t.of = run /\ t.by = run /\ outq' = Append(outq, t)
    BY <1>18, <2>1 DEF ShellFinish, Tokens
  <2>3. /\ \A i \in DOMAIN outq : i \in DOMAIN outq' /\ outq'[i] = outq[i]
        /\ \A i \in DOMAIN outq' : i \in DOMAIN outq \/ (i = Len(outq) + 1 /\ outq'[i] = t)
    BY <2>2, AppendQueue DEF SessionInv, SessionTypes
  <2>4. run' = NoJob /\ UNCHANGED <<inq, conn, born, tclosed, closed, current, flight>>
    BY <1>18 DEF ShellFinish
  <2>5. \A i : ~IsEnd(i) /\ ~IsLine(i)
    BY <2>1 DEF SessionInv, LineInv, IsEnd, IsLine
  <2>6. \A i : ~IsLine(i)'
    BY <2>4, <2>5 DEF IsLine
  <2>7. \A i : IsEnd(i)' => i = Len(outq) + 1 /\ outq'[i] = t
    BY <2>3, <2>5 DEF IsEnd
  <2>8. \A k \in Jobs : Outstanding(k)' => Outstanding(k)
    BY <2>1, <2>2, <2>4, <2>6, <2>7, Names DEF Outstanding
  <2>9. born[run] # 0
    BY <2>1, InitNames DEF SessionInv, SessionTypes, LineInv
  <2>10. \A i, k \in DOMAIN inq' : IsLine(i)' /\ IsLine(k)' => i = k
    BY <2>1, <2>2, <2>3, <2>4, <2>6, <2>7, <2>8, <2>9 DEF SessionInv, LineInv, IsLine, IsEnd
  <2>11. \A i, k \in DOMAIN outq' : IsEnd(i)' /\ IsEnd(k)' => i = k
    BY <2>1, <2>2, <2>3, <2>4, <2>6, <2>7, <2>8, <2>9 DEF SessionInv, LineInv, IsLine, IsEnd
  <2>12. \A i \in DOMAIN inq' : IsLine(i)' => run' = NoJob /\ \A k \in DOMAIN outq' : ~IsEnd(k)'
    BY <2>1, <2>2, <2>3, <2>4, <2>6, <2>7, <2>8, <2>9 DEF SessionInv, LineInv, IsLine, IsEnd
  <2>13. run' # NoJob => \A k \in DOMAIN outq' : ~IsEnd(k)'
    BY <2>1, <2>2, <2>3, <2>4, <2>6, <2>7, <2>8, <2>9 DEF SessionInv, LineInv, IsLine, IsEnd
  <2>14. \A k \in Jobs : Outstanding(k)' => born'[k] = conn' /\ (current' = k \/ closed')
    BY <2>1, <2>2, <2>3, <2>4, <2>6, <2>7, <2>8, <2>9 DEF SessionInv, LineInv, IsLine, IsEnd
  <2>15. \A i \in DOMAIN outq' : outq'[i].mark # "echo" => outq'[i].by = outq'[i].of /\ born'[outq'[i].of] # 0
    BY <2>1, <2>2, <2>3, <2>4, <2>6, <2>7, <2>8, <2>9 DEF SessionInv, LineInv, IsLine, IsEnd
  <2>16. \A k \in Jobs : flight'[Line(k)] = "pending" /\ ~tclosed' =>
         (current' = k \/ closed') /\ \A m \in Jobs : ~Outstanding(m)'
    BY <2>1, <2>2, <2>3, <2>4, <2>6, <2>7, <2>8, <2>9 DEF SessionInv, LineInv, IsLine, IsEnd
  <2> QED
    BY <2>10, <2>11, <2>12, <2>13, <2>14, <2>15, <2>16 DEF LineInv
<1>19. ASSUME Drop PROVE LineInv'
  <2>1. inq' = <<>> /\ run' = NoJob /\ UNCHANGED <<outq, conn, born, tclosed, closed, current, flight>>
    BY <1>19 DEF Drop, HangUp
  <2> QED
    BY <2>1, EmptyQueue, Names DEF SessionInv, LineInv, IsLine, IsEnd, Outstanding
<1>20. ASSUME Consume PROVE LineInv'
  <2>1. outq # <<>> /\ outq' = Tail(outq) /\ Head(outq) = outq[1] /\ 1 \in DOMAIN outq
    BY <1>20, TailQueue DEF Consume, SessionInv, SessionTypes
  <2>2. \A i \in DOMAIN outq' : i + 1 \in DOMAIN outq /\ outq'[i] = outq[i + 1] /\ i + 1 # 1
    BY <2>1, TailQueue DEF SessionInv, SessionTypes
  <2>3. \A i : IsEnd(i)' => IsEnd(i + 1) /\ i \in DOMAIN outq' /\ outq'[i] = outq[i + 1]
    BY <2>2 DEF IsEnd
  <2>4. UNCHANGED <<inq, run, conn, born, tclosed, closed, flight>>
    BY <1>20 DEF Consume
  <2>5. \A i : IsLine(i)' <=> IsLine(i)
    BY <2>4 DEF IsLine
  <2>6. \A k \in Jobs : Outstanding(k)' => Outstanding(k)
    BY <2>2, <2>3, <2>4, <2>5 DEF Outstanding
  <2>7. \A i, k \in DOMAIN outq' : IsEnd(i)' /\ IsEnd(k)' => i = k
    BY <2>1, <2>2, <2>3, TailQueue DEF SessionInv, SessionTypes, LineInv
  <2>8. CASE current' = current
    <3>1. \A i, k \in DOMAIN inq' : IsLine(i)' /\ IsLine(k)' => i = k
      BY <2>2, <2>3, <2>4, <2>5, <2>6, <2>7, <2>8 DEF SessionInv, LineInv, IsLine, IsEnd
    <3>2. \A i, k \in DOMAIN outq' : IsEnd(i)' /\ IsEnd(k)' => i = k
      BY <2>2, <2>3, <2>4, <2>5, <2>6, <2>7, <2>8 DEF SessionInv, LineInv, IsLine, IsEnd
    <3>3. \A i \in DOMAIN inq' : IsLine(i)' => run' = NoJob /\ \A k \in DOMAIN outq' : ~IsEnd(k)'
      BY <2>2, <2>3, <2>4, <2>5, <2>6, <2>7, <2>8 DEF SessionInv, LineInv, IsLine, IsEnd
    <3>4. run' # NoJob => \A k \in DOMAIN outq' : ~IsEnd(k)'
      BY <2>2, <2>3, <2>4, <2>5, <2>6, <2>7, <2>8 DEF SessionInv, LineInv, IsLine, IsEnd
    <3>5. \A k \in Jobs : Outstanding(k)' => born'[k] = conn' /\ (current' = k \/ closed')
      BY <2>2, <2>3, <2>4, <2>5, <2>6, <2>7, <2>8 DEF SessionInv, LineInv, IsLine, IsEnd
    <3>6. \A i \in DOMAIN outq' : outq'[i].mark # "echo" => outq'[i].by = outq'[i].of /\ born'[outq'[i].of] # 0
      BY <2>2, <2>3, <2>4, <2>5, <2>6, <2>7, <2>8 DEF SessionInv, LineInv, IsLine, IsEnd
    <3>7. \A k \in Jobs : flight'[Line(k)] = "pending" /\ ~tclosed' =>
         (current' = k \/ closed') /\ \A m \in Jobs : ~Outstanding(m)'
      BY <2>2, <2>3, <2>4, <2>5, <2>6, <2>7, <2>8 DEF SessionInv, LineInv, IsLine, IsEnd
    <3> QED
      BY <3>1, <3>2, <3>3, <3>4, <3>5, <3>6, <3>7 DEF LineInv
  <2>9. CASE current' # current
    <3>1. IsEnd(1) /\ current \in Jobs /\ outq[1].of = current
      BY <1>20, <2>1, <2>9 DEF Consume, IsEnd, SessionInv, SessionTypes
    <3>2. Outstanding(current)
      BY <2>1, <3>1 DEF Outstanding
    <3>3. \A i : ~IsEnd(i)'
      BY <2>1, <2>2, <2>3, <3>1 DEF SessionInv, LineInv
    <3>4. run = NoJob /\ \A i : ~IsLine(i)
      BY <2>1, <3>1 DEF SessionInv, LineInv, IsLine
    <3>5. \A k \in Jobs : ~Outstanding(k)'
      BY <2>4, <2>5, <3>3, <3>4, Names DEF Outstanding
    <3>6. \A k \in Jobs : flight[Line(k)] = "pending" => tclosed
      BY <3>1, <3>2 DEF SessionInv, LineInv
    <3>7. \A i, k \in DOMAIN inq' : IsLine(i)' /\ IsLine(k)' => i = k
      BY <2>2, <2>4, <2>5, <3>3, <3>4, <3>5, <3>6 DEF SessionInv, LineInv, IsLine, IsEnd
    <3>8. \A i, k \in DOMAIN outq' : IsEnd(i)' /\ IsEnd(k)' => i = k
      BY <2>2, <2>4, <2>5, <3>3, <3>4, <3>5, <3>6 DEF SessionInv, LineInv, IsLine, IsEnd
    <3>9. \A i \in DOMAIN inq' : IsLine(i)' => run' = NoJob /\ \A k \in DOMAIN outq' : ~IsEnd(k)'
      BY <2>2, <2>4, <2>5, <3>3, <3>4, <3>5, <3>6 DEF SessionInv, LineInv, IsLine, IsEnd
    <3>10. run' # NoJob => \A k \in DOMAIN outq' : ~IsEnd(k)'
      BY <2>2, <2>4, <2>5, <3>3, <3>4, <3>5, <3>6 DEF SessionInv, LineInv, IsLine, IsEnd
    <3>11. \A k \in Jobs : Outstanding(k)' => born'[k] = conn' /\ (current' = k \/ closed')
      BY <2>2, <2>4, <2>5, <3>3, <3>4, <3>5, <3>6 DEF SessionInv, LineInv, IsLine, IsEnd
    <3>12. \A i \in DOMAIN outq' : outq'[i].mark # "echo" => outq'[i].by = outq'[i].of /\ born'[outq'[i].of] # 0
      BY <2>2, <2>4, <2>5, <3>3, <3>4, <3>5, <3>6 DEF SessionInv, LineInv, IsLine, IsEnd
    <3>13. \A k \in Jobs : flight'[Line(k)] = "pending" /\ ~tclosed' =>
         (current' = k \/ closed') /\ \A m \in Jobs : ~Outstanding(m)'
      BY <2>2, <2>4, <2>5, <3>3, <3>4, <3>5, <3>6 DEF SessionInv, LineInv, IsLine, IsEnd
    <3> QED
      BY <3>7, <3>8, <3>9, <3>10, <3>11, <3>12, <3>13 DEF LineInv
  <2> QED
    BY <2>8, <2>9
<1>21. ASSUME ReadEOF PROVE LineInv'
  <2>1. CASE ~(~closed /\ remote)
    <3>1. inq' = <<>> /\ outq' = <<>> /\ run' = NoJob /\ tclosed' = TRUE
      BY <1>21, <2>1 DEF ReadEOF, CloseTransport, HangUp
    <3> QED
      BY <3>1, EmptyQueue, Names DEF LineInv, IsLine, IsEnd, Outstanding
  <2>2. CASE ~(~(~closed /\ remote))
    BY <1>21, <2>2 DEF SessionInv, ReadEOF, LineInv, IsLine, IsEnd, Outstanding
  <2> QED
    BY <2>1, <2>2
<1>22. ASSUME RetryLock PROVE LineInv'
  <2>1. CASE closed
    <3>1. inq' = <<>> /\ outq' = <<>> /\ run' = NoJob /\ tclosed' = TRUE
      BY <1>22, <2>1 DEF RetryLock, CloseTransport, HangUp
    <3> QED
      BY <3>1, EmptyQueue, Names DEF LineInv, IsLine, IsEnd, Outstanding
  <2>2. CASE ~(closed)
    BY <1>22, <2>2 DEF SessionInv, RetryLock, LineInv, IsLine, IsEnd, Outstanding
  <2> QED
    BY <2>1, <2>2
<1>23. ASSUME ReconnectFails PROVE LineInv'
  <2>1. CASE ~(attempts' < MaxAttempts)
    <3>1. inq' = <<>> /\ outq' = <<>> /\ run' = NoJob /\ tclosed' = TRUE
      BY <1>23, <2>1 DEF ReconnectFails, CloseTransport, HangUp
    <3> QED
      BY <3>1, EmptyQueue, Names DEF LineInv, IsLine, IsEnd, Outstanding
  <2>2. CASE ~(~(attempts' < MaxAttempts))
    BY <1>23, <2>2 DEF SessionInv, ReconnectFails, LineInv, IsLine, IsEnd, Outstanding
  <2> QED
    BY <2>1, <2>2
<1>24. ASSUME Reconnect PROVE LineInv'
  <2>1. inq' = <<>> /\ outq' = <<>> /\ run' = NoJob /\ UNCHANGED <<current, closed, tclosed, flight>>
    BY <1>24 DEF Reconnect
  <2> QED
    BY <2>1, EmptyQueue, Names DEF SessionInv, LineInv, IsLine, IsEnd, Outstanding
<1>25. ASSUME Orphan PROVE LineInv'
  <2>1. CASE closed
    <3>1. inq' = <<>> /\ outq' = <<>> /\ run' = NoJob /\ tclosed' = TRUE
      BY <1>25, <2>1 DEF Orphan, CloseTransport, HangUp
    <3> QED
      BY <3>1, EmptyQueue, Names DEF LineInv, IsLine, IsEnd, Outstanding
  <2>2. CASE ~(closed)
    <3>1. inq = <<>> /\ outq = <<>> /\ run = NoJob /\ UNCHANGED <<inq, outq, run, tclosed, flight>>
      BY <1>25, <2>2 DEF SessionInv, Orphan, LinkInv
    <3>2. \A w \in Writers : flight[w] = "pending" => tclosed
      BY <1>25, Names DEF SessionInv, LinkInv, WriterInv, Orphan
    <3> QED
      BY <3>1, <3>2, EmptyQueue, Names DEF LineInv, IsLine, IsEnd, Outstanding
  <2> QED
    BY <2>1, <2>2
<1>26. ASSUME NotifyReset PROVE LineInv'
  BY <1>26 DEF SessionInv, NotifyReset, LineInv, IsLine, IsEnd, Outstanding
<1>27. ASSUME Restart PROVE LineInv'
  BY <1>27 DEF SessionInv, Restart, LineInv, IsLine, IsEnd, Outstanding
<1>28. ASSUME UNCHANGED vars PROVE LineInv'
  BY <1>28 DEF SessionInv, LineInv, IsLine, IsEnd, Outstanding
<1> QED
  BY <1>1, <1>2, <1>3, <1>4, <1>5, <1>6, <1>7, <1>8, <1>9, <1>10, <1>11,
     <1>12, <1>13, <1>14, <1>15, <1>16, <1>17, <1>18, <1>19, <1>20, <1>21,
     <1>22, <1>23, <1>24, <1>25, <1>26, <1>27, <1>28
     DEF Next, Callers, Flights, Creator, Shell, Reader

LEMMA InputNext ==
  ASSUME SessionInv, [Next]_vars
  PROVE  InputInv'
<1>1. ASSUME CreatorReady PROVE InputInv'
  BY <1>1 DEF SessionInv, CreatorReady, InputInv, InputStaysWithItsCommand, IsLine, IsEnd, Outstanding, Arrived
<1>2. ASSUME CreatorFails PROVE InputInv'
  <2>1. inq' = <<>> /\ tclosed' = TRUE /\ UNCHANGED <<taken, born>>
    BY <1>2 DEF CreatorFails, CloseTransport, HangUp
  <2> QED
    BY <2>1, EmptyQueue DEF SessionInv, InputInv, InputStaysWithItsCommand
<1>3. ASSUME Register PROVE InputInv'
  BY <1>3 DEF SessionInv, Register, InputInv, InputStaysWithItsCommand, IsLine, IsEnd, Outstanding, Arrived
<1>4. ASSUME Close PROVE InputInv'
  BY <1>4 DEF SessionInv, Close, InputInv, InputStaysWithItsCommand, IsLine, IsEnd, Outstanding, Arrived
<1>5. ASSUME CloseFinish PROVE InputInv'
  <2>1. inq' = <<>> /\ tclosed' = TRUE /\ UNCHANGED <<taken, born>>
    BY <1>5 DEF CloseFinish, CloseTransport, HangUp
  <2> QED
    BY <2>1, EmptyQueue DEF SessionInv, InputInv, InputStaysWithItsCommand
<1>6. ASSUME NEW j \in Jobs, Attach(j) PROVE InputInv'
  BY <1>6 DEF SessionInv, Attach, InputInv, InputStaysWithItsCommand, IsLine, IsEnd, Outstanding, Arrived
<1>7. ASSUME NEW j \in Answered, Answer(j) PROVE InputInv'
  BY <1>7 DEF SessionInv, Answer, InputInv, InputStaysWithItsCommand, IsLine, IsEnd, Outstanding, Arrived
<1>8. ASSUME NEW w \in Writers, WriteBegin(w) PROVE InputInv'
  <2>1. CASE closed \/ current # w.of
    <3>1. UNCHANGED <<inq, outq, run, conn, born, flight, tclosed, taken>>
      BY <1>8, <2>1 DEF WriteBegin
    <3>2. \A k \in Jobs : Outstanding(k)' <=> Outstanding(k)
      BY <3>1 DEF Outstanding, IsLine, IsEnd
    <3> QED
      BY <3>1, <3>2 DEF SessionInv, InputInv, InputStaysWithItsCommand, IsLine, Arrived
  <2>2. CASE ~(closed \/ current # w.of)
    <3>1. \A v \in Writers : v # w => flight'[v] = flight[v]
      BY <1>8, <2>2 DEF WriteBegin, SessionInv, SessionTypes, Writes
    <3>2. wpc[w] = "want" /\ writeMu = Free /\ flight[w] = "none" /\ current \in Jobs
      BY <1>8, <2>2, Names DEF WriteBegin, SessionInv, WriterInv
    <3>3. UNCHANGED <<inq, outq, run, conn, born, tclosed, closed, current, taken>>
      BY <1>8, <2>2 DEF WriteBegin
    <3>4. ASSUME NEW j \in Answered, w = Input(j)
          PROVE  born[j] = conn /\ \A k \in Jobs : Outstanding(k) => k = j
      <4>1. current = j /\ ~closed
        BY <2>2, <3>4, WriterNames
      <4>2. reader # "swapped" /\ born[j] # 0
        BY <3>2, <3>4, Names DEF SessionInv, LinkInv, CurrentInv
      <4> QED
        BY <3>2, <4>1, <4>2, Names DEF SessionInv, CurrentInv, LineInv
    <3>5. \A i \in DOMAIN inq : inq[i].kind = "input" => flight'[inq[i]] \in {"delivered", "ok"}
      BY <3>1, <3>2, QueueTypes DEF SessionInv, InputInv, Arrived
    <3>6. \A k \in Jobs : Outstanding(k)' <=> Outstanding(k)
      BY <3>3 DEF Outstanding, IsLine, IsEnd
    <3>7. \A j \in Answered : flight'[Input(j)] = "pending" /\ ~tclosed' =>
             born'[j] = conn' /\ \A k \in Jobs : Outstanding(k)' => k = j
      BY <3>1, <3>3, <3>4, <3>6, Names DEF SessionInv, InputInv
    <3> QED
      BY <3>3, <3>5, <3>7 DEF SessionInv, InputInv, InputStaysWithItsCommand, IsLine, Arrived
  <2> QED
    BY <2>1, <2>2
<1>9. ASSUME NEW w \in Writers, WriteDone(w) PROVE InputInv'
  BY <1>9 DEF SessionInv, WriteDone, InputInv, InputStaysWithItsCommand, IsLine, IsEnd, Outstanding, Arrived
<1>10. ASSUME NEW w \in Writers, WriteAbandon(w) PROVE InputInv'
  <2>1. inq' = <<>> /\ tclosed' = TRUE /\ UNCHANGED <<taken, born>>
    BY <1>10 DEF WriteAbandon, CloseTransport, HangUp
  <2> QED
    BY <2>1, EmptyQueue DEF SessionInv, InputInv, InputStaysWithItsCommand
<1>11. ASSUME NEW w \in Writers, FlightDeliver(w) PROVE InputInv'
  <2>1. flight[w] = "pending" /\ flight'[w] # "pending" /\ \A v \in Writers : v # w => flight'[v] = flight[v]
    BY <1>11 DEF FlightDeliver, SessionInv, SessionTypes, Writes
  <2>2. UNCHANGED <<outq, run, conn, tclosed, closed, current, taken>>
    BY <1>11 DEF FlightDeliver
  <2>3. CASE ~alive
    <3>1. inq = <<>> /\ UNCHANGED <<inq, born>>
      BY <1>11, <2>3 DEF FlightDeliver, SessionInv, LinkInv
    <3>2. \A k \in Jobs : Outstanding(k)' <=> Outstanding(k)
      BY <2>2, <3>1 DEF Outstanding, IsLine, IsEnd
    <3> QED
      BY <2>1, <2>2, <3>1, <3>2, EmptyQueue, Names DEF SessionInv, InputInv, InputStaysWithItsCommand
  <2>4. CASE alive
    <3>1. ~tclosed /\ inq' = Append(inq, w) /\ flight'[w] = "delivered"
      BY <1>11, <2>4 DEF FlightDeliver, SessionInv, SessionTypes, Writes, LinkInv
    <3>2. /\ \A i \in DOMAIN inq : i \in DOMAIN inq' /\ inq'[i] = inq[i] /\ i <= Len(inq) /\ i \in Nat
          /\ \A i \in DOMAIN inq' : i \in DOMAIN inq \/ (i = Len(inq) + 1 /\ inq'[i] = w)
          /\ Len(inq) \in Nat /\ Len(inq) + 1 \notin DOMAIN inq
      BY <3>1, AppendQueue DEF SessionInv, SessionTypes
    <3>3. \A j \in Answered : flight'[Input(j)] # "pending"
      BY <2>1, <3>1, SoleWrite, Names
    <3>4. \A i \in DOMAIN inq : inq[i].kind = "input" => flight[inq[i]] \in {"delivered", "ok"} /\ inq[i] # w
      BY <2>1 DEF SessionInv, InputInv, Arrived
    <3>5. \A i \in DOMAIN inq : inq[i].kind = "input" => flight'[inq[i]] \in {"delivered", "ok"}
      BY <2>1, <3>4, QueueTypes DEF SessionInv, Arrived
    <3>6. \A i, k \in DOMAIN inq : inq[i].kind = "input" /\ k < i /\ IsLine(k)' => inq[k].of = inq[i].of
      BY <3>2 DEF SessionInv, InputInv, IsLine
    <3>7. CASE w.kind = "input"
      <4>1. w.of \in Answered /\ w = Input(w.of)
        BY <3>7, Names, WriterNames
      <4>2. born' = born
        BY <1>11, <2>4, <3>7 DEF FlightDeliver
      <4>3. born[w.of] = conn /\ \A k \in Jobs : Outstanding(k) => k = w.of
        BY <2>1, <3>1, <4>1 DEF SessionInv, InputInv
      <4>4. run \in {w.of, NoJob}
        BY <4>3 DEF SessionInv, SessionTypes, Outstanding
      <4>5. \A k \in DOMAIN inq : IsLine(k)' => inq[k].of = w.of
        BY <3>2, <4>3, QueueTypes DEF SessionInv, IsLine, Outstanding
      <4>6. \A i \in DOMAIN inq' : inq'[i].kind = "input" =>
             flight'[inq'[i]] \in {"delivered", "ok"} /\ born'[inq'[i].of] = conn' /\ run' \in {inq'[i].of,
                NoJob}
        BY <2>2, <3>1, <3>2, <3>5, <4>2, <4>3, <4>4 DEF SessionInv, InputInv, Arrived
      <4>7. \A i \in DOMAIN inq' : inq'[i].kind = "input" =>
             \A k \in DOMAIN inq' : k < i /\ IsLine(k)' => inq'[k].of = inq'[i].of
        BY <3>2, <3>6, <4>5
      <4> QED
        BY <2>2, <3>3, <4>2, <4>6, <4>7 DEF SessionInv, InputInv, InputStaysWithItsCommand, Arrived
    <3>8. CASE w.kind = "line"
      <4>1. w.of \in Jobs /\ w = Line(w.of)
        BY <3>8, Names, WriterNames
      <4>2. born'[w.of] = conn /\ \A k \in Jobs : k # w.of => born'[k] = born[k]
        BY <1>11, <2>4, <3>8, <4>1 DEF FlightDeliver, SessionInv, SessionTypes, Births
      <4>3. born[w.of] = 0
        BY <2>1, <4>1 DEF SessionInv, WriterInv, Arrived
      <4>4. \A i \in DOMAIN inq' : inq'[i].kind = "input" => i \in DOMAIN inq /\ inq'[i] = inq[i]
        BY <3>2, <3>8
      <4>5. \A i \in DOMAIN inq' : inq'[i].kind = "input" =>
             flight'[inq'[i]] \in {"delivered", "ok"} /\ born'[inq'[i].of] = conn' /\ run' \in {inq'[i].of,
                NoJob}
        BY <2>2, <3>5, <4>2, <4>4, QueueTypes DEF SessionInv, InputInv
      <4>6. \A i \in DOMAIN inq' : inq'[i].kind = "input" =>
             \A k \in DOMAIN inq' : k < i /\ IsLine(k)' => inq'[k].of = inq'[i].of
        BY <3>2, <3>6, <4>4
      <4>7. \A t \in taken : t.of \in Jobs /\ born[t.of] # 0 /\ born'[t.of] = born[t.of]
        BY <4>2, <4>3 DEF SessionInv, InputInv
      <4> QED
        BY <2>2, <3>3, <4>5, <4>6, <4>7 DEF SessionInv, InputInv, InputStaysWithItsCommand, Arrived
    <3> QED
      BY <3>7, <3>8, Names, WriterNames
  <2> QED
    BY <2>3, <2>4
<1>12. ASSUME NEW w \in Writers, FlightReturn(w) PROVE InputInv'
  <2>1. /\ \A v \in Writers : flight'[v] = "pending" => flight[v] = "pending"
        /\ \A v \in Writers : flight[v] \in {"delivered", "ok"} => flight'[v] \in {"delivered", "ok"}
    BY <1>12 DEF FlightReturn, SessionInv, SessionTypes, Writes
  <2>2. UNCHANGED <<inq, outq, run, conn, born, tclosed, closed, current, taken>>
    BY <1>12 DEF FlightReturn
  <2>3. \A k \in Jobs : Outstanding(k)' <=> Outstanding(k)
    BY <2>2 DEF Outstanding, IsLine, IsEnd
  <2>4. \A i \in DOMAIN inq : inq[i].kind = "input" => Arrived(inq[i])'
    BY <2>1, <2>2, QueueTypes DEF SessionInv, InputInv, Arrived
  <2>5. \A j \in Answered : flight'[Input(j)] = "pending" => flight[Input(j)] = "pending"
    BY <2>1, Names
  <2> QED
    BY <2>2, <2>3, <2>4, <2>5 DEF SessionInv, InputInv, InputStaysWithItsCommand, IsLine, Arrived
<1>13. ASSUME NEW j \in Signallers, SignalCheck(j) PROVE InputInv'
  BY <1>13 DEF SessionInv, SignalCheck, InputInv, InputStaysWithItsCommand, IsLine, IsEnd, Outstanding, Arrived
<1>14. ASSUME NEW j \in Signallers, SignalDeliver(j) PROVE InputInv'
  BY <1>14 DEF SessionInv, SignalDeliver, InputInv, InputStaysWithItsCommand, IsLine, IsEnd, Outstanding,
     Arrived
<1>15. ASSUME ShellTake PROVE InputInv'
  <2>1. inq # <<>> /\ inq' = Tail(inq) /\ UNCHANGED <<born, flight, tclosed, conn>>
    BY <1>15 DEF ShellTake
  <2>2. \A k \in Jobs : Outstanding(k)' => Outstanding(k)
    BY <1>15, OutstandingShrinks
  <2>3. /\ 1 \in DOMAIN inq /\ Head(inq) = inq[1] /\ inq[1] \in Writers /\ inq[1].of \in Jobs
        /\ \A i \in DOMAIN inq' : i + 1 \in DOMAIN inq /\ inq'[i] = inq[i + 1] /\ i \in Nat /\ i >= 1
        /\ \A i : IsLine(i)' => i \in DOMAIN inq' /\ IsLine(i + 1) /\ inq'[i] = inq[i + 1]
    BY <2>1, TakenInput DEF SessionInv
  <2>4. \A t \in taken' : t \in taken \/ (t.of \in Jobs /\ born[t.of] # 0 /\ t.by \in {t.of,
     NoJob} /\ t.on = born[t.of])
    <3>1. CASE inq[1].kind = "line"
      BY <1>15, <2>3, <3>1 DEF ShellTake
    <3>2. CASE inq[1].kind # "line"
      <4>1. inq[1].kind = "input"
        BY <2>3, <3>2, Names, WriterNames
      <4>2. born[inq[1].of] = conn /\ conn # 0
        BY <2>3, <4>1, InitNames DEF SessionInv, SessionTypes, InputInv
      <4>3. taken' = taken \cup {[of |-> inq[1].of, by |-> NoJob, on |-> conn]}
        BY <1>15, <2>3, <3>2 DEF ShellTake
      <4> QED
        BY <2>3, <4>2, <4>3
    <3> QED
      BY <3>1, <3>2
  <2>5. \A i \in DOMAIN inq' : inq'[i].kind = "input" => run' \in {inq'[i].of, NoJob}
    <3>1. CASE inq[1].kind = "line"
      <4>1. IsLine(1) /\ run' = inq[1].of
        BY <1>15, <2>3, <3>1 DEF ShellTake, IsLine
      <4>2. \A i \in DOMAIN inq' : 1 < i + 1
        BY <2>3
      <4> QED
        BY <2>3, <4>1, <4>2 DEF SessionInv, InputInv
    <3>2. CASE inq[1].kind # "line"
      BY <1>15, <2>3, <3>2 DEF ShellTake
    <3> QED
      BY <3>1, <3>2
  <2>6. \A i \in DOMAIN inq' : inq'[i].kind = "input" =>
           \A k \in DOMAIN inq' : k < i /\ IsLine(k)' => inq'[k].of = inq'[i].of
    BY <2>3 DEF SessionInv, InputInv
  <2>7. \A i \in DOMAIN inq' : inq'[i].kind = "input" => flight'[inq'[i]] \in {"delivered",
     "ok"} /\ born'[inq'[i].of] = conn'
    BY <2>1, <2>3 DEF SessionInv, InputInv, Arrived
  <2>8. \A j \in Answered : flight'[Input(j)] = "pending" /\ ~tclosed' =>
           born'[j] = conn' /\ \A k \in Jobs : Outstanding(k)' => k = j
    BY <2>1, <2>2 DEF SessionInv, InputInv
  <2>9. \A t \in taken' : t.of \in Jobs /\ born'[t.of] # 0 /\ t.by \in {t.of, NoJob} /\ t.on = born'[t.of]
    BY <2>1, <2>4 DEF SessionInv, InputInv, InputStaysWithItsCommand
  <2> QED
    BY <2>5, <2>6, <2>7, <2>8, <2>9 DEF InputInv, InputStaysWithItsCommand, Arrived
<1>16. ASSUME ShellRead PROVE InputInv'
  <2>1. inq # <<>> /\ inq' = Tail(inq) /\ UNCHANGED <<born, flight, tclosed, conn>>
    BY <1>16 DEF ShellRead
  <2>2. \A k \in Jobs : Outstanding(k)' => Outstanding(k)
    BY <1>16, OutstandingShrinks
  <2>3. /\ 1 \in DOMAIN inq /\ Head(inq) = inq[1] /\ inq[1] \in Writers /\ inq[1].of \in Jobs
        /\ \A i \in DOMAIN inq' : i + 1 \in DOMAIN inq /\ inq'[i] = inq[i + 1] /\ i \in Nat /\ i >= 1
        /\ \A i : IsLine(i)' => i \in DOMAIN inq' /\ IsLine(i + 1) /\ inq'[i] = inq[i + 1]
    BY <2>1, TakenInput DEF SessionInv
  <2>4. \A t \in taken' : t \in taken \/ (t.of \in Jobs /\ born[t.of] # 0 /\ t.by \in {t.of,
     NoJob} /\ t.on = born[t.of])
    <3>1. inq[1].kind = "input"
      BY <1>16, <2>3, Names, WriterNames DEF ShellRead, SessionInv, LineInv, IsLine
    <3>2. born[inq[1].of] = conn /\ run \in {inq[1].of, NoJob} /\ conn # 0
      BY <2>3, <3>1, InitNames DEF SessionInv, SessionTypes, InputInv
    <3>3. taken' = taken \cup {[of |-> inq[1].of, by |-> run, on |-> conn]}
      BY <1>16, <2>3 DEF ShellRead
    <3> QED
      BY <2>3, <3>2, <3>3
  <2>5. \A i \in DOMAIN inq' : inq'[i].kind = "input" => run' \in {inq'[i].of, NoJob}
    BY <1>16, <2>3 DEF ShellRead, SessionInv, InputInv
  <2>6. \A i \in DOMAIN inq' : inq'[i].kind = "input" =>
           \A k \in DOMAIN inq' : k < i /\ IsLine(k)' => inq'[k].of = inq'[i].of
    BY <2>3 DEF SessionInv, InputInv
  <2>7. \A i \in DOMAIN inq' : inq'[i].kind = "input" => flight'[inq'[i]] \in {"delivered",
     "ok"} /\ born'[inq'[i].of] = conn'
    BY <2>1, <2>3 DEF SessionInv, InputInv, Arrived
  <2>8. \A j \in Answered : flight'[Input(j)] = "pending" /\ ~tclosed' =>
           born'[j] = conn' /\ \A k \in Jobs : Outstanding(k)' => k = j
    BY <2>1, <2>2 DEF SessionInv, InputInv
  <2>9. \A t \in taken' : t.of \in Jobs /\ born'[t.of] # 0 /\ t.by \in {t.of, NoJob} /\ t.on = born'[t.of]
    BY <2>1, <2>4 DEF SessionInv, InputInv, InputStaysWithItsCommand
  <2> QED
    BY <2>5, <2>6, <2>7, <2>8, <2>9 DEF InputInv, InputStaysWithItsCommand, Arrived
<1>17. ASSUME ShellPrompt PROVE InputInv'
  <2>1. inq' = inq /\ run' \in {run, NoJob} /\ UNCHANGED <<taken, born, flight, tclosed, conn>>
    BY <1>17 DEF ShellPrompt
  <2>2. \A k \in Jobs : Outstanding(k)' => Outstanding(k)
    BY <1>17, OutstandingShrinks
  <2> QED
    BY <2>1, <2>2 DEF SessionInv, InputInv, InputStaysWithItsCommand, IsLine, Arrived
<1>18. ASSUME ShellFinish PROVE InputInv'
  <2>1. inq' = inq /\ run' \in {run, NoJob} /\ UNCHANGED <<taken, born, flight, tclosed, conn>>
    BY <1>18 DEF ShellFinish
  <2>2. \A k \in Jobs : Outstanding(k)' => Outstanding(k)
    BY <1>18, OutstandingShrinks
  <2> QED
    BY <2>1, <2>2 DEF SessionInv, InputInv, InputStaysWithItsCommand, IsLine, Arrived
<1>19. ASSUME Drop PROVE InputInv'
  <2>1. inq' = <<>> /\ run' = NoJob /\ UNCHANGED <<taken, born, flight, tclosed, conn, outq>>
    BY <1>19 DEF Drop, HangUp
  <2>2. \A k \in Jobs : Outstanding(k)' => Outstanding(k)
    BY <2>1, EmptyQueue, Names DEF Outstanding, IsEnd
  <2> QED
    BY <2>1, <2>2, EmptyQueue DEF SessionInv, InputInv, InputStaysWithItsCommand
<1>20. ASSUME Consume PROVE InputInv'
  <2>1. inq' = inq /\ run' \in {run, NoJob} /\ UNCHANGED <<taken, born, flight, tclosed, conn>>
    BY <1>20 DEF Consume
  <2>2. \A k \in Jobs : Outstanding(k)' => Outstanding(k)
    BY <1>20, OutstandingShrinks
  <2> QED
    BY <2>1, <2>2 DEF SessionInv, InputInv, InputStaysWithItsCommand, IsLine, Arrived
<1>21. ASSUME ReadEOF PROVE InputInv'
  <2>1. CASE ~(~closed /\ remote)
    <3>1. inq' = <<>> /\ tclosed' = TRUE /\ UNCHANGED <<taken, born>>
      BY <1>21, <2>1 DEF ReadEOF, CloseTransport, HangUp
    <3> QED
      BY <3>1, EmptyQueue DEF SessionInv, InputInv, InputStaysWithItsCommand
  <2>2. CASE ~(~(~closed /\ remote))
    BY <1>21, <2>2 DEF SessionInv, ReadEOF, InputInv, InputStaysWithItsCommand, IsLine, IsEnd, Outstanding,
       Arrived
  <2> QED
    BY <2>1, <2>2
<1>22. ASSUME RetryLock PROVE InputInv'
  <2>1. CASE closed
    <3>1. inq' = <<>> /\ tclosed' = TRUE /\ UNCHANGED <<taken, born>>
      BY <1>22, <2>1 DEF RetryLock, CloseTransport, HangUp
    <3> QED
      BY <3>1, EmptyQueue DEF SessionInv, InputInv, InputStaysWithItsCommand
  <2>2. CASE ~(closed)
    BY <1>22, <2>2 DEF SessionInv, RetryLock, InputInv, InputStaysWithItsCommand, IsLine, IsEnd, Outstanding,
       Arrived
  <2> QED
    BY <2>1, <2>2
<1>23. ASSUME ReconnectFails PROVE InputInv'
  <2>1. CASE ~(attempts' < MaxAttempts)
    <3>1. inq' = <<>> /\ tclosed' = TRUE /\ UNCHANGED <<taken, born>>
      BY <1>23, <2>1 DEF ReconnectFails, CloseTransport, HangUp
    <3> QED
      BY <3>1, EmptyQueue DEF SessionInv, InputInv, InputStaysWithItsCommand
  <2>2. CASE ~(~(attempts' < MaxAttempts))
    BY <1>23, <2>2 DEF SessionInv, ReconnectFails, InputInv, InputStaysWithItsCommand, IsLine, IsEnd,
       Outstanding, Arrived
  <2> QED
    BY <2>1, <2>2
<1>24. ASSUME Reconnect PROVE InputInv'
  <2>1. inq' = <<>> /\ UNCHANGED <<taken, born, flight, tclosed>>
    BY <1>24 DEF Reconnect
  <2>2. \A j \in Answered : flight[Input(j)] = "pending" => tclosed
    BY <1>24, SoleWrite, Names DEF Reconnect
  <2> QED
    BY <2>1, <2>2, EmptyQueue DEF SessionInv, InputInv, InputStaysWithItsCommand
<1>25. ASSUME Orphan PROVE InputInv'
  <2>1. CASE closed
    <3>1. inq' = <<>> /\ tclosed' = TRUE /\ UNCHANGED <<taken, born>>
      BY <1>25, <2>1 DEF Orphan, CloseTransport, HangUp
    <3> QED
      BY <3>1, EmptyQueue DEF SessionInv, InputInv, InputStaysWithItsCommand
  <2>2. CASE ~(closed)
    BY <1>25, <2>2 DEF SessionInv, Orphan, InputInv, InputStaysWithItsCommand, IsLine, IsEnd, Outstanding,
       Arrived
  <2> QED
    BY <2>1, <2>2
<1>26. ASSUME NotifyReset PROVE InputInv'
  BY <1>26 DEF SessionInv, NotifyReset, InputInv, InputStaysWithItsCommand, IsLine, IsEnd, Outstanding, Arrived
<1>27. ASSUME Restart PROVE InputInv'
  BY <1>27 DEF SessionInv, Restart, InputInv, InputStaysWithItsCommand, IsLine, IsEnd, Outstanding, Arrived
<1>28. ASSUME UNCHANGED vars PROVE InputInv'
  BY <1>28 DEF SessionInv, InputInv, InputStaysWithItsCommand, IsLine, IsEnd, Outstanding, Arrived
<1> QED
  BY <1>1, <1>2, <1>3, <1>4, <1>5, <1>6, <1>7, <1>8, <1>9, <1>10, <1>11,
     <1>12, <1>13, <1>14, <1>15, <1>16, <1>17, <1>18, <1>19, <1>20, <1>21,
     <1>22, <1>23, <1>24, <1>25, <1>26, <1>27, <1>28
     DEF Next, Callers, Flights, Creator, Shell, Reader

LEMMA OutputNext ==
  ASSUME SessionInv, [Next]_vars
  PROVE  OutputInv'
<1>1. ASSUME CreatorReady PROVE OutputInv'
  BY <1>1, OutputStays DEF SessionInv, CreatorReady
<1>2. ASSUME CreatorFails PROVE OutputInv'
  BY <1>2, OutputEmpty DEF SessionInv, CreatorFails, CloseTransport, HangUp
<1>3. ASSUME Register PROVE OutputInv'
  BY <1>3, OutputStays DEF SessionInv, Register
<1>4. ASSUME Close PROVE OutputInv'
  <2>1. started' = FALSE /\ UNCHANGED <<outq, shown, run, alive, reader>>
    BY <1>4, TerminateEffect DEF SessionInv, Close
  <2> QED
    BY <2>1, OutputStays DEF SessionInv
<1>5. ASSUME CloseFinish PROVE OutputInv'
  BY <1>5, OutputEmpty DEF SessionInv, CloseFinish, CloseTransport, HangUp
<1>6. ASSUME NEW j \in Jobs, Attach(j) PROVE OutputInv'
  <2>1. (started' => started /\ current' = current) /\ UNCHANGED <<outq, shown, run, alive, reader>>
    BY <1>6 DEF Attach
  <2> QED
    BY <2>1, OutputStays DEF SessionInv
<1>7. ASSUME NEW j \in Answered, Answer(j) PROVE OutputInv'
  BY <1>7, OutputStays DEF SessionInv, Answer
<1>8. ASSUME NEW w \in Writers, WriteBegin(w) PROVE OutputInv'
  <2>1. UNCHANGED <<outq, shown, run, alive, reader>>
    BY <1>8 DEF WriteBegin
  <2>2. CASE closed \/ current # w.of
    <3>1. Settle(w, FALSE)
      BY <1>8, <2>2 DEF WriteBegin
    <3>2. started' => started /\ current' = current
      BY <3>1, SettleCurrent DEF SessionInv
    <3> QED
      BY <2>1, <3>2, OutputStays DEF SessionInv
  <2>3. CASE ~(closed \/ current # w.of)
    <3>1. UNCHANGED <<started, current>>
      BY <1>8, <2>3 DEF WriteBegin
    <3> QED
      BY <2>1, <3>1, OutputStays DEF SessionInv
  <2> QED
    BY <2>2, <2>3
<1>9. ASSUME NEW w \in Writers, WriteDone(w) PROVE OutputInv'
  <2>1. UNCHANGED <<outq, shown, run, alive, reader>>
    BY <1>9 DEF WriteDone
  <2>2. PICK good \in BOOLEAN : Settle(w, good)
    BY <1>9 DEF WriteDone, SessionInv, SessionTypes
  <2>3. started' => started /\ current' = current
    BY <2>2, SettleCurrent DEF SessionInv
  <2> QED
    BY <2>1, <2>3, OutputStays DEF SessionInv
<1>10. ASSUME NEW w \in Writers, WriteAbandon(w) PROVE OutputInv'
  BY <1>10, OutputEmpty DEF SessionInv, WriteAbandon, CloseTransport, HangUp
<1>11. ASSUME NEW w \in Writers, FlightDeliver(w) PROVE OutputInv'
  BY <1>11, OutputStays DEF SessionInv, FlightDeliver
<1>12. ASSUME NEW w \in Writers, FlightReturn(w) PROVE OutputInv'
  BY <1>12, OutputStays DEF SessionInv, FlightReturn
<1>13. ASSUME NEW j \in Signallers, SignalCheck(j) PROVE OutputInv'
  BY <1>13, OutputStays DEF SessionInv, SignalCheck
<1>14. ASSUME NEW j \in Signallers, SignalDeliver(j) PROVE OutputInv'
  BY <1>14, OutputStays DEF SessionInv, SignalDeliver
<1>15. ASSUME ShellTake PROVE OutputInv'
  <2>1. PICK t \in Tokens :
           /\ outq' = Append(outq, t)
           /\ run = NoJob
           /\ t.mark = "begin" => t.by = t.of /\ run' = t.of
    BY <1>15, ShellToken DEF SessionInv
  <2>2. alive /\ inq # <<>> /\ UNCHANGED <<alive, reader, shown, started, current>>
    BY <1>15, Names DEF ShellTake
  <2>3. reader # "swapped"
    BY <2>2 DEF SessionInv, LinkInv
  <2> QED
    BY <2>1, <2>2, <2>3, OutputGrows
<1>16. ASSUME ShellRead PROVE OutputInv'
  <2>1. PICK t \in Tokens :
           /\ outq' = Append(outq, t)
           /\ t.mark = "echo" /\ run' = run /\ t.by = run
    BY <1>16, ShellToken DEF SessionInv
  <2>2. alive /\ run # NoJob /\ UNCHANGED <<alive, reader, shown, started, current>>
    BY <1>16, Names DEF ShellRead
  <2>3. reader # "swapped"
    BY <2>2 DEF SessionInv, LinkInv
  <2> QED
    BY <2>1, <2>2, <2>3, OutputGrows
<1>17. ASSUME ShellPrompt PROVE OutputInv'
  <2>1. PICK t \in Tokens :
           /\ outq' = Append(outq, t)
           /\ t.mark = "prompt" /\ run' = run /\ t.by = run
    BY <1>17, ShellToken DEF SessionInv
  <2>2. alive /\ run # NoJob /\ UNCHANGED <<alive, reader, shown, started, current>>
    BY <1>17, Names DEF ShellPrompt
  <2>3. reader # "swapped"
    BY <2>2 DEF SessionInv, LinkInv
  <2> QED
    BY <2>1, <2>2, <2>3, OutputGrows
<1>18. ASSUME ShellFinish PROVE OutputInv'
  <2>1. PICK t \in Tokens :
           /\ outq' = Append(outq, t)
           /\ t.mark = "end" /\ t.of = run /\ t.by = run
    BY <1>18, ShellToken DEF SessionInv
  <2>2. alive /\ run # NoJob /\ UNCHANGED <<alive, reader, shown, started, current>>
    BY <1>18, Names DEF ShellFinish
  <2>3. reader # "swapped"
    BY <2>2 DEF SessionInv, LinkInv
  <2> QED
    BY <2>1, <2>2, <2>3, OutputGrows
<1>19. ASSUME Drop PROVE OutputInv'
  <2>1. ~alive' /\ UNCHANGED <<outq, shown, reader, started, current>>
    BY <1>19 DEF Drop, HangUp
  <2> QED
    BY <2>1, OutputStays DEF SessionInv
<1>20. ASSUME Consume PROVE OutputInv'
  <2>1. outq # <<>> /\ outq' = Tail(outq) /\ UNCHANGED <<run,
     alive>> /\ Head(outq) = outq[1] /\ 1 \in DOMAIN outq
    BY <1>20, TailQueue DEF Consume, SessionInv, SessionTypes
  <2>2. reader' = reader
    BY <1>20 DEF Consume
  <2>3. \A b \in DOMAIN outq' : b \in Nat /\ b >= 1 /\ b + 1 \in DOMAIN outq /\ b + 1 \in Nat /\ outq'[b] =
     outq[b + 1]
    BY <2>1, TailQueue DEF SessionInv, SessionTypes
  <2>4. ASSUME NEW b, NEW c, b \in DOMAIN outq', outq'[b].mark = "begin", outq'[b].of = c PROVE Bracket(c, b)'
    <3>1. PICK from \in Nat : from = b + 1 /\ b \in Nat /\ b >= 1
      BY <2>3, <2>4
    <3>2. Bracket(c, from)
      BY <2>3, <2>4, <3>1 DEF SessionInv, OutputInv
    <3> QED
      BY <2>1, <2>2, <3>1, <3>2, BracketTail DEF SessionInv
  <2>5. ASSUME NEW c, started', current' = c PROVE Bracket(c, 1)'
    <3>1. Bracket(c, 1) /\ ~(outq[1].mark = "end" /\ outq[1].of = c)
      <4>1. CASE started
        <5>1. current # NoJob /\ Bracket(current, 1)
          BY <4>1 DEF SessionInv, CurrentInv, OutputInv
        <5>2. current = c /\ ~(outq[1].mark = "end" /\ outq[1].of = current)
          BY <1>20, <2>1, <2>5, <4>1, <5>1 DEF Consume
        <5> QED
          BY <5>1, <5>2
      <4>2. CASE ~started
        <5>1. current = c /\ outq[1].of = c /\ outq[1].mark = "begin"
          BY <1>20, <2>1, <2>5, <4>2 DEF Consume
        <5> QED
          BY <2>1, <5>1 DEF SessionInv, OutputInv
      <4> QED
        BY <4>1, <4>2
    <3> QED
      BY <2>1, <2>2, <3>1, BracketTail DEF SessionInv
  <2>6. \A s \in shown' : s.by = s.on
    <3>1. started => outq[1].by = current
      <4>1. started => Bracket(current, 1)
        BY DEF SessionInv, OutputInv
      <4>2. ~EndsIn(current, 1, 1)
        BY TailQueue DEF EndsIn, SessionInv, SessionTypes
      <4> QED
        BY <2>1, <4>1, <4>2 DEF Bracket
    <3> QED
      BY <1>20, <2>1, <3>1, ConsumeShows DEF SessionInv, OutputInv, OutputIsItsOwn
  <2> QED
    BY <2>4, <2>5, <2>6, OutputParts
<1>21. ASSUME ReadEOF PROVE OutputInv'
  <2>1. CASE ~(~closed /\ remote)
    <3>1. outq' = <<>> /\ alive' = FALSE /\ shown' = shown
      BY <1>21, <2>1 DEF ReadEOF, CloseTransport, HangUp
    <3> QED
      BY <3>1, OutputEmpty DEF SessionInv
  <2>2. CASE ~(~(~closed /\ remote))
    <3>1. UNCHANGED <<outq, shown, run, alive, current, started>> /\ reader # "swapped"
      BY <1>21, <2>2 DEF ReadEOF
    <3> QED
      BY <3>1, OutputStays DEF SessionInv
  <2> QED
    BY <2>1, <2>2
<1>22. ASSUME RetryLock PROVE OutputInv'
  <2>1. CASE closed
    <3>1. outq' = <<>> /\ alive' = FALSE /\ shown' = shown
      BY <1>22, <2>1 DEF RetryLock, CloseTransport, HangUp
    <3> QED
      BY <3>1, OutputEmpty DEF SessionInv
  <2>2. CASE ~(closed)
    <3>1. UNCHANGED <<outq, shown, run, alive, current, started>> /\ reader # "swapped"
      BY <1>22, <2>2 DEF RetryLock
    <3> QED
      BY <3>1, OutputStays DEF SessionInv
  <2> QED
    BY <2>1, <2>2
<1>23. ASSUME ReconnectFails PROVE OutputInv'
  <2>1. CASE ~(attempts' < MaxAttempts)
    <3>1. outq' = <<>> /\ alive' = FALSE /\ shown' = shown
      BY <1>23, <2>1 DEF ReconnectFails, CloseTransport, HangUp
    <3> QED
      BY <3>1, OutputEmpty DEF SessionInv
  <2>2. CASE ~(~(attempts' < MaxAttempts))
    <3>1. UNCHANGED <<outq, shown, run, alive, current, started>> /\ reader # "swapped"
      BY <1>23, <2>2 DEF ReconnectFails
    <3> QED
      BY <3>1, OutputStays DEF SessionInv
  <2> QED
    BY <2>1, <2>2
<1>24. ASSUME Reconnect PROVE OutputInv'
  BY <1>24, OutputEmpty DEF SessionInv, Reconnect
<1>25. ASSUME Orphan PROVE OutputInv'
  <2>1. CASE closed
    <3>1. outq' = <<>> /\ alive' = FALSE /\ shown' = shown
      BY <1>25, <2>1 DEF Orphan, CloseTransport, HangUp
    <3> QED
      BY <3>1, OutputEmpty DEF SessionInv
  <2>2. CASE ~(closed)
    <3>1. outq' = <<>> /\ started' = FALSE /\ shown' = shown
      BY <1>25, <2>2 DEF Orphan, SessionInv, LinkInv
    <3>2. \A b : b \notin DOMAIN outq'
      BY <3>1, EmptyQueue
    <3> QED
      BY <3>1, <3>2, OutputParts DEF SessionInv, OutputInv, OutputIsItsOwn
  <2> QED
    BY <2>1, <2>2
<1>26. ASSUME NotifyReset PROVE OutputInv'
  BY <1>26, OutputStays DEF SessionInv, NotifyReset
<1>27. ASSUME Restart PROVE OutputInv'
  BY <1>27, OutputStays DEF SessionInv, Restart
<1>28. ASSUME UNCHANGED vars PROVE OutputInv'
  BY <1>28 DEF SessionInv, OutputInv, OutputIsItsOwn, Bracket, EndsIn
<1> QED
  BY <1>1, <1>2, <1>3, <1>4, <1>5, <1>6, <1>7, <1>8, <1>9, <1>10, <1>11,
     <1>12, <1>13, <1>14, <1>15, <1>16, <1>17, <1>18, <1>19, <1>20, <1>21,
     <1>22, <1>23, <1>24, <1>25, <1>26, <1>27, <1>28
     DEF Next, Callers, Flights, Creator, Shell, Reader

\* The call of w settles.
LEMMA SecretSettles ==
  ASSUME SessionInv, NEW w \in Writers, NEW good \in BOOLEAN, Settle(w, good), wpc[w] # "failed",
         UNCHANGED <<flight, shown>>, outq' \in {outq, <<>>}
  PROVE  SecretInv'
<1>1. wpc'[w] = (IF good THEN "ok" ELSE "failed") /\ \A v \in Writers : v # w => wpc'[v] = wpc[v]
  BY SettleCurrent DEF SessionInv
<1>2. CASE w.kind = "line"
  <2>1. job' = job \/ job' = Finalized(w.of, "failed")
    BY <1>2 DEF Settle
  <2>2. w.of \in Jobs \cup {NoJob} /\ "failed" \in Over
    BY Names DEF Over
  <2>3. \A k \in Answered :
           /\ job[k].secret = "writer" => job'[k].secret = "writer"
           /\ job[k].secret = "job" \/ job[k].status \in Over => job'[k].secret = "job" \/ job'[k].status \in
              Over
    BY <2>1, <2>2, SecretKept
  <2> QED
    BY <1>1, <1>2, <2>3, SecretCall
<1>3. CASE w.kind # "line"
  <2>1. job' = [job EXCEPT ![w.of].secret = IF good /\ job[w.of].status \notin Over THEN "job" ELSE "none"]
    BY <1>3 DEF Settle
  <2>2. w.of \in Jobs /\ w = Input(w.of)
    BY <1>3, Names, WriterNames
  <2>3. \A k \in Answered : w # Input(k) => job'[k] = job[k]
    BY <2>1, <2>2, Names DEF SessionInv, SessionTypes, JobStates
  <2>4. good => job'[w.of].secret = "job" \/ job'[w.of].status \in Over
    BY <2>1, <2>2 DEF SessionInv, SessionTypes, JobStates
  <2>5. wpc'[w] \notin {"want", "writing"} /\ (wpc'[w] = "ok" => good)
    BY <1>1
  <2> QED
    BY <1>1, <2>3, <2>4, <2>5, SecretCall
<1> QED
  BY <1>2, <1>3

LEMMA SecretNext ==
  ASSUME SessionInv, [Next]_vars
  PROVE  SecretInv'
<1>1. ASSUME CreatorReady PROVE SecretInv'
  BY <1>1, SecretStays DEF CreatorReady
<1>2. ASSUME CreatorFails PROVE SecretInv'
  <2>1. \E status \in Over : Terminate(status)
    BY <1>2 DEF CreatorFails, Over
  <2>2. UNCHANGED <<wpc, flight, shown>> /\ outq' \in {outq, <<>>}
    BY <1>2 DEF CreatorFails, CloseTransport
  <2> QED
    BY <2>1, <2>2, TerminateEffect, SecretStays DEF SessionInv, SessionTypes
<1>3. ASSUME Register PROVE SecretInv'
  <2>1. \A w \in Writers : wpc'[w] # wpc[w] => wpc[w] = "off" /\ wpc'[w] = "due"
    BY <1>3, Names DEF SessionInv, SessionTypes, Calls, WriterInv, Register
  <2>2. UNCHANGED <<job, flight, outq, shown>>
    BY <1>3 DEF Register
  <2> QED
    BY <2>1, <2>2, Names DEF SessionInv, SecretInv, Arrived
<1>4. ASSUME Close PROVE SecretInv'
  <2>1. \E status \in Over : Terminate(status)
    BY <1>4 DEF Close, Over
  <2>2. UNCHANGED <<wpc, flight, shown>> /\ outq' \in {outq, <<>>}
    BY <1>4 DEF Close
  <2> QED
    BY <2>1, <2>2, TerminateEffect, SecretStays DEF SessionInv, SessionTypes
<1>5. ASSUME CloseFinish PROVE SecretInv'
  BY <1>5, SecretStays DEF CloseFinish, CloseTransport
<1>6. ASSUME NEW j \in Jobs, Attach(j) PROVE SecretInv'
  <2>1. Line(j) \in Writers /\ Line(j).kind = "line" /\ wpc[Line(j)] = "due" /\ j \in Jobs \cup {NoJob}
    BY <1>6, Names, WriterNames DEF Attach
  <2>2. \A v \in Writers : v # Line(j) => wpc'[v] = wpc[v]
    BY <1>6 DEF SessionInv, SessionTypes, Calls, Attach
  <2>3. UNCHANGED <<flight, shown, outq>>
    BY <1>6 DEF Attach
  <2>4. CASE closed \/ current # NoJob
    <3>1. job' = Finalized(j, "failed") /\ "failed" \in Over
      BY <1>6, <2>4 DEF Attach, Over
    <3> QED
      BY <2>1, <2>2, <2>3, <3>1, SecretKept, SecretCall
  <2>5. CASE ~(closed \/ current # NoJob)
    <3>1. job' = [job EXCEPT ![j].status = "running"]
      BY <1>6, <2>5 DEF Attach
    <3>2. \A k \in Answered : job'[k].secret = job[k].secret /\ (k # j => job'[k] = job[k])
      BY <3>1, Names DEF SessionInv, SessionTypes, JobStates
    <3>3. j \in Answered => wpc'[Input(j)] \in {"off", "due"}
      <4>1. born[j] = 0
        BY <2>1 DEF SessionInv, WriterInv, Arrived
      <4> QED
        BY <2>2, <4>1, Names, WriterNames DEF SessionInv, CurrentInv
    <3>4. \A k \in Answered : wpc'[Input(k)] = wpc[Input(k)]
      BY <2>2, Names, WriterNames
    <3> QED
      BY <2>3, <3>2, <3>3, <3>4 DEF SessionInv, SecretInv, Arrived
  <2> QED
    BY <2>4, <2>5
<1>7. ASSUME NEW j \in Answered, Answer(j) PROVE SecretInv'
  <2>1. Input(j) \in Writers /\ Input(j).kind = "input" /\ Input(j).of = j /\ wpc[Input(j)] = "due" /\ j \in
     Jobs
    BY <1>7, Names, WriterNames DEF Answer
  <2>2. wpc'[Input(j)] = "want" /\ \A v \in Writers : v # Input(j) => wpc'[v] = wpc[v]
    BY <1>7, <2>1 DEF SessionInv, SessionTypes, Calls, Answer
  <2>3. UNCHANGED <<flight, shown, outq>>
    BY <1>7 DEF Answer
  <2>4. job'[j].secret = "writer" /\ \A k \in Answered : k # j => job'[k] = job[k]
    BY <1>7, <2>1, Names DEF SessionInv, SessionTypes, JobStates, Answer
  <2> QED
    BY <2>1, <2>2, <2>3, <2>4, SecretCall
<1>8. ASSUME NEW w \in Writers, WriteBegin(w) PROVE SecretInv'
  <2>1. wpc[w] = "want"
    BY <1>8 DEF WriteBegin
  <2>2. CASE closed \/ current # w.of
    BY <1>8, <2>1, <2>2, SecretSettles DEF WriteBegin
  <2>3. CASE ~(closed \/ current # w.of)
    <3>1. wpc'[w] = "writing" /\ \A v \in Writers : v # w => wpc'[v] = wpc[v]
      BY <1>8, <2>3 DEF WriteBegin, SessionInv, SessionTypes, Calls
    <3>2. flight[w] = "none" /\ \A v \in Writers : v # w => flight'[v] = flight[v]
      BY <1>8, <2>1, <2>3 DEF WriteBegin, SessionInv, SessionTypes, WriterInv, Writes
    <3>3. UNCHANGED <<job, outq, shown>>
      BY <1>8, <2>3 DEF WriteBegin
    <3> QED
      BY <2>1, <3>1, <3>2, <3>3, Names, WriterNames DEF SessionInv, SecretInv, Arrived
  <2> QED
    BY <2>2, <2>3
<1>9. ASSUME NEW w \in Writers, WriteDone(w) PROVE SecretInv'
  <2>1. PICK good \in BOOLEAN : Settle(w, good)
    BY <1>9 DEF WriteDone, SessionInv, SessionTypes
  <2>2. wpc[w] = "writing" /\ UNCHANGED <<flight, shown, outq>>
    BY <1>9 DEF WriteDone
  <2> QED
    BY <2>1, <2>2, SecretSettles
<1>10. ASSUME NEW w \in Writers, WriteAbandon(w) PROVE SecretInv'
  <2>1. Settle(w, FALSE) /\ wpc[w] = "writing" /\ UNCHANGED <<flight, shown>> /\ outq' = <<>>
    BY <1>10 DEF WriteAbandon, CloseTransport
  <2> QED
    BY <2>1, SecretSettles
<1>11. ASSUME NEW w \in Writers, FlightDeliver(w) PROVE SecretInv'
  <2>1. \A v \in Writers : flight[v] \in {"delivered", "ok"} => flight'[v] \in {"delivered", "ok"}
    BY <1>11 DEF FlightDeliver, SessionInv, SessionTypes, Writes
  <2>2. UNCHANGED <<wpc, job, outq, shown>>
    BY <1>11 DEF FlightDeliver
  <2> QED
    BY <2>1, <2>2, Names DEF SessionInv, SecretInv, Arrived
<1>12. ASSUME NEW w \in Writers, FlightReturn(w) PROVE SecretInv'
  <2>1. \A v \in Writers : flight[v] \in {"delivered", "ok"} => flight'[v] \in {"delivered", "ok"}
    BY <1>12 DEF FlightReturn, SessionInv, SessionTypes, Writes
  <2>2. UNCHANGED <<wpc, job, outq, shown>>
    BY <1>12 DEF FlightReturn
  <2> QED
    BY <2>1, <2>2, Names DEF SessionInv, SecretInv, Arrived
<1>13. ASSUME NEW j \in Signallers, SignalCheck(j) PROVE SecretInv'
  <2>1. \A k \in Jobs : job'[k].secret = job[k].secret /\ job'[k].status = job[k].status
    BY <1>13 DEF SessionInv, SessionTypes, JobStates, SignalCheck
  <2>2. UNCHANGED <<wpc, flight, outq, shown>>
    BY <1>13 DEF SignalCheck
  <2> QED
    BY <2>1, <2>2, Names DEF SessionInv, SecretInv, Arrived
<1>14. ASSUME NEW j \in Signallers, SignalDeliver(j) PROVE SecretInv'
  BY <1>14, SecretStays DEF SignalDeliver
<1>15. ASSUME ShellTake PROVE SecretInv'
  <2>1. PICK t \in Tokens :
           /\ outq' = Append(outq, t) /\ inq # <<>> /\ t.of = Head(inq).of
           /\ Head(inq).kind = "line" => t.mark = "begin"
           /\ Head(inq).kind # "line" => t.mark = "echo" /\ t.by = NoJob
    BY <1>15, ShellToken DEF SessionInv
  <2>2. 1 \in DOMAIN inq /\ Head(inq) = inq[1] /\ inq[1] \in Writers
    BY <2>1, TailQueue DEF SessionInv, SessionTypes
  <2>3. t.mark = "echo" => t.of \in Answered /\ flight[Input(t.of)] \in {"delivered",
     "ok"} /\ t.by \in {t.of, NoJob}
    BY <2>1, <2>2, Names, WriterNames DEF SessionInv, InputInv, Arrived
  <2>4. UNCHANGED <<wpc, job, flight, shown>>
    BY <1>15 DEF ShellTake
  <2>5. \A i \in DOMAIN outq' : (i \in DOMAIN outq /\ outq'[i] = outq[i]) \/ outq'[i] = t
    BY <2>1, PutToken DEF SessionInv
  <2> QED
    BY <2>3, <2>4, <2>5 DEF SessionInv, SecretInv, Arrived
<1>16. ASSUME ShellRead PROVE SecretInv'
  <2>1. PICK t \in Tokens :
           outq' = Append(outq, t) /\ inq # <<>> /\ run # NoJob /\ t.of = Head(inq).of /\ t.by = run
    BY <1>16, ShellToken DEF SessionInv
  <2>2. 1 \in DOMAIN inq /\ Head(inq) = inq[1] /\ inq[1] \in Writers
    BY <2>1, TailQueue DEF SessionInv, SessionTypes
  <2>6. inq[1].kind = "input"
    BY <2>1, <2>2, Names, WriterNames DEF SessionInv, LineInv, IsLine
  <2>3. t.mark = "echo" => t.of \in Answered /\ flight[Input(t.of)] \in {"delivered",
     "ok"} /\ t.by \in {t.of, NoJob}
    BY <2>1, <2>2, <2>6, Names, WriterNames DEF SessionInv, InputInv, Arrived
  <2>4. UNCHANGED <<wpc, job, flight, shown>>
    BY <1>16 DEF ShellRead
  <2>5. \A i \in DOMAIN outq' : (i \in DOMAIN outq /\ outq'[i] = outq[i]) \/ outq'[i] = t
    BY <2>1, PutToken DEF SessionInv
  <2> QED
    BY <2>3, <2>4, <2>5 DEF SessionInv, SecretInv, Arrived
<1>17. ASSUME ShellPrompt PROVE SecretInv'
  <2>1. PICK t \in Tokens : outq' = Append(outq, t) /\ t.mark # "echo"
    BY <1>17, ShellToken DEF SessionInv
  <2>3. t.mark = "echo" => t.of \in Answered /\ flight[Input(t.of)] \in {"delivered",
     "ok"} /\ t.by \in {t.of, NoJob}
    BY <2>1
  <2>4. UNCHANGED <<wpc, job, flight, shown>>
    BY <1>17 DEF ShellPrompt
  <2>5. \A i \in DOMAIN outq' : (i \in DOMAIN outq /\ outq'[i] = outq[i]) \/ outq'[i] = t
    BY <2>1, PutToken DEF SessionInv
  <2> QED
    BY <2>3, <2>4, <2>5 DEF SessionInv, SecretInv, Arrived
<1>18. ASSUME ShellFinish PROVE SecretInv'
  <2>1. PICK t \in Tokens : outq' = Append(outq, t) /\ t.mark # "echo"
    BY <1>18, ShellToken DEF SessionInv
  <2>3. t.mark = "echo" => t.of \in Answered /\ flight[Input(t.of)] \in {"delivered",
     "ok"} /\ t.by \in {t.of, NoJob}
    BY <2>1
  <2>4. UNCHANGED <<wpc, job, flight, shown>>
    BY <1>18 DEF ShellFinish
  <2>5. \A i \in DOMAIN outq' : (i \in DOMAIN outq /\ outq'[i] = outq[i]) \/ outq'[i] = t
    BY <2>1, PutToken DEF SessionInv
  <2> QED
    BY <2>3, <2>4, <2>5 DEF SessionInv, SecretInv, Arrived
<1>19. ASSUME Drop PROVE SecretInv'
  BY <1>19, SecretStays DEF Drop
<1>20. ASSUME Consume PROVE SecretInv'
  <2>1. outq # <<>> /\ outq' = Tail(outq) /\ Head(outq) = outq[1] /\ 1 \in DOMAIN outq
    BY <1>20, TailQueue DEF Consume, SessionInv, SessionTypes
  <2>2. \A i \in DOMAIN outq' : i + 1 \in DOMAIN outq /\ outq'[i] = outq[i + 1]
    BY <2>1, TailQueue DEF SessionInv, SessionTypes
  <2>3. UNCHANGED <<wpc, flight>>
    BY <1>20 DEF Consume
  <2>4. job' = job \/ \E status \in Over : job' = Finalized(current, status)
    BY <1>20 DEF Consume, ExitStatus, Over
  <2>5. \A k \in Answered :
           /\ job[k].secret = "writer" => job'[k].secret = "writer"
           /\ job[k].secret = "job" \/ job[k].status \in Over => job'[k].secret = "job" \/ job'[k].status \in
              Over
    BY <2>4, SecretKept DEF SessionInv, SessionTypes
  <2>6. ASSUME started, outq[1].mark = "echo", job[outq[1].of].secret = "none"
        PROVE  outq[1].of \in Answered /\ wpc[Input(outq[1].of)] = "failed"
    <3>1. outq[1].of \in Answered /\ Arrived(Input(outq[1].of)) /\ outq[1].by \in {outq[1].of, NoJob}
      BY <2>1, <2>6 DEF SessionInv, SecretInv
    <3>2. outq[1].by = current
      <4>1. Bracket(current, 1)
        BY <2>6 DEF SessionInv, OutputInv
      <4>2. ~EndsIn(current, 1, 1)
        BY TailQueue DEF EndsIn, SessionInv, SessionTypes
      <4> QED
        BY <2>1, <4>1, <4>2 DEF Bracket
    <3>3. outq[1].of = current /\ job[current].status \notin Over
      BY <2>6, <3>1, <3>2 DEF SessionInv, CurrentInv, Over
    <3>4. wpc[Input(outq[1].of)] \in {"writing", "ok", "failed"}
      BY <3>1, Names DEF SessionInv, SessionTypes, WriterInv, Arrived, Calls
    <3> QED
      BY <2>6, <3>1, <3>3, <3>4 DEF SessionInv, SecretInv
  <2>7. \A s \in shown' : s.clear => s.of \in Answered /\ wpc[Input(s.of)] = "failed"
    BY <1>20, <2>1, <2>6, ConsumeShows DEF SessionInv, SecretInv
  <2> QED
    BY <2>2, <2>3, <2>5, <2>7 DEF SessionInv, SecretInv, Arrived
<1>21. ASSUME ReadEOF PROVE SecretInv'
  <2>1. UNCHANGED <<wpc, flight, shown>> /\ outq' \in {outq, <<>>}
    BY <1>21 DEF ReadEOF, CloseTransport
  <2>2. job' = job \/ Terminate("orphaned")
    BY <1>21 DEF ReadEOF
  <2>3. current \in Jobs \cup {NoJob} /\ "orphaned" \in Over
    BY DEF SessionInv, SessionTypes, Over
  <2> QED
    BY <2>1, <2>2, <2>3, TerminateEffect, SecretStays DEF SessionInv
<1>22. ASSUME RetryLock PROVE SecretInv'
  BY <1>22, SecretStays DEF RetryLock, CloseTransport
<1>23. ASSUME ReconnectFails PROVE SecretInv'
  <2>1. UNCHANGED <<wpc, flight, shown>> /\ outq' \in {outq, <<>>}
    BY <1>23 DEF ReconnectFails, CloseTransport
  <2>2. job' = job \/ Terminate("orphaned")
    BY <1>23 DEF ReconnectFails
  <2>3. current \in Jobs \cup {NoJob} /\ "orphaned" \in Over
    BY DEF SessionInv, SessionTypes, Over
  <2> QED
    BY <2>1, <2>2, <2>3, TerminateEffect, SecretStays DEF SessionInv
<1>24. ASSUME Reconnect PROVE SecretInv'
  BY <1>24, SecretStays DEF Reconnect
<1>25. ASSUME Orphan PROVE SecretInv'
  <2>1. UNCHANGED <<wpc, flight, shown>> /\ outq' \in {outq, <<>>}
    BY <1>25 DEF Orphan, CloseTransport
  <2>2. job' = job \/ job' = Finalized(current, "orphaned")
    BY <1>25 DEF Orphan
  <2>3. current \in Jobs \cup {NoJob} /\ "orphaned" \in Over
    BY DEF SessionInv, SessionTypes, Over
  <2> QED
    BY <2>1, <2>2, <2>3, SecretStays
<1>26. ASSUME NotifyReset PROVE SecretInv'
  BY <1>26, SecretStays DEF NotifyReset
<1>27. ASSUME Restart PROVE SecretInv'
  <2>1. Inits[conn] \in Jobs
    BY InitNames DEF SessionInv, SessionTypes
  <2>2. \A k \in Answered : wpc'[Input(k)] = wpc[Input(k)]
    BY <1>27, <2>1, Names, WriterNames DEF SessionInv, SessionTypes, Calls, Restart
  <2>3. UNCHANGED <<job, flight, outq, shown>>
    BY <1>27 DEF Restart
  <2> QED
    BY <2>2, <2>3 DEF SessionInv, SecretInv, Arrived
<1>28. ASSUME UNCHANGED vars PROVE SecretInv'
  BY <1>28 DEF SessionInv, SecretInv, Arrived
<1> QED
  BY <1>1, <1>2, <1>3, <1>4, <1>5, <1>6, <1>7, <1>8, <1>9, <1>10, <1>11,
     <1>12, <1>13, <1>14, <1>15, <1>16, <1>17, <1>18, <1>19, <1>20, <1>21,
     <1>22, <1>23, <1>24, <1>25, <1>26, <1>27, <1>28
     DEF Next, Callers, Flights, Creator, Shell, Reader

LEMMA ResetNext ==
  ASSUME SessionInv, [Next]_vars
  PROVE  ResetInv'
<1>1. ASSUME CreatorReady PROVE ResetInv'
  BY <1>1 DEF SessionInv, CreatorReady, ResetInv, ResetsAllReported
<1>2. ASSUME CreatorFails PROVE ResetInv'
  BY <1>2 DEF SessionInv, CreatorFails, ResetInv, ResetsAllReported, Terminate
<1>3. ASSUME Register PROVE ResetInv'
  BY <1>3, InitNames DEF SessionInv, Register, ResetInv, ResetsAllReported, SessionTypes, Reports
<1>4. ASSUME Close PROVE ResetInv'
  BY <1>4 DEF SessionInv, Close, ResetInv, ResetsAllReported, Terminate
<1>5. ASSUME CloseFinish PROVE ResetInv'
  BY <1>5 DEF SessionInv, CloseFinish, ResetInv, ResetsAllReported
<1>6. ASSUME NEW j \in Jobs, Attach(j) PROVE ResetInv'
  BY <1>6 DEF SessionInv, Attach, ResetInv, ResetsAllReported
<1>7. ASSUME NEW j \in Answered, Answer(j) PROVE ResetInv'
  BY <1>7 DEF SessionInv, Answer, ResetInv, ResetsAllReported
<1>8. ASSUME NEW w \in Writers, WriteBegin(w) PROVE ResetInv'
  BY <1>8 DEF SessionInv, WriteBegin, ResetInv, ResetsAllReported
<1>9. ASSUME NEW w \in Writers, WriteDone(w) PROVE ResetInv'
  BY <1>9 DEF SessionInv, WriteDone, ResetInv, ResetsAllReported
<1>10. ASSUME NEW w \in Writers, WriteAbandon(w) PROVE ResetInv'
  BY <1>10 DEF SessionInv, WriteAbandon, ResetInv, ResetsAllReported
<1>11. ASSUME NEW w \in Writers, FlightDeliver(w) PROVE ResetInv'
  BY <1>11 DEF SessionInv, FlightDeliver, ResetInv, ResetsAllReported
<1>12. ASSUME NEW w \in Writers, FlightReturn(w) PROVE ResetInv'
  BY <1>12 DEF SessionInv, FlightReturn, ResetInv, ResetsAllReported
<1>13. ASSUME NEW j \in Signallers, SignalCheck(j) PROVE ResetInv'
  BY <1>13 DEF SessionInv, SignalCheck, ResetInv, ResetsAllReported
<1>14. ASSUME NEW j \in Signallers, SignalDeliver(j) PROVE ResetInv'
  BY <1>14 DEF SessionInv, SignalDeliver, ResetInv, ResetsAllReported
<1>15. ASSUME ShellTake PROVE ResetInv'
  BY <1>15 DEF SessionInv, ShellTake, ResetInv, ResetsAllReported
<1>16. ASSUME ShellRead PROVE ResetInv'
  BY <1>16 DEF SessionInv, ShellRead, ResetInv, ResetsAllReported
<1>17. ASSUME ShellPrompt PROVE ResetInv'
  BY <1>17 DEF SessionInv, ShellPrompt, ResetInv, ResetsAllReported
<1>18. ASSUME ShellFinish PROVE ResetInv'
  BY <1>18 DEF SessionInv, ShellFinish, ResetInv, ResetsAllReported
<1>19. ASSUME Drop PROVE ResetInv'
  BY <1>19 DEF SessionInv, Drop, ResetInv, ResetsAllReported
<1>20. ASSUME Consume PROVE ResetInv'
  BY <1>20 DEF SessionInv, Consume, ResetInv, ResetsAllReported
<1>21. ASSUME ReadEOF PROVE ResetInv'
  BY <1>21 DEF SessionInv, ReadEOF, ResetInv, ResetsAllReported, Terminate
<1>22. ASSUME RetryLock PROVE ResetInv'
  BY <1>22 DEF SessionInv, RetryLock, ResetInv, ResetsAllReported
<1>23. ASSUME ReconnectFails PROVE ResetInv'
  BY <1>23 DEF SessionInv, ReconnectFails, ResetInv, ResetsAllReported, Terminate
<1>24. ASSUME Reconnect PROVE ResetInv'
  BY <1>24, InitNames DEF SessionInv, Reconnect, ResetInv, ResetsAllReported, SessionTypes, Reports
<1>25. ASSUME Orphan PROVE ResetInv'
  BY <1>25 DEF SessionInv, Orphan, ResetInv, ResetsAllReported
<1>26. ASSUME NotifyReset PROVE ResetInv'
  BY <1>26, InitNames DEF SessionInv, NotifyReset, ResetInv, ResetsAllReported, SessionTypes, Reports
<1>27. ASSUME Restart PROVE ResetInv'
  BY <1>27 DEF SessionInv, Restart, ResetInv, ResetsAllReported
<1>28. ASSUME UNCHANGED vars PROVE ResetInv'
  BY <1>28 DEF SessionInv, ResetInv, ResetsAllReported
<1> QED
  BY <1>1, <1>2, <1>3, <1>4, <1>5, <1>6, <1>7, <1>8, <1>9, <1>10, <1>11,
     <1>12, <1>13, <1>14, <1>15, <1>16, <1>17, <1>18, <1>19, <1>20, <1>21,
     <1>22, <1>23, <1>24, <1>25, <1>26, <1>27, <1>28
     DEF Next, Callers, Flights, Creator, Shell, Reader

-----------------------------------------------------------------------------
(* The theorems *)

LEMMA SessionInit == Init => SessionInv
<1> SUFFICES ASSUME Init PROVE SessionInv
  OBVIOUS
<1>1. job \in JobStates /\ wpc \in Calls /\ flight \in Writes /\ born \in Births
  BY Names, InitNames DEF Init, JobStates, Calls, Writes, Births
<1>2. SessionTypes
  BY <1>1, EmptyQueue, InitNames DEF Init, SessionTypes, Reports
<1>3. inq = <<>> /\ outq = <<>> /\ run = NoJob /\ current = NoJob /\ started = FALSE /\ shown = {} /\ taken = {}
  BY DEF Init
<1>4. WriterInv
  <2>1. \A w \in Writers : wpc[w] \in {"due",
     "off"} /\ flight[w] = "none" /\ (wpc[w] = "due" => w = Line(Inits[1]))
    BY DEF Init
  <2>2. writeMu = Free /\ conn = 1 /\ reader = "read" /\ \A j \in Jobs : born[j] = 0
    BY DEF Init
  <2>3. \A w \in Writers : w.of \in Cmds => wpc[w] = "off"
    BY <2>1, WriterNames, InitNames
  <2>4. \A c \in DOMAIN Inits : c > 1 => wpc[Line(Inits[c])] = "off"
    BY <2>1, Names, WriterNames, InitNames
  <2> QED
    BY <2>1, <2>2, <2>3, <2>4, Names DEF WriterInv
<1>5. LinkInv
  BY <1>3 DEF Init, LinkInv, Free, Rejoin
<1>6. CurrentInv
  BY <1>3, Names, WriterNames DEF Init, CurrentInv
<1>7. LineInv /\ InputInv
  BY <1>3, EmptyQueue, Names DEF Init, LineInv, InputInv, InputStaysWithItsCommand, IsLine, IsEnd, Outstanding
<1>8. OutputInv
  BY <1>3, EmptyQueue DEF OutputInv, OutputIsItsOwn
<1>9. SecretInv
  BY <1>3, EmptyQueue, Names, WriterNames DEF Init, SecretInv
<1>10. ResetInv
  BY DEF Init, ResetInv, ResetsAllReported
<1> QED
  BY <1>2, <1>4, <1>5, <1>6, <1>7, <1>8, <1>9, <1>10 DEF SessionInv

\* What SessionInv says of the lines is what a run counts.
LEMMA LinesCounted == SessionInv => OneLineOutstanding
<1> SUFFICES ASSUME SessionInv PROVE OneLineOutstanding
  OBVIOUS
<1> DEFINE L == {i \in DOMAIN inq : inq[i].kind = "line"}
<1>1. \A i, k \in L : i = k
  BY DEF SessionInv, LineInv, IsLine
<1>2. run # NoJob => L = {}
  BY DEF SessionInv, LineInv, IsLine
<1>3. CASE L = {}
  BY <1>3, FS_EmptySet DEF OneLineOutstanding
<1>4. CASE L # {}
  <2>1. PICK i : L = {i}
    BY <1>1, <1>4
  <2>2. Cardinality(L) = 1
    BY <2>1, FS_Singleton
  <2> QED
    BY <1>2, <1>4, <2>2 DEF OneLineOutstanding
<1> QED
  BY <1>3, <1>4

\* The session keeps its invariant.
THEOREM SessionInvariant == Spec => []SessionInv
<1>1. SessionInv /\ [Next]_vars => SessionInv'
  <2> SUFFICES ASSUME SessionInv, [Next]_vars PROVE SessionInv'
    OBVIOUS
  <2> QED
    BY TypesNext, WriterNext, LinkNext, CurrentNext, LineNext, InputNext, OutputNext, SecretNext, ResetNext
       DEF SessionInv
<1> QED
  BY <1>1, SessionInit, PTL DEF Spec

\* An answer meets its own command or the idle shell after it, on the
\* connection it was meant for.
THEOREM InputIsItsOwn == Spec => []InputStaysWithItsCommand
<1>1. SessionInv => InputStaysWithItsCommand
  BY DEF SessionInv, InputInv
<1> QED
  BY <1>1, SessionInvariant, PTL

\* The shell is never given a second line before the marker of the first.
THEOREM OneLineAtATime == Spec => []OneLineOutstanding
BY LinesCounted, SessionInvariant, PTL

\* A job's output holds what its own command printed, nothing else.
THEOREM OutputIsAttributed == Spec => []OutputIsItsOwn
<1>1. SessionInv => OutputIsItsOwn
  BY DEF SessionInv, OutputInv
<1> QED
  BY <1>1, SessionInvariant, PTL

\* A secret whose delivery succeeded is never appended to an output in the clear.
THEOREM SecretsAreRedacted == Spec => []SecretStaysRedacted
<1>1. SessionInv => SecretStaysRedacted
  BY DEF SessionInv, SecretInv, SecretStaysRedacted
<1> QED
  BY <1>1, SessionInvariant, PTL

\* No reconnect goes unreported between setOnReset and notifyReset.
THEOREM ResetsAreReported == Spec => []ResetsAllReported
<1>1. SessionInv => ResetsAllReported
  BY DEF SessionInv, ResetInv
<1> QED
  BY <1>1, SessionInvariant, PTL
=============================================================================
