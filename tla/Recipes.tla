-------------------------------- MODULE Recipes --------------------------------
(***************************************************************************)
(* RunRecipe: the steps of a recipe, run one after the other in a session, *)
(* with the path taken when a step exceeds its time: ask for a kill, wait, *)
(* close the session, force the job terminal.  Meanwhile a human may       *)
(* approve the step, be it before Start has answered the recipe, somebody  *)
(* may close the session, and the shell may finish the command at any      *)
(* point of that path.                                                     *)
(*                                                                         *)
(* One run of one recipe is modelled, in a session given by its id or      *)
(* created for the run; what other jobs of the session do is in the        *)
(* outcomes Start may have.  Output, wording and the daemon's shutdown are *)
(* left out, and so is the shell's end: a close takes the job off the      *)
(* session and ends it before it kills the shell (JobEngine has both).     *)
(***************************************************************************)
EXTENDS Naturals

CONSTANT NSteps   \* commands of the recipe

ASSUME RecipesAssumption == NSteps \in Nat \ {0}

VARIABLES
    runAt,       \* where RunRecipe is
    step,        \* the command it is at
    adHoc,       \* the session is its own: the recipe names a remote target
    jobOf,       \* each step's job: "none", "awaiting", "running", or how it ended
    confirms,    \* steps whose confirmation is pending in the manager
    approved,    \* steps an approval took from pending and did not start yet
    inRegistry,  \* the session is in Manager.sessions
    shut,        \* Session.closed
    onSession,   \* Session.current; 0 is none
    settling,    \* jobs the reader took from current and did not finalize yet
    closer,      \* each CloseSession: [at, jobs it finalizes]
    early        \* history: the step was approved before Start answered

recipeVars == <<runAt, step, adHoc, jobOf, confirms, approved, inRegistry, shut, onSession, settling, closer, early>>
sessionPart == <<inRegistry, shut, onSession, settling, closer>>

RSteps == 1..NSteps
Closers == {"recipe", "other"}
LiveStatuses == {"awaiting", "running"}
Ended(n) == jobOf[n] \notin LiveStatuses \cup {"none"}

RecipeInit ==
    /\ runAt = "step" /\ step = 1
    /\ adHoc \in BOOLEAN
    /\ jobOf = [n \in RSteps |-> "none"]
    /\ confirms = {} /\ approved = {}
    /\ inRegistry = TRUE /\ shut = FALSE /\ onSession = 0 /\ settling = {}
    /\ closer = [c \in Closers |-> [at |-> "idle", jobs |-> {}]]
    /\ early = FALSE

\* Job.finalize of a set of jobs: the first terminal status stays.
Ending(jobs, status) ==
    [n \in RSteps |-> IF n \in jobs /\ ~Ended(n) THEN status ELSE jobOf[n]]

RunGoes(at) == runAt' = at

-----------------------------------------------------------------------------
(* The steps.                                                              *)

AfterSteps == IF adHoc THEN "leave" ELSE "returned"

\* Start looks the session up and lets go of the manager before it acts on it.
FindSession ==
    /\ runAt = "step"
    /\ RunGoes(IF inRegistry THEN "start" ELSE AfterSteps)
    /\ UNCHANGED <<step, adHoc, jobOf, confirms, approved, sessionPart, early>>

\* It refuses the step, parks it (registerPending's first section) or makes it the
\* session's current job (startJob's first section).
StartStep ==
    /\ runAt = "start"
    /\ \/ RunGoes(AfterSteps) /\ UNCHANGED <<jobOf, confirms, onSession>>
       \/ /\ jobOf' = [jobOf EXCEPT ![step] = "awaiting"]
          /\ confirms' = confirms \cup {step}
          /\ RunGoes("parked") /\ UNCHANGED onSession
       \/ /\ ~shut /\ onSession = 0
          /\ jobOf' = [jobOf EXCEPT ![step] = "running"]
          /\ onSession' = step
          /\ RunGoes("writing") /\ UNCHANGED confirms
    /\ UNCHANGED <<step, adHoc, approved, inRegistry, shut, settling, closer, early>>

\* The line is written, or the step failed and leaves the session.
StepWritten ==
    /\ runAt = "writing"
    /\ \/ ~shut /\ RunGoes("wait") /\ UNCHANGED <<jobOf, onSession>>
       \/ /\ jobOf' = Ending({step}, "failed")
          /\ onSession' = IF onSession = step THEN 0 ELSE onSession
          /\ RunGoes(AfterSteps)
    /\ UNCHANGED <<step, adHoc, confirms, approved, inRegistry, shut, settling, closer, early>>

\* The registry write fails and withdraws the confirmation, or registerPending
\* looks again: a confirmation somebody resolved meanwhile is an error to the
\* recipe, an approved one too.
StepParked ==
    /\ runAt = "parked"
    /\ \/ confirms' = confirms \ {step} /\ RunGoes(AfterSteps)
       \/ RunGoes(IF step \in confirms THEN "asking" ELSE AfterSteps) /\ UNCHANGED confirms
    /\ UNCHANGED <<step, adHoc, jobOf, approved, sessionPart, early>>

\* confirm.requested is on record, or the confirmation is withdrawn and the job
\* failed, be it approved already or not.
AskHuman ==
    /\ runAt = "asking"
    /\ \/ RunGoes("wait") /\ early' = FALSE /\ UNCHANGED <<confirms, jobOf>>
       \/ /\ confirms' = confirms \ {step}
          /\ jobOf' = Ending({step}, "failed")
          /\ RunGoes(AfterSteps) /\ UNCHANGED early
    /\ UNCHANGED <<step, adHoc, approved, sessionPart>>

\* job.Done() fired: go on after a success, stop after anything else.
StepDone ==
    /\ runAt = "wait" /\ Ended(step)
    /\ IF jobOf[step] = "exited" /\ step < NSteps
         THEN step' = step + 1 /\ RunGoes("step")
         ELSE UNCHANGED step /\ RunGoes(AfterSteps)
    /\ UNCHANGED <<adHoc, jobOf, confirms, approved, sessionPart, early>>

\* The timer fired first, or at the same time; Kill reads the job's status.
Timeout ==
    /\ runAt = "wait"
    /\ RunGoes(IF jobOf[step] = "awaiting" THEN "cancel" ELSE "signal")
    /\ UNCHANGED <<step, adHoc, jobOf, confirms, approved, sessionPart, early>>

\* Kill of a parked job; ok is whether the bus recorded it.
CancelConfirm(ok) ==
    /\ runAt = "cancel"
    /\ IF step \in confirms
         THEN /\ confirms' = confirms \ {step}
              /\ jobOf' = Ending({step}, "killed")
              /\ RunGoes(IF ok THEN "grace" ELSE "look")
         ELSE RunGoes("signal") /\ UNCHANGED <<confirms, jobOf>>
    /\ UNCHANGED <<step, adHoc, approved, sessionPart, early>>

\* Signal fails unless the job is the session's current one, and may fail then;
\* whether the command dies of it is the shell's to say (ShellFinishes).
SignalJob ==
    /\ runAt = "signal"
    /\ \/ onSession = step /\ RunGoes("grace")
       \/ RunGoes("look")
    /\ UNCHANGED <<step, adHoc, jobOf, confirms, approved, sessionPart, early>>

\* The grace period ends with the job or without it.
Grace ==
    /\ runAt = "grace"
    /\ \/ Ended(step) /\ RunGoes(AfterSteps)
       \/ RunGoes("close")
    /\ UNCHANGED <<step, adHoc, jobOf, confirms, approved, sessionPart, early>>

\* After a failed kill only a job that is done is left alone.
Look ==
    /\ runAt = "look"
    /\ RunGoes(IF Ended(step) THEN AfterSteps ELSE "close")
    /\ UNCHANGED <<step, adHoc, jobOf, confirms, approved, sessionPart, early>>

\* Mutant: the session is closed, and its close is trusted to end the job.
ForceTerminal_Trusts ==
    /\ runAt = "close" /\ closer["recipe"].at = "done"
    /\ RunGoes(AfterSteps)
    /\ UNCHANGED <<step, adHoc, jobOf, confirms, approved, sessionPart, early>>

\* A job the close did not end is orphaned here.
ForceTerminal ==
    /\ runAt = "close" /\ closer["recipe"].at = "done"
    /\ jobOf' = Ending({step}, "orphaned")
    /\ RunGoes(AfterSteps)
    /\ UNCHANGED <<step, adHoc, confirms, approved, sessionPart, early>>

\* The deferred CloseSession of the run's own session.
Leave ==
    /\ runAt = "leave"
    /\ \/ closer["recipe"].at = "done"
       \/ closer["recipe"].at = "idle" /\ ~inRegistry
    /\ RunGoes("returned")
    /\ UNCHANGED <<step, adHoc, jobOf, confirms, approved, sessionPart, early>>

-----------------------------------------------------------------------------
(* CloseSession, by the run or by anybody else.                            *)

MayClose(c) == c = "recipe" => runAt \in {"close", "leave"}

\* Out of the registry, with the confirmations it resolves.  A session somebody
\* else removed is closed again when the run must end its job.
Unlist(c) ==
    /\ closer[c].at = "idle" /\ MayClose(c)
    /\ inRegistry \/ (c = "recipe" /\ runAt = "close")
    /\ LET cancelled == IF inRegistry THEN confirms ELSE {} IN
         /\ confirms' = confirms \ cancelled
         /\ closer' = [closer EXCEPT ![c] = [at |-> "mark", jobs |-> cancelled]]
    /\ inRegistry' = FALSE
    /\ UNCHANGED <<runAt, step, adHoc, jobOf, approved, shut, onSession, settling, early>>

\* terminate: the first to mark the session closed takes its current job.
MarkShut(c) ==
    /\ closer[c].at = "mark"
    /\ shut' = TRUE /\ onSession' = 0
    /\ closer' = [closer EXCEPT ![c].at = "end",
                  ![c].jobs = @ \cup (IF ~shut /\ onSession # 0 THEN {onSession} ELSE {})]
    /\ UNCHANGED <<runAt, step, adHoc, jobOf, confirms, approved, inRegistry, settling, early>>

EndJobs(c) ==
    /\ closer[c].at = "end"
    /\ jobOf' = Ending(closer[c].jobs, "closed")
    /\ closer' = [closer EXCEPT ![c] = [at |-> "done", jobs |-> {}]]
    /\ UNCHANGED <<runAt, step, adHoc, confirms, approved, inRegistry, shut, onSession, settling, early>>

-----------------------------------------------------------------------------
(* The shell and the approver.                                             *)

\* The reader saw the end marker: current is cleared in one critical section,
\* the job finalized after it.
ShellFinishes ==
    /\ onSession # 0
    /\ settling' = settling \cup {onSession} /\ onSession' = 0
    /\ UNCHANGED <<runAt, step, adHoc, jobOf, confirms, approved, inRegistry, shut, closer, early>>

ShellReports(n) ==
    /\ n \in settling
    /\ settling' = settling \ {n}
    /\ \E status \in {"exited", "failed"} : jobOf' = Ending({n}, status)
    /\ UNCHANGED <<runAt, step, adHoc, confirms, approved, inRegistry, shut, onSession, closer, early>>

\* A human approves or rejects the parked step, or its confirmation expires.
Resolve(n) ==
    /\ n \in confirms
    /\ confirms' = confirms \ {n}
    /\ \/ /\ approved' = approved \cup {n}
          /\ early' = (early \/ runAt \in {"parked", "asking"})
          /\ UNCHANGED jobOf
       \/ jobOf' = Ending({n}, "rejected") /\ UNCHANGED <<approved, early>>
    /\ UNCHANGED <<runAt, step, adHoc, sessionPart>>

\* The approved job starts on its session unless that is closed, busy, or the
\* job ended meanwhile; the approval may also fail before.
StartApproved(n) ==
    /\ n \in approved
    /\ approved' = approved \ {n}
    /\ \/ /\ ~shut /\ onSession = 0 /\ ~Ended(n)
          /\ onSession' = n
          /\ jobOf' = [jobOf EXCEPT ![n] = "running"]
       \/ jobOf' = Ending({n}, "failed") /\ UNCHANGED onSession
    /\ UNCHANGED <<runAt, step, adHoc, confirms, inRegistry, shut, settling, closer, early>>

RecipeNext ==
    \/ FindSession \/ StartStep \/ StepWritten \/ StepParked \/ AskHuman \/ StepDone
    \/ Timeout \/ SignalJob \/ Grace \/ Look \/ ForceTerminal \/ Leave
    \/ \E ok \in BOOLEAN : CancelConfirm(ok)
    \/ \E c \in Closers : Unlist(c) \/ MarkShut(c) \/ EndJobs(c)
    \/ ShellFinishes
    \/ \E n \in RSteps : ShellReports(n) \/ Resolve(n) \/ StartApproved(n)

RecipeSpec == RecipeInit /\ [][RecipeNext]_recipeVars

-----------------------------------------------------------------------------
\* Still the session's, still to end, or still able to start.
Loose(n) ==
    \/ onSession = n \/ jobOf[n] = "running"
    \/ n \in confirms \cup approved /\ ~Ended(n)

\* When RunRecipe answers, no step of it holds the session, is live or can start,
\* its own session is gone, and every step but the last one succeeded, whatever the
\* approver, the shell and other closers did meanwhile (interruptRecipeJob's promise
\* not to leave a job in the shared session).  One step is excepted: the one whose
\* Start answered with an error after it had been approved, which RunRecipe counts
\* as failed and looks at no more.
RecipeLeavesNothing ==
    runAt = "returned" =>
        /\ \A n \in RSteps : Loose(n) => n = step /\ early
        /\ adHoc => ~inRegistry
        /\ \A n \in 1..(step - 1) : jobOf[n] = "exited"
================================================================================
