---------------------------- MODULE Storage_proofs ----------------------------
(***************************************************************************)
(* What the daemon keeps on disk: missions with their evidence, the list   *)
(* of jobs, snapshots and their restores, and the audit log.  For any      *)
(* missions, calls, sessions, jobs, snapshots and records, and any limits. *)
(***************************************************************************)
EXTENDS Mission, JobPersistence, Snapshots, AuditLog,
        FiniteSetTheorems, SequenceTheorems, NaturalsInduction, WellFoundedInduction, TLAPS

-----------------------------------------------------------------------------
(* Missions: what a mission says and what happened stay together.          *)

\* The records the argument is about, whichever place they are in.
StepNames   == {"pending", "running", "passed", "failed", "skipped"}
StepRecs    == [status : StepNames, job : Jobs \cup {NoJob}]
Statuses    == {"planned", "running", "needs_attention", "interrupted"} \cup Finished
MissionRecs == [status : Statuses, sess : Sess, attempts : SUBSET Sess, steps : [Steps -> StepRecs]]
CallSteps   == {"idle", "create", "created", "resume", "resumed", "updated", "closing", "failed", "ok"}
CallRecs == [at : CallSteps, id : MIds \cup {NoMission}, sess : Sess \cup {NoSess},
             before : MissionRecs \cup {NoMission}]
JobRecs  == [status : {"new"}, sess : {NoSess}] \cup [status : {"live"} \cup JobOver, sess : Sess]

\* Every copy of a mission there is: in memory, in the file, and in the calls
\* that may still put one back.
Kept(id, m) == [id |-> id, of |-> m]
Copies ==
    {Kept(id, missions[id]) : id \in Ids} \cup {Kept(id, disk[id]) : id \in DOMAIN disk} \cup
    {Kept(call[c].id, call[c].before) : c \in {x \in Calls : call[x].at \in {"resumed", "updated"}}}

\* What EvidenceIsReal asks of one mission.
Real(m) ==
    /\ \A p \in Steps : m.steps[p].status = "passed" =>
          Evidence(m, m.steps[p].job) /\ jobs[m.steps[p].job].status = "exited0"
    /\ m.status = "succeeded" =>
          /\ \E p \in Steps : m.steps[p].status = "passed"
          /\ \A p \in Steps : m.steps[p].status \in {"passed", "skipped"}

MissionTypes ==
    /\ Ids \subseteq MIds /\ DOMAIN disk \subseteq MIds
    /\ bySess \in [Sess -> MIds \cup {NoMission}]
    /\ writeFaults \in Nat
    /\ call \in [Calls -> CallRecs]
    /\ sessions \in [Sess -> {"free", "open", "closed"}]
    /\ jobs \in [Jobs -> JobRecs]

\* What a call knows of itself: its session is its own.
CallInv ==
    \A c \in Calls :
        /\ call[c].at = "idle" => call[c] = Idle
        /\ call[c].at = "updated" => call[c].sess = NoSess
        /\ call[c].at \in {"create", "created", "resume", "resumed", "closing"} => call[c].sess \in Sess
        /\ call[c].at \in {"created", "resume", "resumed", "updated"} => call[c].id \in MIds
        /\ call[c].sess \in Sess => sessions[call[c].sess] # "free"
        /\ \A d \in Calls \ {c} : call[c].sess = call[d].sess => call[c].sess = NoSess

\* Every copy carries real evidence and a session that was opened for it.
CopyInv ==
    \A k \in Copies :
        /\ k.id \in MIds /\ k.of \in MissionRecs
        /\ sessions[k.of.sess] # "free"
        /\ Real(k.of)

\* No session is of two missions, and none is of a mission before the call
\* that opened it says so; a mission under creation has the session of its
\* creator, and cannot be resumed into another.
Apart == \A k, l \in Copies : k.of.sess = l.of.sess => k.id = l.id
Unheld ==
    \A c \in Calls : call[c].at \in {"create", "resume"} =>
        \A k \in Copies : k.of.sess # call[c].sess
Owned ==
    \A c \in Calls : call[c].at = "created" =>
        \A k \in Copies :
            /\ k.of.sess = call[c].sess <=> k.id = call[c].id
            /\ k.id = call[c].id => k.of.status # "interrupted"

\* The index finds missions in memory, and only those.
IndexInv == IndexFindsMissions /\ \A s \in Sess : bySess[s] \in Ids \cup {NoMission}

MissionInv ==
    /\ MissionTypes /\ CallInv /\ CopyInv /\ Apart /\ Unheld /\ Owned
    /\ IndexInv /\ NoLeakedSession /\ NothingToLose

-----------------------------------------------------------------------------
(* Lemmas.                                                                 *)

LEMMA FreshIsFree == \A S : Fresh(S) \subseteq S
BY DEF Fresh

\* Where a copy can be.
LEMMA CopyPlaces ==
  /\ \A id \in Ids : Kept(id, missions[id]) \in Copies
  /\ \A id \in DOMAIN disk : Kept(id, disk[id]) \in Copies
  /\ \A c \in Calls : call[c].at \in {"resumed", "updated"} => Kept(call[c].id, call[c].before) \in Copies
  /\ \A k \in Copies :
        \/ \E id \in Ids : k = Kept(id, missions[id])
        \/ \E id \in DOMAIN disk : k = Kept(id, disk[id])
        \/ \E c \in Calls : call[c].at \in {"resumed", "updated"} /\ k = Kept(call[c].id, call[c].before)
BY DEF Copies

LEMMA NextCopyPlaces ==
  \A k \in Copies' :
     \/ \E id \in DOMAIN missions' : k = Kept(id, missions'[id])
     \/ \E id \in DOMAIN disk' : k = Kept(id, disk'[id])
     \/ \E c \in Calls : call'[c].at \in {"resumed", "updated"} /\ k = Kept(call'[c].id, call'[c].before)
BY DEF Copies, Ids, Kept

LEMMA KeptParts == \A id, m : Kept(id, m).id = id /\ Kept(id, m).of = m
BY DEF Kept

\* Jobs are never taken back: one that exited with 0 stays so.
JobsMoveOn ==
    \A j \in Jobs : jobs[j].status # "new" =>
        /\ jobs'[j].status # "new" /\ jobs'[j].sess = jobs[j].sess
        /\ jobs[j].status = "exited0" => jobs'[j].status = "exited0"
SessionsMoveOn == \A s \in Sess : sessions[s] # "free" => sessions'[s] # "free"

LEMMA RealStays ==
  ASSUME JobsMoveOn, NEW m, Real(m)
  PROVE  Real(m)'
BY DEF JobsMoveOn, Real, Evidence

\* k is a later form of the copy l: of the same mission, in the same session.
Follows(k, l) == k.id = l.id /\ k.of \in MissionRecs /\ k.of.sess = l.of.sess

\* A step after which each copy follows one of before.
CallsCalm ==
    \A c \in Calls : call'[c].at \in {"create", "created", "resume"} =>
        call'[c].at = call[c].at /\ call'[c].sess = call[c].sess /\ call'[c].id = call[c].id

LEMMA CopiesFollow ==
  ASSUME MissionInv, SessionsMoveOn, CallsCalm,
         \A k \in Copies' : \E l \in Copies :
            Follows(k, l) /\ Real(k.of)' /\ (k.of.status = "interrupted" => l.of.status = "interrupted")
  PROVE  CopyInv' /\ Apart' /\ Unheld' /\ Owned'
<1> USE DEF MissionInv
<1>s. \A m \in MissionRecs : m.sess \in Sess
  BY DEF MissionRecs
<1>1. CopyInv'
  BY <1>s DEF CopyInv, Follows, SessionsMoveOn
<1>2. Apart'
  BY DEF Apart, Follows
<1>3. Unheld'
  BY DEF Unheld, Follows, CallsCalm
<1>4. Owned'
  BY DEF Owned, Follows, CallsCalm
<1> QED
  BY <1>1, <1>2, <1>3, <1>4

\* The step leaves no new copy.
LEMMA NoNewCopy ==
  ASSUME MissionInv, SessionsMoveOn, CallsCalm, JobsMoveOn, Copies' \subseteq Copies
  PROVE  CopyInv' /\ Apart' /\ Unheld' /\ Owned'
<1>1. \A k \in Copies' : Follows(k, k) /\ Real(k.of)'
  BY RealStays DEF MissionInv, CopyInv, Follows
<1> QED
  BY <1>1, CopiesFollow

\* The step leaves one new copy, which follows an old one.
LEMMA OneNewCopy ==
  ASSUME MissionInv, SessionsMoveOn, CallsCalm, JobsMoveOn,
         NEW l \in Copies, NEW n \in MissionRecs, Copies' \subseteq Copies \cup {Kept(l.id, n)},
         n.sess = l.of.sess, n.status = "interrupted" => l.of.status = "interrupted", Real(n)'
  PROVE  CopyInv' /\ Apart' /\ Unheld' /\ Owned'
<1>1. \A k \in Copies : Follows(k, k) /\ Real(k.of)'
  BY RealStays DEF MissionInv, CopyInv, Follows
<1>2. Follows(Kept(l.id, n), l)
  BY KeptParts DEF Follows
<1>3. \A k \in Copies' : k \in Copies \/ k = Kept(l.id, n)
  OBVIOUS
<1> QED
  BY <1>1, <1>2, <1>3, KeptParts, CopiesFollow

\* One call moves, keeping its session or taking a free one.
LEMMA CallMoves ==
  ASSUME MissionInv, NEW c \in Calls, NEW r \in CallRecs, call' = [call EXCEPT ![c] = r],
         r.at # "idle",
         r.at = "updated" => r.sess = NoSess,
         r.at \in {"create", "created", "resume", "resumed", "closing"} => r.sess \in Sess,
         r.at \in {"created", "resume", "resumed", "updated"} => r.id \in MIds,
         r.sess \in Sess => sessions'[r.sess] # "free",
         r.sess = call[c].sess \/ r.sess = NoSess \/ sessions[r.sess] = "free",
         SessionsMoveOn
  PROVE  CallInv' /\ call' \in [Calls -> CallRecs]
<1> USE DEF MissionInv, MissionTypes
<1>1. call' \in [Calls -> CallRecs]
  OBVIOUS
<1>2. \A d \in Calls : call'[d] = IF d = c THEN r ELSE call[d]
  OBVIOUS
<1>3. \A d \in Calls : call[d].sess \in Sess \cup {NoSess}
  BY DEF CallRecs
<1>4. \A d \in Calls \ {c} : call[d].sess = r.sess => r.sess = NoSess
  BY <1>3 DEF CallInv
<1>5. r.sess \in Sess \cup {NoSess}
  BY DEF CallRecs
<1>6. \A d \in Calls : call[d].sess \in Sess => sessions'[call[d].sess] # "free"
  BY DEF CallInv, SessionsMoveOn
<1>7. \A d \in Calls : call'[d].sess \in Sess => sessions'[call'[d].sess] # "free"
  BY <1>2, <1>6
<1>8. \A d \in Calls : \A e \in Calls \ {d} : call'[d].sess = call'[e].sess => call'[d].sess = NoSess
  BY <1>2, <1>4 DEF CallInv
<1>9. \A d \in Calls :
        /\ call'[d].at = "idle" => call'[d] = Idle
        /\ call'[d].at = "updated" => call'[d].sess = NoSess
        /\ call'[d].at \in {"create", "created", "resume", "resumed", "closing"} => call'[d].sess \in Sess
        /\ call'[d].at \in {"created", "resume", "resumed", "updated"} => call'[d].id \in MIds
  BY <1>2 DEF CallInv
<1> QED
  BY <1>1, <1>7, <1>8, <1>9 DEF CallInv

LEMMA IdleParts ==
  /\ Idle.at = "idle" /\ Idle.id = NoMission /\ Idle.sess = NoSess /\ Idle \in CallRecs
  /\ NoSess \notin Sess /\ NoMission \notin MIds /\ NoJob \notin Jobs
<1>1. Idle.at = "idle" /\ Idle.id = NoMission /\ Idle.sess = NoSess
  BY DEF Idle
<1>2. Idle \in CallRecs
  BY DEF Idle, CallRecs, CallSteps
<1>3. NoSess \notin Sess /\ NoMission \notin MIds /\ NoJob \notin Jobs
  BY MissionAssumption
<1> QED
  BY <1>1, <1>2, <1>3

\* reindexLocked finds the unfinished missions, if each session is of one mission.
LEMMA Reindexed ==
  ASSUME NEW ms, DOMAIN ms \subseteq MIds, \A id \in DOMAIN ms : ms[id].sess \in Sess,
         \A id, x \in DOMAIN ms : ms[id].sess = ms[x].sess => id = x
  PROVE  /\ Index(ms) \in [Sess -> MIds \cup {NoMission}]
         /\ \A id \in DOMAIN ms : ms[id].status \notin Finished => Index(ms)[ms[id].sess] = id
         /\ \A s \in Sess : /\ Index(ms)[s] \in DOMAIN ms \cup {NoMission}
                            /\ Index(ms)[s] \in DOMAIN ms => ms[Index(ms)[s]].sess = s
<1> DEFINE With2(s) == {id \in DOMAIN ms : ms[id].sess = s /\ ms[id].status \notin Finished}
           I == Index(ms)
<1>1. \A s \in Sess :
        /\ With2(s) # {} => I[s] \in With2(s)
        /\ With2(s) = {} => I[s] = NoMission
  <2> SUFFICES ASSUME NEW s \in Sess
               PROVE  /\ With2(s) # {} => I[s] \in With2(s)
                      /\ With2(s) = {} => I[s] = NoMission
    OBVIOUS
  <2>1. I[s] = IF \E id \in DOMAIN ms : ms[id].sess = s /\ ms[id].status \notin Finished
                    THEN CHOOSE id \in DOMAIN ms : ms[id].sess = s /\ ms[id].status \notin Finished
                    ELSE NoMission
    BY DEF Index
  <2> QED
    BY <2>1
<1>2. I = [s \in Sess |-> I[s]]
  BY DEF Index
<1>3. \A s \in Sess : I[s] \in DOMAIN ms \cup {NoMission}
  BY <1>1
<1>n. NoMission \notin MIds
  BY IdleParts
<1>4. \A s \in Sess : I[s] \in DOMAIN ms => ms[I[s]].sess = s
  BY <1>1, <1>n
<1>5. \A id \in DOMAIN ms : ms[id].status \notin Finished => I[ms[id].sess] = id
  <2> SUFFICES ASSUME NEW id \in DOMAIN ms, ms[id].status \notin Finished
               PROVE  I[ms[id].sess] = id
    OBVIOUS
  <2>1. id \in With2(ms[id].sess)
    OBVIOUS
  <2>2. I[ms[id].sess] \in With2(ms[id].sess)
    BY <1>1, <2>1
  <2> QED
    BY <2>2
<1>6. I \in [Sess -> MIds \cup {NoMission}]
  BY <1>2, <1>3
<1> QED
  BY <1>3, <1>4, <1>5, <1>6

-----------------------------------------------------------------------------
(* Every step keeps the invariant.                                         *)

LEMMA MissionInit_Inv == MissionInit => MissionInv
<1> SUFFICES ASSUME MissionInit PROVE MissionInv
  OBVIOUS
<1> USE DEF MissionInit
<1>1. Ids = {} /\ DOMAIN disk = {}
  BY DEF Ids
<1>2. \A c \in Calls : call[c] = Idle
  OBVIOUS
<1>3. Copies = {}
  BY <1>1, <1>2, IdleParts DEF Copies
<1>4. MissionTypes
  BY <1>1, IdleParts DEF MissionTypes, JobRecs
<1>5. CallInv
  BY <1>2, IdleParts DEF CallInv
<1>6. CopyInv /\ Apart /\ Unheld /\ Owned
  BY <1>3 DEF CopyInv, Apart, Unheld, Owned
<1>7. IndexInv /\ NoLeakedSession /\ NothingToLose
  BY <1>1, IdleParts DEF IndexInv, IndexFindsMissions, NoLeakedSession, NothingToLose
<1> QED
  BY <1>4, <1>5, <1>6, <1>7 DEF MissionInv

\* A session is opened for a call: no mission has it yet.
LEMMA OpensSession ==
  ASSUME MissionInv, NEW c \in Calls, NEW s \in Sess, sessions[s] = "free", call[c].at = "idle",
         NEW r \in CallRecs, r.at \in {"create", "resume"}, r.sess = s, r.at = "resume" => r.id \in MIds,
         sessions' = [sessions EXCEPT ![s] = "open"], call' = [call EXCEPT ![c] = r],
         UNCHANGED <<missions, bySess, disk, writeFaults, jobs, served>>
  PROVE  MissionInv'
<1> USE DEF MissionInv, MissionTypes
<1>s. SessionsMoveOn /\ sessions'[s] # "free" /\ sessions' \in [Sess -> {"free", "open", "closed"}]
  BY DEF SessionsMoveOn
<1>2. CallInv' /\ call' \in [Calls -> CallRecs]
  BY <1>s, CallMoves
<1>3. \A d \in Calls : call'[d] = IF d = c THEN r ELSE call[d]
  OBVIOUS
<1>4. Copies' \subseteq Copies
  BY <1>3, CopyPlaces, NextCopyPlaces DEF Ids
<1>j. JobsMoveOn
  BY DEF JobsMoveOn
<1>m. \A m \in MissionRecs : m.sess \in Sess
  BY DEF MissionRecs
<1>5. CopyInv'
  <2> SUFFICES ASSUME NEW k \in Copies
               PROVE  k.id \in MIds /\ k.of \in MissionRecs /\ sessions'[k.of.sess] # "free" /\ Real(k.of)'
    BY <1>4 DEF CopyInv
  <2>1. k.id \in MIds /\ k.of \in MissionRecs /\ sessions[k.of.sess] # "free" /\ Real(k.of)
    BY DEF CopyInv
  <2> QED
    BY <2>1, <1>m, <1>s, <1>j, RealStays DEF SessionsMoveOn
<1>6. Apart'
  BY <1>4 DEF Apart
<1>7. Unheld'
  BY <1>3, <1>4 DEF Unheld, CopyInv
<1>8. Owned'
  BY <1>3, <1>4 DEF Owned
<1>9. IndexInv' /\ NothingToLose'
  BY DEF IndexInv, IndexFindsMissions, NothingToLose, Ids
<1>10. NoLeakedSession'
  <2> SUFFICES ASSUME NEW x \in Sess, sessions'[x] = "open"
               PROVE  x \in served' \/ \E d \in Calls : call'[d].sess = x /\ call'[d].at # "failed"
    BY DEF NoLeakedSession
  <2>1. CASE x = s
    BY <2>1, <1>3
  <2>2. CASE x # s
    <3>1. sessions[x] = "open"
      BY <2>2
    <3>2. call[c].sess # x
      BY IdleParts DEF CallInv
    <3> QED
      BY <1>3, <3>1, <3>2 DEF NoLeakedSession
  <2> QED
    BY <2>1, <2>2
<1>11. MissionTypes'
  BY <1>2, <1>s DEF Ids
<1> QED
  BY <1>11, <1>2, <1>5, <1>6, <1>7, <1>8, <1>9, <1>10

LEMMA CreateSession_Inv ==
  ASSUME MissionInv, NEW c \in Calls, NEW s \in Sess, CreateSession(c, s) PROVE MissionInv'
<1> DEFINE r == [Idle EXCEPT !.at = "create", !.sess = s]
<1>1. r \in CallRecs /\ r.at = "create" /\ r.sess = s
  BY IdleParts DEF CallRecs, CallSteps, Idle
<1>2. call' = [call EXCEPT ![c] = r]
  BY DEF CreateSession
<1> HIDE DEF r
<1> QED
  BY <1>1, <1>2, OpensSession DEF CreateSession

LEMMA ResumeLook_Inv ==
  ASSUME MissionInv, NEW c \in Calls, NEW id \in MIds, NEW s \in Sess, ResumeLook(c, id, s)
  PROVE  MissionInv'
<1> DEFINE r == [Idle EXCEPT !.at = "resume", !.id = id, !.sess = s]
<1>1. r \in CallRecs /\ r.at = "resume" /\ r.sess = s /\ r.id = id
  BY IdleParts DEF CallRecs, CallSteps, Idle
<1>2. call' = [call EXCEPT ![c] = r]
  BY DEF ResumeLook
<1> HIDE DEF r
<1> QED
  BY <1>1, <1>2, OpensSession DEF ResumeLook

\* What a call does to the pool of sessions it may have to close.
LEMMA StillToClose ==
  ASSUME NoLeakedSession, MissionTypes, NEW c \in Calls, NEW r, call' = [call EXCEPT ![c] = r],
         \/ r.sess = call[c].sess /\ r.at # "failed"
         \/ call[c].sess \in served' \cup {NoSess},
         served \subseteq served', UNCHANGED sessions
  PROVE  NoLeakedSession'
<1>1. \A d \in Calls : call'[d] = IF d = c THEN r ELSE call[d]
  BY DEF MissionTypes
<1>2. \A s \in Sess : s # NoSess
  BY IdleParts
<1> QED
  BY <1>1, <1>2 DEF NoLeakedSession

\* A call gives up, and keeps its session to close it.
LEMMA AbortEffect ==
  ASSUME MissionInv, NEW c \in Calls, call[c].at \in {"create", "created", "resume", "resumed"},
         Abort(c), UNCHANGED <<sessions, served>>
  PROVE  /\ CallInv' /\ call' \in [Calls -> CallRecs] /\ NoLeakedSession' /\ CallsCalm /\ SessionsMoveOn
         /\ \A d \in Calls : call'[d].at \in {"resumed", "updated"} => call'[d] = call[d]
<1> USE DEF MissionInv
<1> DEFINE r == [call[c] EXCEPT !.at = "closing"]
<1>1. r \in CallRecs /\ r.at = "closing" /\ r.sess = call[c].sess /\ call[c].sess \in Sess
  BY DEF MissionTypes, CallRecs, CallSteps, CallInv
<1>2. call' = [call EXCEPT ![c] = r]
  BY DEF Abort
<1>3. SessionsMoveOn /\ sessions'[call[c].sess] # "free"
  BY <1>1 DEF SessionsMoveOn, CallInv
<1> HIDE DEF r
<1>4. CallInv' /\ call' \in [Calls -> CallRecs]
  BY <1>1, <1>2, <1>3, CallMoves
<1>5. NoLeakedSession'
  BY <1>1, <1>2, StillToClose
<1>6. \A d \in Calls : call'[d] = IF d = c THEN r ELSE call[d]
  BY <1>2 DEF MissionTypes
<1> QED
  BY <1>1, <1>3, <1>4, <1>5, <1>6 DEF CallsCalm

\* A call returns, with its session handed over or without one.
LEMMA ReturnEffect ==
  ASSUME MissionInv, NEW c \in Calls, NEW reply \in {"failed", "ok"}, Return(c, reply),
         UNCHANGED sessions, served \subseteq served', call[c].sess \in served' \cup {NoSess}
  PROVE  /\ CallInv' /\ call' \in [Calls -> CallRecs] /\ NoLeakedSession' /\ CallsCalm /\ SessionsMoveOn
         /\ \A d \in Calls : call'[d].at \in {"resumed", "updated"} => call'[d] = call[d]
<1> USE DEF MissionInv
<1> DEFINE r == [Idle EXCEPT !.at = reply]
<1>1. r \in CallRecs /\ r.at = reply /\ r.sess = NoSess
  BY IdleParts DEF CallRecs, CallSteps, Idle
<1>2. call' = [call EXCEPT ![c] = r]
  BY DEF Return
<1>3. SessionsMoveOn
  BY DEF SessionsMoveOn
<1> HIDE DEF r
<1>4. CallInv' /\ call' \in [Calls -> CallRecs]
  BY <1>1, <1>2, <1>3, IdleParts, CallMoves
<1>5. NoLeakedSession'
  BY <1>1, <1>2, StillToClose
<1>6. \A d \in Calls : call'[d] = IF d = c THEN r ELSE call[d]
  BY <1>2 DEF MissionTypes
<1> QED
  BY <1>1, <1>3, <1>4, <1>5, <1>6 DEF CallsCalm

\* pruneLocked takes missions away and changes none.
LEMMA PrunedOnly ==
  \A kept \in Pruned : DOMAIN kept \subseteq Ids /\ \A id \in DOMAIN kept : kept[id] = missions[id]
BY DEF Pruned, Without, Ids

LEMMA SessTypes ==
  ASSUME MissionInv
  PROVE  /\ \A id \in Ids : missions[id] \in MissionRecs
         /\ \A id \in DOMAIN disk : disk[id] \in MissionRecs
         /\ \A m \in MissionRecs : m.sess \in Sess
         /\ \A id, x \in Ids : missions[id].sess = missions[x].sess => id = x
         /\ \A id, x \in DOMAIN disk : disk[id].sess = disk[x].sess => id = x
<1>1. \A id \in Ids : Kept(id, missions[id]) \in Copies
  BY CopyPlaces
<1>2. \A id \in DOMAIN disk : Kept(id, disk[id]) \in Copies
  BY CopyPlaces
<1>3. \A k \in Copies : k.of \in MissionRecs
  BY DEF MissionInv, CopyInv
<1>4. \A k, l \in Copies : k.of.sess = l.of.sess => k.id = l.id
  BY DEF MissionInv, Apart
<1>5. \A m \in MissionRecs : m.sess \in Sess
  BY DEF MissionRecs
<1>6. \A id, m : Kept(id, m).id = id /\ Kept(id, m).of = m
  BY KeptParts
<1> QED
  BY <1>1, <1>2, <1>3, <1>4, <1>5, <1>6

LEMMA PrunedIndex ==
  ASSUME MissionInv, NEW kept \in Pruned, NEW index,
         index = [x \in Sess |-> IF \E out \in Ids \ DOMAIN kept : missions[out].sess = x
                                 THEN NoMission ELSE bySess[x]]
  PROVE  /\ index \in [Sess -> MIds \cup {NoMission}]
         /\ \A id \in DOMAIN kept : kept[id].status \notin Finished => index[kept[id].sess] = id
         /\ \A s \in Sess : /\ index[s] \in DOMAIN kept \cup {NoMission}
                            /\ index[s] \in DOMAIN kept => kept[index[s]].sess = s
<1> USE DEF MissionInv, MissionTypes
<1>1. \A s \in Sess : bySess[s] \in Ids \cup {NoMission} /\ (bySess[s] \in Ids => missions[bySess[s]].sess = s)
  BY DEF IndexInv, IndexFindsMissions
<1>2. \A id \in Ids : missions[id].status \notin Finished => bySess[missions[id].sess] = id
  BY DEF IndexInv, IndexFindsMissions
<1>3. \A s \in Sess : index[s] \in DOMAIN kept \cup {NoMission}
  BY <1>1
<1>4. \A s \in Sess : index[s] \in DOMAIN kept => kept[index[s]].sess = s
  BY <1>1, IdleParts, PrunedOnly
<1>5. \A id \in DOMAIN kept : kept[id].status \notin Finished => index[kept[id].sess] = id
  BY <1>2, PrunedOnly, SessTypes
<1>6. index \in [Sess -> MIds \cup {NoMission}]
  OBVIOUS
<1> QED
  BY <1>3, <1>4, <1>5, <1>6

LEMMA CreateCommit_Inv ==
  ASSUME MissionInv, NEW c \in Calls, NEW id \in MIds, CreateCommit(c, id)
  PROVE  MissionInv'
<1> USE DEF MissionInv
<1>x. PICK s : s = call[c].sess
  OBVIOUS
<1>y. PICK m : m = NewMission(s)
  OBVIOUS
<1> DEFINE Index0(kept) == [x \in Sess |-> IF \E out \in Ids \ DOMAIN kept : missions[out].sess = x
                                           THEN NoMission ELSE bySess[x]]
<1>0. /\ call[c].at = "create" /\ UNCHANGED <<sessions, jobs, served>>
      /\ id \notin Ids /\ id \notin DOMAIN disk /\ \A x \in Calls : call[x].id # id
  BY DEF CreateCommit
<1>p. PICK kept \in Pruned :
        \/ /\ Abort(c)
           /\ UNCHANGED <<missions, bySess, disk, writeFaults>>
        \/ /\ Persists(With(kept, id, m))
           /\ missions' = With(kept, id, m) /\ bySess' = [Index0(kept) EXCEPT ![s] = id]
           /\ call' = [call EXCEPT ![c].at = "created", ![c].id = id]
        \/ /\ PersistFails
           /\ missions' = kept /\ bySess' = Index0(kept)
           /\ Abort(c)
  BY <1>x, <1>y DEF CreateCommit
<1>j. JobsMoveOn /\ UNCHANGED <<sessions, jobs, served>>
  BY <1>0 DEF JobsMoveOn
<1>k. DOMAIN kept \subseteq Ids /\ \A x \in DOMAIN kept : kept[x] = missions[x]
  BY PrunedOnly
<1>i. /\ Index0(kept) \in [Sess -> MIds \cup {NoMission}]
      /\ \A x \in DOMAIN kept : kept[x].status \notin Finished => Index0(kept)[kept[x].sess] = x
      /\ \A x \in Sess : /\ Index0(kept)[x] \in DOMAIN kept \cup {NoMission}
                         /\ Index0(kept)[x] \in DOMAIN kept => kept[Index0(kept)[x]].sess = x
  BY PrunedIndex
<1>a. ASSUME Abort(c)
      PROVE  /\ CallInv' /\ call' \in [Calls -> CallRecs] /\ NoLeakedSession' /\ CallsCalm /\ SessionsMoveOn
             /\ \A d \in Calls : call'[d].at \in {"resumed", "updated"} => call'[d] = call[d]
  BY <1>a, <1>0, AbortEffect
<1> HIDE DEF Index0
<1>1. CASE Abort(c) /\ UNCHANGED <<missions, bySess, disk, writeFaults>>
  <2>1. Copies' \subseteq Copies
    BY <1>1, <1>a, CopyPlaces, NextCopyPlaces DEF Ids
  <2>2. CopyInv' /\ Apart' /\ Unheld' /\ Owned'
    BY <1>1, <1>a, <1>j, <2>1, NoNewCopy
  <2>3. MissionTypes' /\ IndexInv' /\ NothingToLose'
    BY <1>1, <1>a, <1>j DEF MissionTypes, IndexInv, IndexFindsMissions, NothingToLose, Ids
  <2> QED
    BY <1>1, <1>a, <2>2, <2>3
<1>2. CASE /\ PersistFails
           /\ missions' = kept /\ bySess' = Index0(kept)
           /\ Abort(c)
  <2>1. Copies' \subseteq Copies
    BY <1>2, <1>a, <1>k, CopyPlaces, NextCopyPlaces DEF PersistFails
  <2>2. CopyInv' /\ Apart' /\ Unheld' /\ Owned'
    BY <1>2, <1>a, <1>j, <2>1, NoNewCopy
  <2>3. MissionTypes'
    BY <1>2, <1>a, <1>j, <1>k, <1>i DEF MissionTypes, Ids, PersistFails
  <2>4. IndexInv'
    BY <1>2, <1>i DEF IndexInv, IndexFindsMissions, Ids
  <2>5. NothingToLose'
    BY <1>2 DEF NothingToLose, PersistFails, MissionTypes
  <2> QED
    BY <1>2, <1>a, <2>2, <2>3, <2>4, <2>5
<1>3. CASE /\ Persists(With(kept, id, m))
           /\ missions' = With(kept, id, m) /\ bySess' = [Index0(kept) EXCEPT ![s] = id]
           /\ call' = [call EXCEPT ![c].at = "created", ![c].id = id]
  <2> DEFINE r == [call[c] EXCEPT !.at = "created", !.id = id]
  <2>s. s \in Sess /\ sessions[s] # "free"
    BY <1>0, <1>x DEF CallInv
  <2>1. r \in CallRecs /\ r.at = "created" /\ r.sess = s /\ r.id = id
    BY <1>x DEF MissionTypes, CallRecs, CallSteps
  <2>2. call' = [call EXCEPT ![c] = r]
    BY <1>3
  <2> HIDE DEF r
  <2>3. SessionsMoveOn
    BY <1>j DEF SessionsMoveOn
  <2>4. CallInv' /\ call' \in [Calls -> CallRecs]
    BY <1>j, <1>x, <2>1, <2>2, <2>3, <2>s, CallMoves
  <2>5. NoLeakedSession'
    BY <1>j, <1>x, <2>1, <2>2, StillToClose
  <2>6. \A d \in Calls : call'[d] = IF d = c THEN r ELSE call[d]
    BY <2>2 DEF MissionTypes
  <2>m. m \in MissionRecs /\ m.sess = s /\ m.status = "planned" /\ Real(m)'
    BY <1>y, <2>s DEF NewMission, MissionRecs, Statuses, StepRecs, StepNames, Real
  <2>7. /\ DOMAIN missions' = DOMAIN kept \cup {id} /\ disk' = missions' /\ UNCHANGED writeFaults
        /\ missions'[id] = m /\ \A x \in DOMAIN kept : missions'[x] = missions[x]
    BY <1>3, <1>k, <1>0 DEF With, Persists
  <2>8. \A k \in Copies : k.id # id /\ k.of.sess # s
    <3>1. \A k \in Copies : k.id # id
      BY <1>0, CopyPlaces, KeptParts
    <3> QED
      BY <1>0, <1>x, <3>1 DEF Unheld
  <2>9. Copies' \subseteq Copies \cup {Kept(id, m)}
    BY <1>k, <2>1, <2>6, <2>7, CopyPlaces, NextCopyPlaces
  <2>10. CopyInv'
    <3> SUFFICES ASSUME NEW k \in Copies'
                 PROVE  k.id \in MIds /\ k.of \in MissionRecs /\ sessions'[k.of.sess] # "free" /\ Real(k.of)'
      BY DEF CopyInv
    <3>1. CASE k \in Copies
      BY <3>1, <1>j, RealStays DEF CopyInv
    <3>2. CASE k = Kept(id, m)
      BY <3>2, <1>j, <2>m, <2>s, KeptParts
    <3> QED
      BY <2>9, <3>1, <3>2
  <2>11. Apart'
    BY <2>8, <2>9, <2>m, KeptParts DEF Apart
  <2>12. \A d \in Calls \ {c} : call[d].sess # s
    BY <1>x, <2>s, IdleParts DEF CallInv
  <2>13. Unheld'
    BY <2>1, <2>6, <2>9, <2>m, <2>12, KeptParts DEF Unheld
  <2>14. Owned'
    <3> SUFFICES ASSUME NEW d \in Calls, call'[d].at = "created", NEW k \in Copies'
                 PROVE  /\ k.of.sess = call'[d].sess <=> k.id = call'[d].id
                        /\ k.id = call'[d].id => k.of.status # "interrupted"
      BY DEF Owned
    <3>1. CASE d = c
      BY <3>1, <2>1, <2>6, <2>8, <2>9, <2>m, KeptParts
    <3>2. CASE d # c /\ k \in Copies
      BY <3>2, <2>6 DEF Owned
    <3>3. CASE d # c /\ k = Kept(id, m)
      BY <3>3, <1>0, <2>6, <2>12, <2>m, KeptParts
    <3> QED
      BY <3>1, <3>2, <3>3, <2>9
  <2>15. bySess' \in [Sess -> MIds \cup {NoMission}] /\ bySess'[s] = id
         /\ \A x \in Sess \ {s} : bySess'[x] = Index0(kept)[x]
    BY <1>3, <1>i, <2>s
  <2>16. MissionTypes'
    BY <1>j, <1>k, <2>4, <2>7, <2>15 DEF MissionTypes, Ids
  <2>17. \A x \in DOMAIN kept : missions[x].sess # s
    BY <1>k, <2>8, CopyPlaces, KeptParts
  <2>18. IndexInv'
    <3>1. \A x \in DOMAIN missions' : missions'[x].status \notin Finished => bySess'[missions'[x].sess] = x
      BY <1>i, <1>k, <2>7, <2>15, <2>17, <2>m, SessTypes
    <3>2. \A x \in Sess : bySess'[x] \in DOMAIN missions' \cup {NoMission}
      BY <1>i, <2>7, <2>15
    <3>3. \A x \in Sess : bySess'[x] \in DOMAIN missions' => missions'[bySess'[x]].sess = x
      BY <1>0, <1>i, <1>k, <2>7, <2>15, <2>m, IdleParts
    <3> QED
      BY <3>1, <3>2, <3>3 DEF IndexInv, IndexFindsMissions, Ids
  <2>19. NothingToLose'
    BY <2>7 DEF NothingToLose
  <2> QED
    BY <2>4, <2>5, <2>10, <2>11, <2>13, <2>14, <2>16, <2>18, <2>19
<1> QED
  BY <1>p, <1>1, <1>2, <1>3 DEF Index0

LEMMA CreateUndo_Inv ==
  ASSUME MissionInv, NEW c \in Calls, CreateUndo(c)
  PROVE  MissionInv'
<1> USE DEF MissionInv
<1>x. PICK id, s : id = call[c].id /\ s = call[c].sess
  OBVIOUS
<1>0. /\ call[c].at = "created" /\ Abort(c) /\ UNCHANGED <<sessions, jobs, served>>
      /\ missions' = Without(missions, id) /\ PersistMay(missions')
      /\ bySess' = [bySess EXCEPT ![s] = NoMission]
  BY <1>x DEF CreateUndo
<1>s. s \in Sess
  BY <1>0, <1>x DEF CallInv
<1>j. JobsMoveOn
  BY <1>0 DEF JobsMoveOn
<1>a. /\ CallInv' /\ call' \in [Calls -> CallRecs] /\ NoLeakedSession' /\ CallsCalm /\ SessionsMoveOn
      /\ \A d \in Calls : call'[d].at \in {"resumed", "updated"} => call'[d] = call[d]
  BY <1>0, AbortEffect
<1>1. DOMAIN missions' = Ids \ {id} /\ \A x \in DOMAIN missions' : missions'[x] = missions[x]
  BY <1>0 DEF Without, Ids
<1>2. \/ disk' = missions' /\ UNCHANGED writeFaults
      \/ UNCHANGED disk /\ writeFaults' = writeFaults + 1
  BY <1>0 DEF PersistMay, Persists, PersistFails
<1>3. Copies' \subseteq Copies
  BY <1>a, <1>1, <1>2, CopyPlaces, NextCopyPlaces
<1>4. CopyInv' /\ Apart' /\ Unheld' /\ Owned'
  BY <1>a, <1>j, <1>3, NoNewCopy
<1>5. MissionTypes'
  <2>1. bySess' \in [Sess -> MIds \cup {NoMission}]
    BY <1>0 DEF MissionTypes
  <2>2. DOMAIN missions' \subseteq MIds /\ DOMAIN disk' \subseteq MIds
    BY <1>1, <1>2 DEF MissionTypes, Ids
  <2>3. writeFaults' \in Nat
    BY <1>2 DEF MissionTypes
  <2> QED
    BY <1>0, <1>a, <2>1, <2>2, <2>3 DEF MissionTypes, Ids
<1>6. \A x \in Ids : missions[x].sess = s <=> x = id
  <2>1. \A k \in Copies : k.of.sess = s <=> k.id = id
    BY <1>0, <1>x DEF Owned
  <2> QED
    BY <2>1, CopyPlaces, KeptParts
<1>7. \A x \in Sess : bySess'[x] = IF x = s THEN NoMission ELSE bySess[x]
  BY <1>0 DEF MissionTypes
<1>8. IndexInv'
  <2>1. \A x \in DOMAIN missions' : missions'[x].status \notin Finished => bySess'[missions'[x].sess] = x
    BY <1>1, <1>6, <1>7, SessTypes DEF IndexInv, IndexFindsMissions
  <2>2. \A x \in Sess : bySess[x] = id => x = s
    BY <1>6, IdleParts, <1>x, <1>0 DEF IndexInv, IndexFindsMissions, CallInv
  <2>3. \A x \in Sess : bySess'[x] \in DOMAIN missions' \cup {NoMission}
    BY <1>1, <1>7, <2>2 DEF IndexInv
  <2>4. \A x \in Sess : bySess'[x] \in DOMAIN missions' => missions'[bySess'[x]].sess = x
    BY <1>1, <1>7, IdleParts DEF IndexInv, IndexFindsMissions, MissionTypes
  <2> QED
    BY <2>1, <2>3, <2>4 DEF IndexInv, IndexFindsMissions, Ids
<1>9. NothingToLose'
  BY <1>2 DEF NothingToLose, MissionTypes
<1> QED
  BY <1>a, <1>4, <1>5, <1>8, <1>9

\* What is true of a mission stays true when its status moves on.
LEMMA RealOf ==
  ASSUME NEW m, NEW n, Real(m)', n.steps = m.steps, m.attempts \subseteq n.attempts,
         n.status # "succeeded" \/ n.status = m.status
  PROVE  Real(n)'
BY DEF Real, Evidence

LEMMA ResumeCommit_Inv ==
  ASSUME MissionInv, NEW c \in Calls, ResumeCommit(c)
  PROVE  MissionInv'
<1> USE DEF MissionInv
<1>x. PICK id, s : id = call[c].id /\ s = call[c].sess
  OBVIOUS
<1>m. PICK m : m = missions[id]
  OBVIOUS
<1>0. call[c].at = "resume" /\ UNCHANGED <<sessions, jobs, served>>
  BY DEF ResumeCommit
<1>s. s \in Sess /\ id \in MIds /\ sessions[s] # "free"
  BY <1>0, <1>x DEF CallInv
<1>j. JobsMoveOn
  BY <1>0 DEF JobsMoveOn
<1>a. ASSUME Abort(c)
      PROVE  /\ CallInv' /\ call' \in [Calls -> CallRecs] /\ NoLeakedSession' /\ CallsCalm /\ SessionsMoveOn
             /\ \A d \in Calls : call'[d].at \in {"resumed", "updated"} => call'[d] = call[d]
  BY <1>a, <1>0, AbortEffect
<1>p. \/ Abort(c) /\ UNCHANGED <<missions, bySess, disk, writeFaults>>
      \/ Abort(c) /\ UNCHANGED missions /\ bySess' = Index(missions) /\ PersistFails
      \/ /\ id \in Ids /\ m.status = "interrupted"
         /\ missions' = With(missions, id, Resumed(m, s)) /\ Persists(missions')
         /\ bySess' = [bySess EXCEPT ![m.sess] = NoMission, ![s] = id]
         /\ call' = [call EXCEPT ![c].at = "resumed", ![c].before = m]
  BY <1>x, <1>m DEF ResumeCommit
<1>1. CASE Abort(c) /\ UNCHANGED <<missions, bySess, disk, writeFaults>>
  <2>1. Copies' \subseteq Copies
    BY <1>1, <1>a, CopyPlaces, NextCopyPlaces DEF Ids
  <2>2. CopyInv' /\ Apart' /\ Unheld' /\ Owned'
    BY <1>1, <1>a, <1>j, <2>1, NoNewCopy
  <2>3. MissionTypes' /\ IndexInv' /\ NothingToLose'
    BY <1>0, <1>1, <1>a DEF MissionTypes, IndexInv, IndexFindsMissions, NothingToLose, Ids
  <2> QED
    BY <1>1, <1>a, <2>2, <2>3
<1>2. CASE Abort(c) /\ UNCHANGED missions /\ bySess' = Index(missions) /\ PersistFails
  <2>1. Copies' \subseteq Copies
    BY <1>2, <1>a, CopyPlaces, NextCopyPlaces DEF Ids, PersistFails
  <2>2. CopyInv' /\ Apart' /\ Unheld' /\ Owned'
    BY <1>2, <1>a, <1>j, <2>1, NoNewCopy
  <2>3. /\ bySess' \in [Sess -> MIds \cup {NoMission}]
        /\ \A x \in Ids : missions[x].status \notin Finished => bySess'[missions[x].sess] = x
        /\ \A x \in Sess : /\ bySess'[x] \in Ids \cup {NoMission}
                           /\ bySess'[x] \in Ids => missions[bySess'[x]].sess = x
    BY <1>2, Reindexed, SessTypes DEF Ids, MissionTypes
  <2>4. MissionTypes' /\ IndexInv' /\ NothingToLose'
    BY <1>0, <1>2, <1>a, <2>3
       DEF MissionTypes, IndexInv, IndexFindsMissions, NothingToLose, Ids, PersistFails
  <2> QED
    BY <1>2, <1>a, <2>2, <2>4
<1>3. CASE /\ id \in Ids /\ m.status = "interrupted"
           /\ missions' = With(missions, id, Resumed(m, s)) /\ Persists(missions')
           /\ bySess' = [bySess EXCEPT ![m.sess] = NoMission, ![s] = id]
           /\ call' = [call EXCEPT ![c].at = "resumed", ![c].before = m]
  <2>m. m \in MissionRecs /\ Real(m) /\ Kept(id, m) \in Copies /\ m.sess \in Sess
    BY <1>3, <1>m, CopyPlaces, KeptParts, SessTypes DEF CopyInv
  <2>n. PICK n : n = Resumed(m, s)
    OBVIOUS
  <2>o. n \in MissionRecs /\ n.sess = s /\ n.status = "running" /\ Real(n)'
    <3>1. /\ n \in MissionRecs /\ n.sess = s /\ n.status = "running"
          /\ n.steps = m.steps /\ m.attempts \subseteq n.attempts
      BY <1>s, <2>m, <2>n DEF Resumed, MissionRecs, Statuses
    <3> QED
      BY <1>j, <2>m, <3>1, RealStays, RealOf
  <2> DEFINE r == [call[c] EXCEPT !.at = "resumed", !.before = m]
  <2>1. r \in CallRecs /\ r.at = "resumed" /\ r.sess = s /\ r.id = id /\ r.before = m
    BY <1>x, <2>m DEF MissionTypes, CallRecs, CallSteps
  <2>2. call' = [call EXCEPT ![c] = r]
    BY <1>3
  <2> HIDE DEF r
  <2>3. SessionsMoveOn
    BY <1>0 DEF SessionsMoveOn
  <2>4. CallInv' /\ call' \in [Calls -> CallRecs]
    BY <1>0, <1>s, <1>x, <2>1, <2>2, <2>3, CallMoves
  <2>5. NoLeakedSession'
    BY <1>0, <1>x, <2>1, <2>2, StillToClose
  <2>6. \A d \in Calls : call'[d] = IF d = c THEN r ELSE call[d]
    BY <2>2 DEF MissionTypes
  <2>7. /\ DOMAIN missions' = Ids /\ disk' = missions' /\ UNCHANGED writeFaults
        /\ missions'[id] = n /\ \A x \in Ids \ {id} : missions'[x] = missions[x]
    BY <1>3, <2>n DEF With, Persists, Ids
  <2>8. \A k \in Copies : k.of.sess # s
    BY <1>0, <1>x DEF Unheld
  <2>9. Copies' \subseteq Copies \cup {Kept(id, n)}
    BY <2>1, <2>6, <2>7, <2>m, CopyPlaces, NextCopyPlaces
  <2>10. CopyInv'
    <3> SUFFICES ASSUME NEW k \in Copies'
                 PROVE  k.id \in MIds /\ k.of \in MissionRecs /\ sessions'[k.of.sess] # "free" /\ Real(k.of)'
      BY DEF CopyInv
    <3>1. CASE k \in Copies
      BY <3>1, <1>0, <1>j, RealStays DEF CopyInv
    <3>2. CASE k = Kept(id, n)
      BY <3>2, <1>0, <1>s, <2>o, KeptParts
    <3> QED
      BY <2>9, <3>1, <3>2
  <2>11. Apart'
    BY <2>8, <2>9, <2>o, KeptParts DEF Apart
  <2>12. \A d \in Calls \ {c} : call[d].sess # s
    BY <1>s, <1>x, IdleParts DEF CallInv
  <2>13. Unheld'
    BY <2>1, <2>6, <2>9, <2>o, <2>12, KeptParts DEF Unheld
  <2>14. \A d \in Calls : call[d].at = "created" => call[d].id # id
    BY <1>3, <2>m, KeptParts DEF Owned
  <2>15. Owned'
    <3> SUFFICES ASSUME NEW d \in Calls, call'[d].at = "created", NEW k \in Copies'
                 PROVE  /\ k.of.sess = call'[d].sess <=> k.id = call'[d].id
                        /\ k.id = call'[d].id => k.of.status # "interrupted"
      BY DEF Owned
    <3>1. d # c /\ call'[d] = call[d]
      BY <2>1, <2>6
    <3>2. CASE k \in Copies
      BY <3>1, <3>2 DEF Owned
    <3>3. CASE k = Kept(id, n)
      BY <3>1, <3>3, <2>12, <2>14, <2>o, KeptParts
    <3> QED
      BY <3>2, <3>3, <2>9
  <2>16. m.sess # s
    BY <2>8, <2>m, KeptParts
  <2>17. bySess' \in [Sess -> MIds \cup {NoMission}] /\ bySess'[s] = id /\ bySess'[m.sess] = NoMission
         /\ \A x \in Sess \ {s, m.sess} : bySess'[x] = bySess[x]
    BY <1>3, <1>s, <2>m, <2>16 DEF MissionTypes
  <2>18. MissionTypes'
    BY <1>0, <2>4, <2>7, <2>17 DEF MissionTypes, Ids
  <2>19. \A x \in Ids \ {id} : missions[x].sess # s /\ missions[x].sess # m.sess
    BY <1>3, <1>m, <2>8, CopyPlaces, KeptParts, SessTypes
  <2>20. IndexInv'
    <3>1. \A x \in DOMAIN missions' : missions'[x].status \notin Finished => bySess'[missions'[x].sess] = x
      BY <2>7, <2>17, <2>19, <2>o, SessTypes DEF IndexInv, IndexFindsMissions
    <3>2. \A x \in Sess : bySess'[x] \in DOMAIN missions' \cup {NoMission}
      BY <1>3, <2>7, <2>17 DEF IndexInv
    <3>3. bySess[m.sess] = id
      BY <1>3, <1>m DEF IndexInv, IndexFindsMissions, Finished
    <3>4. \A x \in Sess \ {s, m.sess} : bySess[x] # id
      BY <1>3, <1>m DEF IndexInv, IndexFindsMissions
    <3>5. \A x \in Sess : bySess'[x] \in DOMAIN missions' => missions'[bySess'[x]].sess = x
      BY <2>7, <2>17, <2>o, <3>4, IdleParts DEF IndexInv, IndexFindsMissions, MissionTypes
    <3> QED
      BY <3>1, <3>2, <3>5 DEF IndexInv, IndexFindsMissions, Ids
  <2>21. NothingToLose'
    BY <2>7 DEF NothingToLose
  <2> QED
    BY <2>4, <2>5, <2>10, <2>11, <2>13, <2>15, <2>18, <2>20, <2>21
<1> QED
  BY <1>p, <1>1, <1>2, <1>3

\* Restore puts a copy back, and indexes and writes what it then has.
LEMMA RestoreEffect ==
  ASSUME MissionInv, NEW c \in Calls, call[c].at \in {"resumed", "updated"}, Restore(c)
  PROVE  /\ \A id \in DOMAIN missions' : Kept(id, missions'[id]) \in Copies
         /\ \A id \in DOMAIN disk' : Kept(id, disk'[id]) \in Copies
         /\ DOMAIN missions' \subseteq MIds /\ DOMAIN disk' \subseteq MIds
         /\ bySess' \in [Sess -> MIds \cup {NoMission}] /\ writeFaults' \in Nat
         /\ IndexInv' /\ NothingToLose'
<1> USE DEF MissionInv
<1>x. PICK id, m : id = call[c].id /\ m = call[c].before
  OBVIOUS
<1>0. /\ missions' = With(missions, id, m) /\ bySess' = Index(missions') /\ PersistMay(missions')
  BY <1>x DEF Restore
<1>1. Kept(id, m) \in Copies /\ id \in MIds
  BY <1>x, CopyPlaces DEF CallInv
<1>2. /\ DOMAIN missions' = Ids \cup {id} /\ missions'[id] = m
      /\ \A x \in Ids \ {id} : missions'[x] = missions[x]
  BY <1>0 DEF With, Ids
<1>3. \/ disk' = missions' /\ UNCHANGED writeFaults
      \/ UNCHANGED disk /\ writeFaults' = writeFaults + 1
  BY <1>0 DEF PersistMay, Persists, PersistFails
<1>4. \A x \in DOMAIN missions' : Kept(x, missions'[x]) \in Copies
  BY <1>1, <1>2, CopyPlaces
<1>5. \A x \in DOMAIN disk' : Kept(x, disk'[x]) \in Copies
  BY <1>3, <1>4, CopyPlaces
<1>6. DOMAIN missions' \subseteq MIds /\ DOMAIN disk' \subseteq MIds /\ writeFaults' \in Nat
  BY <1>1, <1>2, <1>3 DEF MissionTypes
<1>7. \A k \in Copies : k.of.sess \in Sess
  BY DEF CopyInv, MissionRecs
<1>8. \A x \in DOMAIN missions' : missions'[x].sess \in Sess
  BY <1>4, <1>7, KeptParts
<1>9. \A x, y \in DOMAIN missions' : missions'[x].sess = missions'[y].sess => x = y
  BY <1>4, KeptParts DEF Apart
<1>10. /\ bySess' \in [Sess -> MIds \cup {NoMission}]
       /\ \A x \in DOMAIN missions' : missions'[x].status \notin Finished => bySess'[missions'[x].sess] = x
       /\ \A x \in Sess : /\ bySess'[x] \in DOMAIN missions' \cup {NoMission}
                          /\ bySess'[x] \in DOMAIN missions' => missions'[bySess'[x]].sess = x
  <2>1. PICK ms : ms = missions'
    OBVIOUS
  <2>2. /\ Index(ms) \in [Sess -> MIds \cup {NoMission}]
        /\ \A x \in DOMAIN ms : ms[x].status \notin Finished => Index(ms)[ms[x].sess] = x
        /\ \A x \in Sess : /\ Index(ms)[x] \in DOMAIN ms \cup {NoMission}
                           /\ Index(ms)[x] \in DOMAIN ms => ms[Index(ms)[x]].sess = x
    BY <1>6, <1>8, <1>9, <2>1, Reindexed
  <2>3. bySess' = Index(ms)
    BY <1>0, <2>1
  <2> QED
    BY <2>1, <2>2, <2>3
<1>11. IndexInv'
  BY <1>10 DEF IndexInv, IndexFindsMissions, Ids
<1>12. NothingToLose'
  BY <1>3 DEF NothingToLose, MissionTypes
<1> QED
  BY <1>4, <1>5, <1>6, <1>10, <1>11, <1>12

LEMMA ResumeUndo_Inv ==
  ASSUME MissionInv, NEW c \in Calls, ResumeUndo(c) PROVE MissionInv'
<1> USE DEF MissionInv
<1>0. call[c].at = "resumed" /\ Restore(c) /\ Abort(c) /\ UNCHANGED <<sessions, jobs, served>>
  BY DEF ResumeUndo
<1>1. /\ CallInv' /\ call' \in [Calls -> CallRecs] /\ NoLeakedSession' /\ CallsCalm /\ SessionsMoveOn
      /\ \A d \in Calls : call'[d].at \in {"resumed", "updated"} => call'[d] = call[d]
  BY <1>0, AbortEffect
<1>2. JobsMoveOn
  BY <1>0 DEF JobsMoveOn
<1>3. Copies' \subseteq Copies
  BY <1>0, <1>1, RestoreEffect, CopyPlaces, NextCopyPlaces
<1>4. CopyInv' /\ Apart' /\ Unheld' /\ Owned'
  BY <1>1, <1>2, <1>3, NoNewCopy
<1>5. MissionTypes'
  BY <1>0, <1>1, RestoreEffect DEF MissionTypes, Ids
<1> QED
  BY <1>0, <1>1, <1>4, <1>5, RestoreEffect

LEMMA UpdateUndo_Inv ==
  ASSUME MissionInv, NEW c \in Calls, UpdateUndo(c) PROVE MissionInv'
<1> USE DEF MissionInv
<1>0. /\ call[c].at = "updated" /\ Restore(c) /\ Return(c, "failed")
      /\ UNCHANGED <<sessions, jobs, served>> /\ call[c].sess = NoSess
  BY DEF UpdateUndo, CallInv
<1>1. /\ CallInv' /\ call' \in [Calls -> CallRecs] /\ NoLeakedSession' /\ CallsCalm /\ SessionsMoveOn
      /\ \A d \in Calls : call'[d].at \in {"resumed", "updated"} => call'[d] = call[d]
  BY <1>0, ReturnEffect
<1>2. JobsMoveOn
  BY <1>0 DEF JobsMoveOn
<1>3. Copies' \subseteq Copies
  BY <1>0, <1>1, RestoreEffect, CopyPlaces, NextCopyPlaces
<1>4. CopyInv' /\ Apart' /\ Unheld' /\ Owned'
  BY <1>1, <1>2, <1>3, NoNewCopy
<1>5. MissionTypes'
  BY <1>0, <1>1, RestoreEffect DEF MissionTypes, Ids
<1> QED
  BY <1>0, <1>1, <1>4, <1>5, RestoreEffect

LEMMA Emitted_Inv ==
  ASSUME MissionInv, NEW c \in Calls, Emitted(c) PROVE MissionInv'
<1> USE DEF MissionInv
<1>0. /\ Return(c, "ok") /\ served \subseteq served' /\ call[c].sess \in served' \cup {NoSess}
      /\ UNCHANGED <<missions, bySess, disk, writeFaults, sessions, jobs>>
  BY DEF Emitted
<1>1. /\ CallInv' /\ call' \in [Calls -> CallRecs] /\ NoLeakedSession' /\ CallsCalm /\ SessionsMoveOn
      /\ \A d \in Calls : call'[d].at \in {"resumed", "updated"} => call'[d] = call[d]
  BY <1>0, ReturnEffect
<1>2. JobsMoveOn
  BY <1>0 DEF JobsMoveOn
<1>3. Copies' \subseteq Copies
  BY <1>0, <1>1, CopyPlaces, NextCopyPlaces DEF Ids
<1>4. CopyInv' /\ Apart' /\ Unheld' /\ Owned'
  BY <1>1, <1>2, <1>3, NoNewCopy
<1>5. MissionTypes' /\ IndexInv' /\ NothingToLose'
  BY <1>0, <1>1 DEF MissionTypes, Ids, IndexInv, IndexFindsMissions, NothingToLose
<1> QED
  BY <1>1, <1>4, <1>5

LEMMA CloseSession_Inv ==
  ASSUME MissionInv, NEW c \in Calls, CloseSession(c) PROVE MissionInv'
<1> USE DEF MissionInv
<1>x. PICK s : s = call[c].sess
  OBVIOUS
<1>0. /\ call[c].at = "closing" /\ sessions' = [sessions EXCEPT ![s] = "closed"]
      /\ UNCHANGED <<missions, bySess, disk, writeFaults, served>>
  BY <1>x DEF CloseSession
<1>s. s \in Sess
  BY <1>0, <1>x DEF CallInv
<1>j. JobsMoveOn /\ jobs' \in [Jobs -> JobRecs]
  <2>1. jobs' = [j \in Jobs |-> IF jobs[j].sess = s /\ jobs[j].status = "live"
                               THEN [jobs[j] EXCEPT !.status = "orphaned"] ELSE jobs[j]]
    BY <1>x DEF CloseSession
  <2>2. \A j \in Jobs : jobs[j] \in JobRecs
    BY DEF MissionTypes
  <2>3. \A r \in JobRecs : r.status = "live" =>
           /\ [r EXCEPT !.status = "orphaned"] \in JobRecs
           /\ [r EXCEPT !.status = "orphaned"].sess = r.sess
           /\ [r EXCEPT !.status = "orphaned"].status = "orphaned"
    BY DEF JobRecs, JobOver
  <2> QED
    BY <2>1, <2>2, <2>3 DEF JobsMoveOn
<1>t. SessionsMoveOn /\ sessions' \in [Sess -> {"free", "open", "closed"}] /\ sessions'[s] = "closed"
  BY <1>0, <1>s DEF SessionsMoveOn, MissionTypes
<1> DEFINE r == [call[c] EXCEPT !.at = "failed"]
<1>1. r \in CallRecs /\ r.at = "failed" /\ r.sess = s
  BY <1>x DEF MissionTypes, CallRecs, CallSteps
<1>2. call' = [call EXCEPT ![c] = r]
  BY DEF CloseSession
<1> HIDE DEF r
<1>3. CallInv' /\ call' \in [Calls -> CallRecs]
  BY <1>1, <1>2, <1>t, <1>x, CallMoves
<1>4. \A d \in Calls : call'[d] = IF d = c THEN r ELSE call[d]
  BY <1>2 DEF MissionTypes
<1>5. CallsCalm
  BY <1>1, <1>4 DEF CallsCalm
<1>6. NoLeakedSession'
  <2>1. \A x \in Sess : sessions'[x] = "open" => x # s /\ sessions[x] = "open"
    BY <1>0, <1>t DEF MissionTypes
  <2> QED
    BY <1>0, <1>x, <1>4, <2>1 DEF NoLeakedSession
<1>7. Copies' \subseteq Copies
  BY <1>0, <1>1, <1>4, CopyPlaces, NextCopyPlaces DEF Ids
<1>8. CopyInv' /\ Apart' /\ Unheld' /\ Owned'
  BY <1>j, <1>t, <1>5, <1>7, NoNewCopy
<1>9. MissionTypes' /\ IndexInv' /\ NothingToLose'
  BY <1>0, <1>j, <1>t, <1>3 DEF MissionTypes, Ids, IndexInv, IndexFindsMissions, NothingToLose
<1> QED
  BY <1>3, <1>6, <1>8, <1>9

\* Every record an accepted update makes carries real evidence.
LEMMA UpdatesAreReal ==
  ASSUME NEW m \in MissionRecs, Real(m), m.status \notin Finished, NEW u \in Updates(m)
  PROVE  u \in MissionRecs /\ u.sess = m.sess /\ u.status \in {m.status} \cup Finished /\ Real(u)
<1>0. StepStatuses \subseteq StepNames
  BY MissionAssumption DEF StepNames
<1>1. ASSUME NEW v \in StepUpdates(m)
      PROVE  v \in MissionRecs /\ v.sess = m.sess /\ v.status = m.status /\ Real(v)
  <2>1. CASE v = m
    BY <2>1
  <2>2. ASSUME NEW p \in Steps, NEW r \in [status : StepStatuses, job : Jobs \cup {NoJob}],
               StepAllowed(m, r.status, r.job), v = [m EXCEPT !.steps[p] = r]
        PROVE  v \in MissionRecs /\ v.sess = m.sess /\ v.status = m.status /\ Real(v)
    <3>1. r \in StepRecs
      BY <1>0 DEF StepRecs
    <3>2. m.steps \in [Steps -> StepRecs]
      BY DEF MissionRecs
    <3>3. /\ v \in MissionRecs /\ v.sess = m.sess /\ v.status = m.status /\ v.attempts = m.attempts
          /\ v.steps = [m.steps EXCEPT ![p] = r]
      BY <2>2, <3>1, <3>2 DEF MissionRecs
    <3>4. \A q \in Steps : v.steps[q] = IF q = p THEN r ELSE m.steps[q]
      BY <3>2, <3>3
    <3>5. r.status = "passed" => Evidence(m, r.job) /\ jobs[r.job].status = "exited0"
      BY <2>2 DEF StepAllowed
    <3>6. \A q \in Steps : v.steps[q].status = "passed" =>
             Evidence(m, v.steps[q].job) /\ jobs[v.steps[q].job].status = "exited0"
      BY <3>4, <3>5 DEF Real
    <3>7. Real(v)
      BY <3>3, <3>6 DEF Real, Evidence, Finished
    <3> QED
      BY <3>3, <3>7
  <2> QED
    BY <2>1, <2>2 DEF StepUpdates
<1>2. CASE u \in StepUpdates(m)
  BY <1>1, <1>2
<1>3. ASSUME NEW v \in StepUpdates(m), NEW o \in Finished, FinishAllowed(v, o), u = [v EXCEPT !.status = o]
      PROVE  u \in MissionRecs /\ u.sess = m.sess /\ u.status \in {m.status} \cup Finished /\ Real(u)
  <2>1. v \in MissionRecs /\ v.sess = m.sess /\ Real(v)
    BY <1>1
  <2>2. /\ u \in MissionRecs /\ u.sess = v.sess /\ u.status = o
        /\ u.steps = v.steps /\ u.attempts = v.attempts
    BY <1>3, <2>1 DEF MissionRecs, Statuses
  <2>3. Real(u)
    BY <1>3, <2>1, <2>2 DEF Real, Evidence, FinishAllowed
  <2> QED
    BY <2>1, <2>2, <2>3
<1> QED
  BY <1>2, <1>3 DEF Updates

LEMMA Update_Inv ==
  ASSUME MissionInv, NEW c \in Calls, NEW id \in MIds, Update(c, id)
  PROVE  MissionInv'
<1> USE DEF MissionInv
<1>m. PICK m : m = missions[id]
  OBVIOUS
<1>0. /\ call[c].at = "idle" /\ id \in Ids /\ m.status \notin Finished
      /\ UNCHANGED <<sessions, jobs, served>>
  BY <1>m DEF Update
<1>c. call[c].sess = NoSess
  BY <1>0, IdleParts DEF CallInv
<1>j. JobsMoveOn
  BY <1>0 DEF JobsMoveOn
<1>k. Kept(id, m) \in Copies /\ m \in MissionRecs /\ Real(m)
  BY <1>0, <1>m, CopyPlaces, KeptParts DEF CopyInv
<1>u. PICK u \in Updates(m) :
         \/ /\ Persists(missions') /\ missions' = With(missions, id, u)
            /\ call' = [call EXCEPT ![c] = [Idle EXCEPT !.at = "updated", !.id = id, !.before = m]]
            /\ UNCHANGED bySess
         \/ PersistFails /\ bySess' = Index(missions) /\ Return(c, "failed") /\ UNCHANGED missions
  BY <1>m DEF Update
<1>v. u \in MissionRecs /\ u.sess = m.sess /\ u.status \in {m.status} \cup Finished /\ Real(u)
  BY <1>0, <1>k, UpdatesAreReal
<1>1. CASE PersistFails /\ bySess' = Index(missions) /\ Return(c, "failed") /\ UNCHANGED missions
  <2>1. /\ CallInv' /\ call' \in [Calls -> CallRecs] /\ NoLeakedSession' /\ CallsCalm /\ SessionsMoveOn
        /\ \A d \in Calls : call'[d].at \in {"resumed", "updated"} => call'[d] = call[d]
    BY <1>0, <1>1, <1>c, ReturnEffect
  <2>2. Copies' \subseteq Copies
    BY <1>1, <2>1, CopyPlaces, NextCopyPlaces DEF Ids, PersistFails
  <2>3. CopyInv' /\ Apart' /\ Unheld' /\ Owned'
    BY <1>j, <2>1, <2>2, NoNewCopy
  <2>4. /\ bySess' \in [Sess -> MIds \cup {NoMission}]
        /\ \A x \in Ids : missions[x].status \notin Finished => bySess'[missions[x].sess] = x
        /\ \A x \in Sess : /\ bySess'[x] \in Ids \cup {NoMission}
                           /\ bySess'[x] \in Ids => missions[bySess'[x]].sess = x
    BY <1>1, Reindexed, SessTypes DEF Ids, MissionTypes
  <2>5. MissionTypes' /\ IndexInv' /\ NothingToLose'
    BY <1>0, <1>1, <2>1, <2>4
       DEF MissionTypes, IndexInv, IndexFindsMissions, NothingToLose, Ids, PersistFails
  <2> QED
    BY <2>1, <2>3, <2>5
<1>2. CASE /\ Persists(missions') /\ missions' = With(missions, id, u)
           /\ call' = [call EXCEPT ![c] = [Idle EXCEPT !.at = "updated", !.id = id, !.before = m]]
           /\ UNCHANGED bySess
  <2> DEFINE r == [Idle EXCEPT !.at = "updated", !.id = id, !.before = m]
  <2>1. r \in CallRecs /\ r.at = "updated" /\ r.id = id /\ r.sess = NoSess /\ r.before = m
    BY <1>k, IdleParts DEF CallRecs, CallSteps, Idle
  <2>2. call' = [call EXCEPT ![c] = r]
    BY <1>2
  <2>3. SessionsMoveOn
    BY <1>0 DEF SessionsMoveOn
  <2> HIDE DEF r
  <2>4. CallInv' /\ call' \in [Calls -> CallRecs]
    BY <2>1, <2>2, <2>3, IdleParts, CallMoves
  <2>5. NoLeakedSession'
    BY <1>0, <1>c, <2>2, StillToClose
  <2>6. \A d \in Calls : call'[d] = IF d = c THEN r ELSE call[d]
    BY <2>2 DEF MissionTypes
  <2>7. CallsCalm
    BY <2>1, <2>6 DEF CallsCalm
  <2>8. /\ DOMAIN missions' = Ids /\ disk' = missions' /\ UNCHANGED writeFaults
        /\ missions'[id] = u /\ \A x \in Ids \ {id} : missions'[x] = missions[x]
    BY <1>0, <1>2 DEF With, Persists, Ids
  <2>9. Copies' \subseteq Copies \cup {Kept(id, u)}
    BY <1>k, <2>1, <2>6, <2>8, CopyPlaces, NextCopyPlaces
  <2>10. Real(u)'
    BY <1>j, <1>v, RealStays
  <2>11. u.status = "interrupted" => m.status = "interrupted"
    BY <1>v DEF Finished
  <2>12. Kept(id, m).id = id /\ Kept(id, m).of = m
    BY KeptParts
  <2>13. CopyInv' /\ Apart' /\ Unheld' /\ Owned'
    BY <1>j, <1>k, <1>v, <2>3, <2>7, <2>9, <2>10, <2>11, <2>12, OneNewCopy
  <2>14. MissionTypes'
    BY <1>0, <1>2, <2>4, <2>8 DEF MissionTypes, Ids
  <2>15. IndexInv'
    BY <1>2, <1>0, <1>m, <1>v, <2>8 DEF IndexInv, IndexFindsMissions, Ids
  <2>16. NothingToLose'
    BY <2>8 DEF NothingToLose
  <2> QED
    BY <2>4, <2>5, <2>13, <2>14, <2>15, <2>16
<1> QED
  BY <1>u, <1>1, <1>2

\* An event of the engine moves the status of its mission, if it has one.
LEMMA EventMoves ==
  ASSUME MissionInv, NEW s \in Sess, NEW st \in {"running", "needs_attention", "same"},
         Recorded(s, st) \/ (st # "same" /\ RecordFails(s, st)),
         JobsMoveOn, jobs' \in [Jobs -> JobRecs], UNCHANGED <<bySess, call, sessions, served>>
  PROVE  MissionInv'
<1> USE DEF MissionInv
<1>x. PICK id, m : id = bySess[s] /\ m = missions[id]
  OBVIOUS
<1>n. PICK n : n = [m EXCEPT !.status = IF st = "same" THEN m.status ELSE st]
  OBVIOUS
<1>0. SessionsMoveOn /\ CallsCalm
  BY DEF SessionsMoveOn, CallsCalm
<1>1. \/ UNCHANGED <<missions, disk, writeFaults>>
      \/ /\ id \in Ids /\ m.status \notin Finished
         /\ DOMAIN missions' = Ids /\ missions'[id] = n /\ \A y \in Ids \ {id} : missions'[y] = missions[y]
         /\ \/ disk' = missions' /\ UNCHANGED writeFaults
            \/ UNCHANGED disk /\ writeFaults' = writeFaults + 1
  <2>1. CASE Recorded(s, st)
    <3>1. CASE id = NoMission \/ id \notin Ids \/ m.status \in Finished
      BY <2>1, <3>1, <1>x DEF Recorded
    <3>2. CASE ~(id = NoMission \/ id \notin Ids \/ m.status \in Finished)
      <4>1. /\ missions' = [missions EXCEPT ![id].status = IF st = "same" THEN @ ELSE st]
            /\ Persists(missions')
        BY <2>1, <3>2, <1>x DEF Recorded
      <4>2. missions'[id] = n
        BY <4>1, <3>2, <1>x, <1>n DEF Ids
      <4> QED
        BY <4>1, <4>2, <3>2 DEF Persists, Ids
    <3> QED
      BY <3>1, <3>2
  <2>2. CASE st # "same" /\ RecordFails(s, st)
    <3>1. /\ id \in Ids /\ m.status \notin Finished
          /\ missions' = [missions EXCEPT ![id].status = st]
          /\ PersistFails
      BY <2>2, <1>x DEF RecordFails
    <3>2. missions'[id] = n
      BY <2>2, <3>1, <1>x, <1>n DEF Ids
    <3> QED
      BY <3>1, <3>2 DEF PersistFails, Ids
  <2> QED
    BY <2>1, <2>2
<1>2. CASE UNCHANGED <<missions, disk, writeFaults>>
  <2>1. Copies' \subseteq Copies
    BY <1>2, CopyPlaces, NextCopyPlaces DEF Ids
  <2>2. CopyInv' /\ Apart' /\ Unheld' /\ Owned'
    BY <1>0, <2>1, NoNewCopy
  <2>3. MissionTypes' /\ CallInv' /\ IndexInv' /\ NothingToLose' /\ NoLeakedSession'
    BY <1>2 DEF MissionTypes, Ids, CallInv, IndexInv, IndexFindsMissions, NothingToLose, NoLeakedSession
  <2> QED
    BY <2>2, <2>3
<1>3. CASE /\ id \in Ids /\ m.status \notin Finished
           /\ DOMAIN missions' = Ids /\ missions'[id] = n /\ \A y \in Ids \ {id} : missions'[y] = missions[y]
           /\ \/ disk' = missions' /\ UNCHANGED writeFaults
              \/ UNCHANGED disk /\ writeFaults' = writeFaults + 1
  <2>1. Kept(id, m) \in Copies /\ m \in MissionRecs /\ Real(m)
    BY <1>3, <1>x, CopyPlaces, KeptParts DEF CopyInv
  <2>2. /\ n \in MissionRecs /\ n.sess = m.sess /\ n.steps = m.steps /\ n.attempts = m.attempts
        /\ n.status = IF st = "same" THEN m.status ELSE st
    BY <1>n, <2>1 DEF MissionRecs, Statuses
  <2>3. Real(n)'
    <3>1. Real(m)'
      BY <2>1, RealStays
    <3>2. n.status # "succeeded"
      BY <1>3, <2>2 DEF Finished
    <3> QED
      BY <2>2, <3>1, <3>2, RealOf
  <2>4. Copies' \subseteq Copies \cup {Kept(id, n)}
    BY <1>3, CopyPlaces, NextCopyPlaces
  <2>5. Kept(id, m).id = id /\ Kept(id, m).of = m
    BY KeptParts
  <2>6. CopyInv' /\ Apart' /\ Unheld' /\ Owned'
    BY <1>0, <2>1, <2>2, <2>3, <2>4, <2>5, OneNewCopy
  <2>7. MissionTypes'
    BY <1>3 DEF MissionTypes, Ids
  <2>8. CallInv' /\ NoLeakedSession'
    BY DEF CallInv, NoLeakedSession
  <2>9. IndexInv'
    BY <1>3, <1>x, <2>2 DEF IndexInv, IndexFindsMissions, Ids
  <2>10. NothingToLose'
    BY <1>3 DEF NothingToLose, MissionTypes
  <2> QED
    BY <2>6, <2>7, <2>8, <2>9, <2>10
<1> QED
  BY <1>1, <1>2, <1>3

LEMMA JobStarts_Inv ==
  ASSUME MissionInv, NEW j \in Jobs, NEW s \in Sess, JobStarts(j, s) PROVE MissionInv'
<1>1. JobsMoveOn /\ jobs' \in [Jobs -> JobRecs]
  <2>1. jobs \in [Jobs -> JobRecs]
    BY DEF MissionInv, MissionTypes
  <2>2. [status |-> "live", sess |-> s] \in JobRecs
    BY DEF JobRecs
  <2>3. UNCHANGED jobs \/ jobs' = [jobs EXCEPT ![j] = [status |-> "live", sess |-> s]]
    BY DEF JobStarts
  <2> QED
    BY <2>1, <2>2, <2>3 DEF JobStarts, JobsMoveOn
<1>2. /\ Recorded(s, "running") \/ RecordFails(s, "running")
      /\ UNCHANGED <<bySess, call, sessions, served>>
  BY DEF JobStarts
<1> QED
  BY <1>1, <1>2, EventMoves

LEMMA JobEnds_Inv ==
  ASSUME MissionInv, NEW j \in Jobs, JobEnds(j) PROVE MissionInv'
<1>0. jobs \in [Jobs -> JobRecs]
  BY DEF MissionInv, MissionTypes
<1>x. PICK s : s = jobs[j].sess
  OBVIOUS
<1>1. JobsMoveOn /\ jobs' \in [Jobs -> JobRecs]
  <2>1. PICK st \in {"exited0", "exited1"} : jobs' = [jobs EXCEPT ![j].status = st]
    BY DEF JobEnds
  <2>2. \A r \in JobRecs : r.status = "live" =>
           /\ [r EXCEPT !.status = st] \in JobRecs
           /\ [r EXCEPT !.status = st].sess = r.sess
           /\ [r EXCEPT !.status = st].status = st
    BY DEF JobRecs, JobOver
  <2>3. jobs' = [jobs EXCEPT ![j] = [jobs[j] EXCEPT !.status = st]]
    BY <2>1
  <2> QED
    BY <1>0, <2>2, <2>3 DEF JobEnds, JobsMoveOn
<1>2. Recorded(s, "same") /\ UNCHANGED <<bySess, call, sessions, served>>
  BY <1>x DEF JobEnds
<1>3. s \in Sess
  BY <1>0, <1>x DEF JobEnds, JobRecs
<1> QED
  BY <1>1, <1>2, <1>3, EventMoves

LEMMA Attention_Inv ==
  ASSUME MissionInv, NEW s \in Sess, Attention(s) PROVE MissionInv'
<1>1. UNCHANGED <<bySess, call, sessions, jobs, served>>
  BY DEF Attention
<1>2. JobsMoveOn /\ jobs' \in [Jobs -> JobRecs]
  BY <1>1 DEF JobsMoveOn, MissionInv, MissionTypes
<1>3. PICK st \in {"needs_attention", "running"} : Recorded(s, st)
  BY DEF Attention
<1> QED
  BY <1>1, <1>2, <1>3, EventMoves

\* After a restart the missions are what the file had, interrupted if they
\* were not over, and every session is gone.
LEMMA Restart_Inv ==
  ASSUME MissionInv, Restart PROVE MissionInv'
<1> USE DEF MissionInv
<1> DEFINE Back(m) == IF m.status \in Finished THEN m ELSE [m EXCEPT !.status = "interrupted"]
<1>x. PICK back : back = [id \in DOMAIN disk |-> Back(disk[id])]
  OBVIOUS
<1>0. /\ missions' = back /\ bySess' = Index(back) /\ disk' = back /\ UNCHANGED <<writeFaults, served>>
      /\ call' = [c \in Calls |-> IF call[c].at = "idle" THEN Idle ELSE [Idle EXCEPT !.at = "failed"]]
      /\ sessions' = [s \in Sess |-> IF sessions[s] = "free" THEN "free" ELSE "closed"]
      /\ jobs' = [j \in Jobs |-> IF jobs[j].status = "live" THEN [jobs[j] EXCEPT !.status = "orphaned"]
                                 ELSE jobs[j]]
  BY <1>x DEF Restart, Persists
<1>1. DOMAIN back = DOMAIN disk /\ \A id \in DOMAIN disk : back[id] = Back(disk[id])
  BY <1>x
<1>2. \A m \in MissionRecs : /\ Back(m) \in MissionRecs /\ Back(m).sess = m.sess
                             /\ Back(m).steps = m.steps /\ Back(m).attempts = m.attempts
                             /\ Back(m).status # "succeeded" \/ Back(m).status = m.status
  BY DEF MissionRecs, Statuses
<1> HIDE DEF Back
<1>j. JobsMoveOn /\ jobs' \in [Jobs -> JobRecs]
  <2>1. \A r \in JobRecs : r.status = "live" =>
           /\ [r EXCEPT !.status = "orphaned"] \in JobRecs
           /\ [r EXCEPT !.status = "orphaned"].sess = r.sess
           /\ [r EXCEPT !.status = "orphaned"].status = "orphaned"
    BY DEF JobRecs, JobOver
  <2>2. \A j \in Jobs : jobs[j] \in JobRecs
    BY DEF MissionTypes
  <2> QED
    BY <1>0, <2>1, <2>2 DEF JobsMoveOn
<1>3. /\ SessionsMoveOn /\ sessions' \in [Sess -> {"free", "open", "closed"}]
      /\ \A s \in Sess : sessions'[s] # "open"
  BY <1>0 DEF SessionsMoveOn
<1>4. [Idle EXCEPT !.at = "failed"] \in CallRecs /\ [Idle EXCEPT !.at = "failed"].at = "failed"
      /\ [Idle EXCEPT !.at = "failed"].sess = NoSess
  BY IdleParts DEF CallRecs, CallSteps, Idle
<1>5. \A c \in Calls : /\ call'[c] \in CallRecs /\ call'[c].sess = NoSess
                       /\ call'[c].at \in {"idle", "failed"}
                       /\ call'[c].at = "idle" => call'[c] = Idle
  BY <1>0, <1>4, IdleParts
<1>6. CallInv' /\ call' \in [Calls -> CallRecs]
  BY <1>0, <1>5, IdleParts DEF CallInv
<1>7. \A id \in DOMAIN disk : Kept(id, disk[id]) \in Copies /\ disk[id] \in MissionRecs
  BY CopyPlaces, SessTypes
<1>8. \A k \in Copies' : \E id \in DOMAIN disk : k = Kept(id, Back(disk[id]))
  BY <1>0, <1>1, <1>5, NextCopyPlaces
<1>9. CopyInv'
  <2> SUFFICES ASSUME NEW id \in DOMAIN disk, NEW k, k = Kept(id, Back(disk[id]))
               PROVE  k.id \in MIds /\ k.of \in MissionRecs /\ sessions'[k.of.sess] # "free" /\ Real(k.of)'
    BY <1>8 DEF CopyInv
  <2>x. PICK m, n : m = disk[id] /\ n = Back(disk[id])
    OBVIOUS
  <2>1. m \in MissionRecs /\ id \in MIds /\ sessions[m.sess] # "free" /\ Real(m) /\ m.sess \in Sess
    BY <1>7, <2>x, KeptParts, SessTypes DEF CopyInv
  <2>2. /\ n \in MissionRecs /\ n.sess = m.sess /\ n.steps = m.steps /\ n.attempts = m.attempts
        /\ n.status # "succeeded" \/ n.status = m.status
    BY <1>2, <2>1, <2>x
  <2>3. Real(n)'
    BY <1>j, <2>1, <2>2, RealStays, RealOf
  <2>4. k.id = id /\ k.of = n
    BY <2>x, KeptParts
  <2> QED
    BY <1>3, <2>1, <2>2, <2>3, <2>4 DEF SessionsMoveOn
<1>10. \A id \in DOMAIN disk : Back(disk[id]).sess = disk[id].sess
  BY <1>2, <1>7
<1>11. Apart'
  BY <1>8, <1>10, KeptParts, SessTypes DEF Apart
<1>12. Unheld' /\ Owned' /\ NoLeakedSession'
  BY <1>3, <1>5 DEF Unheld, Owned, NoLeakedSession
<1>13. /\ bySess' \in [Sess -> MIds \cup {NoMission}]
       /\ \A id \in DOMAIN back : back[id].status \notin Finished => bySess'[back[id].sess] = id
       /\ \A s \in Sess : /\ bySess'[s] \in DOMAIN back \cup {NoMission}
                          /\ bySess'[s] \in DOMAIN back => back[bySess'[s]].sess = s
  <2>1. DOMAIN back \subseteq MIds /\ \A id \in DOMAIN back : back[id].sess \in Sess
    BY <1>1, <1>7, <1>10, SessTypes DEF MissionTypes
  <2>2. \A id, x \in DOMAIN back : back[id].sess = back[x].sess => id = x
    BY <1>1, <1>10, SessTypes
  <2> QED
    BY <1>0, <2>1, <2>2, Reindexed
<1>14. IndexInv' /\ NothingToLose'
  BY <1>0, <1>13 DEF IndexInv, IndexFindsMissions, NothingToLose, Ids
<1>15. MissionTypes'
  BY <1>0, <1>1, <1>3, <1>6, <1>j, <1>13 DEF MissionTypes, Ids
<1> QED
  BY <1>6, <1>9, <1>11, <1>12, <1>14, <1>15

LEMMA MissionStutter_Inv ==
  ASSUME MissionInv, UNCHANGED missionVars PROVE MissionInv'
<1> USE DEF MissionInv, missionVars
<1>1. JobsMoveOn /\ SessionsMoveOn /\ CallsCalm
  BY DEF JobsMoveOn, SessionsMoveOn, CallsCalm
<1>2. Copies' \subseteq Copies
  BY CopyPlaces, NextCopyPlaces DEF Ids
<1>3. CopyInv' /\ Apart' /\ Unheld' /\ Owned'
  BY <1>1, <1>2, NoNewCopy
<1>4. MissionTypes' /\ CallInv' /\ IndexInv' /\ NothingToLose' /\ NoLeakedSession'
  BY DEF MissionTypes, Ids, CallInv, IndexInv, IndexFindsMissions, NothingToLose, NoLeakedSession
<1> QED
  BY <1>3, <1>4

LEMMA MissionNext_Inv ==
  ASSUME MissionInv, [MissionNext]_missionVars PROVE MissionInv'
<1>1. CASE UNCHANGED missionVars
  BY <1>1, MissionStutter_Inv
<1>2. CASE MissionNext
  <2>f. Fresh(FreeSess) \subseteq Sess /\ Fresh(FreeIds) \subseteq MIds /\ Fresh(FreeJobs) \subseteq Jobs
    BY FreshIsFree DEF FreeSess, FreeIds, FreeJobs
  <2>1. ASSUME NEW c \in Calls, NEW s \in Sess, CreateSession(c, s) PROVE MissionInv'
    BY <2>1, CreateSession_Inv
  <2>2. ASSUME NEW c \in Calls, NEW s \in Sess, NEW id \in MIds, ResumeLook(c, id, s) PROVE MissionInv'
    BY <2>2, ResumeLook_Inv
  <2>3. ASSUME NEW c \in Calls, NEW id \in MIds, CreateCommit(c, id) PROVE MissionInv'
    BY <2>3, CreateCommit_Inv
  <2>4. ASSUME NEW c \in Calls, NEW id \in MIds, Update(c, id) PROVE MissionInv'
    BY <2>4, Update_Inv
  <2>5. ASSUME NEW c \in Calls,
               \/ CreateUndo(c) \/ ResumeCommit(c) \/ ResumeUndo(c) \/ CloseSession(c)
               \/ UpdateUndo(c) \/ Emitted(c)
        PROVE  MissionInv'
    BY <2>5, CreateUndo_Inv, ResumeCommit_Inv, ResumeUndo_Inv, CloseSession_Inv, UpdateUndo_Inv, Emitted_Inv
  <2>6. ASSUME NEW j \in Jobs, NEW s \in Sess, JobStarts(j, s) PROVE MissionInv'
    BY <2>6, JobStarts_Inv
  <2>7. ASSUME NEW j \in Jobs, JobEnds(j) PROVE MissionInv'
    BY <2>7, JobEnds_Inv
  <2>8. ASSUME NEW s \in Sess, Attention(s) PROVE MissionInv'
    BY <2>8, Attention_Inv
  <2>9. ASSUME Restart PROVE MissionInv'
    BY <2>9, Restart_Inv
  <2> QED
    BY <1>2, <2>f, <2>1, <2>2, <2>3, <2>4, <2>5, <2>6, <2>7, <2>8, <2>9 DEF MissionNext
<1> QED
  BY <1>1, <1>2

-----------------------------------------------------------------------------
(* Theorems.                                                               *)

\* Every mission the service, its file or one of its calls knows has real
\* evidence and a session of its own.
THEOREM MissionInvariant == MissionSpec => []MissionInv
BY MissionInit_Inv, MissionNext_Inv, PTL DEF MissionSpec

\* A passed step has a job the engine saw exit with 0 in a session of its
\* mission, and a mission succeeds on such steps only, for any missions, steps,
\* sessions, jobs and calls, however calls fail, undo each other and restart
\* (updateStepLocked, finishLocked and the copies put back after them).
THEOREM EvidenceHolds == MissionSpec => []EvidenceIsReal
<1>1. MissionInv => EvidenceIsReal
  <2> SUFFICES ASSUME MissionInv, NEW id \in Ids PROVE
        LET m == missions[id]
            passed == {p \in Steps : m.steps[p].status = "passed"}
        IN  /\ \A p \in passed : /\ Evidence(m, m.steps[p].job)
                                 /\ jobs[m.steps[p].job].status = "exited0"
            /\ m.status = "succeeded" =>
                  passed # {} /\ \A p \in Steps \ passed : m.steps[p].status = "skipped"
    BY DEF EvidenceIsReal
  <2>1. Real(missions[id])
    BY CopyPlaces, KeptParts DEF MissionInv, CopyInv
  <2> QED
    BY <2>1 DEF Real
<1> QED
  BY <1>1, MissionInvariant, PTL

\* No error exit of Create or Resume leaves its session open with nobody to
\* close it, whatever was undone and in whichever order.
THEOREM SessionsAreHandedOver == MissionSpec => []NoLeakedSession
<1>1. MissionInv => NoLeakedSession
  BY DEF MissionInv
<1> QED
  BY <1>1, MissionInvariant, PTL

\* The index leads each unfinished mission's events to it and to no other,
\* after every commit, undo, prune and restart (bySess, reindexLocked).
THEOREM EventsFindTheirMission == MissionSpec => []IndexFindsMissions
<1>1. MissionInv => IndexFindsMissions
  BY DEF MissionInv, IndexInv
<1> QED
  BY <1>1, MissionInvariant, PTL

\* Until a write of the store fails, the file is what the service has in memory.
THEOREM FileIsMemory == MissionSpec => []NothingToLose
<1>1. MissionInv => NothingToLose
  BY DEF MissionInv
<1> QED
  BY <1>1, MissionInvariant, PTL

-----------------------------------------------------------------------------
(* The list of jobs: the file is current whenever nothing is under way.    *)

RegRecords == [job : RegJobs, status : {"running", "over", "orphaned"}]

RegTypes ==
    /\ job \in [RegJobs -> {"new", "running", "over", "gone"}]
    /\ recovered \in Seq(RegRecords) /\ file \in Seq(RegRecords) /\ writing \subseteq Seq(RegRecords)
    /\ calls \in Nat /\ regFaults \in Nat

\* What the file must say of the registry.
Current(infos) ==
    /\ \A i \in DOMAIN infos : infos[i].job \in Listed => infos[i].status = job[infos[i].job]
    /\ \A j \in Listed : (\E i \in DOMAIN infos : infos[i].job = j) \/ Len(infos) = MaxPersisted

\* Records are of jobs that were started, and recovered ones of an earlier life.
Known ==
    /\ \A i \in DOMAIN file : job[file[i].job] # "new"
    /\ \A w \in writing : \A i \in DOMAIN w : job[w[i].job] # "new"
    /\ \A i \in DOMAIN recovered : job[recovered[i].job] = "gone"

\* A daemon that is down knows nothing, and the last call of persist writes
\* what is true now: every later change has a call of its own to come.
RegInv ==
    /\ RegTypes /\ Known
    /\ ~up => Listed = {} /\ calls = 0 /\ writing = {}
    /\ up /\ calls = 0 => \A w \in writing : Current(w)
    /\ up /\ calls = 0 /\ writing = {} /\ persistOk => Current(file)

\* A snapshot lists every job: an order of the registry names each of them.
LEMMA OrdersName ==
  \A o \in Orders : /\ o \in [1..Cardinality(Listed) -> Listed]
                    /\ \A j \in Listed : \E i \in 1..Cardinality(Listed) : o[i] = j
<1> SUFFICES ASSUME NEW o \in Orders
             PROVE  /\ o \in [1..Cardinality(Listed) -> Listed]
                    /\ \A j \in Listed : \E i \in 1..Cardinality(Listed) : o[i] = j
  OBVIOUS
<1> DEFINE n == Cardinality(Listed)
<1>1. IsFiniteSet(Listed)
  BY RegistryAssumption, FS_Subset DEF Listed
<1>2. n \in Nat
  BY <1>1, FS_CardinalityType
<1>3. IsFiniteSet(1..n) /\ Cardinality(1..n) = n
  BY <1>2, FS_Interval
<1>4. o \in [1..n -> Listed] /\ \A i, k \in 1..n : o[i] = o[k] => i = k
  BY DEF Orders
<1>5. o \in Injection(1..n, Listed)
  BY <1>4 DEF Injection, IsInjective
<1>6. o \in Surjection(1..n, Listed)
  BY <1>1, <1>3, <1>5, FS_Injection
<1> QED
  BY <1>4, <1>6 DEF Surjection

\* A record that is not out of date.
Truthful(r) == r \in RegRecords /\ job[r.job] # "new" /\ (r.job \in Listed => r.status = job[r.job])

LEMMA TruthfulIsCurrent ==
  ASSUME NEW w, \A i \in DOMAIN w : Truthful(w[i]),
         (\A j \in Listed : \E i \in DOMAIN w : w[i].job = j) \/ Len(w) = MaxPersisted
  PROVE  Current(w) /\ \A i \in DOMAIN w : job[w[i].job] # "new"
BY DEF Truthful, Current

LEMMA SnapshotIsCurrent ==
  ASSUME RegInv, NEW o \in Orders, NEW w, w = Capped(Live(o) \o recovered)
  PROVE  w \in Seq(RegRecords) /\ Current(w) /\ \A i \in DOMAIN w : job[w[i].job] # "new"
<1>t. job \in [RegJobs -> {"new", "running", "over", "gone"}] /\ recovered \in Seq(RegRecords)
  BY DEF RegInv, RegTypes
<1>n. PICK n \in Nat : n = Cardinality(Listed)
  BY RegistryAssumption, FS_Subset, FS_CardinalityType DEF Listed
<1>l. PICK l : l = Live(o)
  OBVIOUS
<1>a. PICK a : a = l \o recovered
  OBVIOUS
<1>2. DOMAIN o = 1..n /\ \A i \in 1..n : o[i] \in Listed
  BY <1>n, OrdersName
<1>3. DOMAIN l = 1..n /\ \A i \in 1..n : l[i] = [job |-> o[i], status |-> job[o[i]]]
  BY <1>2, <1>l DEF Live
<1>4. \A i \in 1..n : l[i] \in RegRecords /\ Truthful(l[i]) /\ l[i].job = o[i]
  <2> SUFFICES ASSUME NEW i \in 1..n PROVE l[i] \in RegRecords /\ Truthful(l[i]) /\ l[i].job = o[i]
    OBVIOUS
  <2>1. l[i] = [job |-> o[i], status |-> job[o[i]]] /\ o[i] \in RegJobs /\ job[o[i]] \in {"running", "over"}
    BY <1>2, <1>3 DEF Listed
  <2>2. l[i].job = o[i] /\ l[i].status = job[o[i]]
    BY <2>1
  <2>3. l[i] \in RegRecords
    BY <2>1 DEF RegRecords
  <2> QED
    BY <2>1, <2>2, <2>3 DEF Truthful
<1>5. l \in Seq(RegRecords) /\ Len(l) = n
  <2>1. l \in [1..n -> RegRecords]
    BY <1>2, <1>l, <1>4 DEF Live
  <2> QED
    BY <2>1
<1>6. \A i \in DOMAIN recovered : Truthful(recovered[i])
  BY <1>t DEF RegInv, Known, Listed, Truthful
<1>7. /\ a \in Seq(RegRecords) /\ Len(a) = n + Len(recovered)
      /\ \A i \in 1..n : a[i] = l[i]
      /\ \A i \in DOMAIN a : i > n => i - n \in DOMAIN recovered /\ a[i] = recovered[i - n]
  <2>1. /\ a \in Seq(RegRecords) /\ Len(a) = n + Len(recovered)
        /\ \A i \in 1..Len(a) : a[i] = IF i <= n THEN l[i] ELSE recovered[i - n]
    <3>1. /\ l \o recovered \in Seq(RegRecords) /\ Len(l \o recovered) = Len(l) + Len(recovered)
          /\ \A i \in 1..Len(l) + Len(recovered) :
               (l \o recovered)[i] = IF i <= Len(l) THEN l[i] ELSE recovered[i - Len(l)]
      BY <1>t, <1>5, ConcatProperties
    <3> QED
      BY <1>a, <1>5, <3>1
  <2>2. DOMAIN a = 1..Len(a) /\ DOMAIN recovered = 1..Len(recovered) /\ Len(recovered) \in Nat
    BY <1>t, <2>1
  <2> QED
    BY <2>1, <2>2
<1>8. \A i \in DOMAIN a : Truthful(a[i])
  BY <1>4, <1>6, <1>7
<1>9. \A j \in Listed : \E i \in DOMAIN a : a[i].job = j
  <2> SUFFICES ASSUME NEW j \in Listed PROVE \E i \in DOMAIN a : a[i].job = j
    OBVIOUS
  <2>1. PICK i \in 1..n : o[i] = j
    BY <1>n, OrdersName
  <2>2. i \in DOMAIN a /\ a[i].job = j
    BY <1>t, <1>4, <1>7, <2>1
  <2> QED
    BY <2>2
<1>10. CASE Len(a) <= MaxPersisted
  <2>1. w = a
    BY <1>7, <1>10, <1>a, <1>l, RegistryAssumption DEF Capped
  <2> QED
    BY <1>7, <1>8, <1>9, <2>1, TruthfulIsCurrent
<1>11. CASE Len(a) > MaxPersisted
  <2>1. w = SubSeq(a, Len(a) - MaxPersisted + 1, Len(a))
    BY <1>11, <1>a, <1>l DEF Capped
  <2>2. /\ w \in Seq(RegRecords) /\ Len(w) = MaxPersisted
        /\ \A i \in DOMAIN w : i + (Len(a) - MaxPersisted) \in DOMAIN a /\ w[i] = a[i + (Len(a) - MaxPersisted)]
    BY <1>7, <1>11, <2>1, RegistryAssumption
  <2>3. \A i \in DOMAIN w : Truthful(w[i])
    BY <1>8, <2>2
  <2> QED
    BY <2>2, <2>3, TruthfulIsCurrent
<1>12. Len(a) \in Nat /\ MaxPersisted \in Nat
  BY <1>7, RegistryAssumption
<1> QED
  BY <1>10, <1>11, <1>12

LEMMA RegistryInit_Inv == RegistryInit => RegInv
<1> SUFFICES ASSUME RegistryInit PROVE RegInv
  OBVIOUS
<1>1. RegTypes
  BY DEF RegistryInit, RegTypes
<1>k. Known
  BY DEF RegistryInit, Known
<1>2. Listed = {}
  BY DEF RegistryInit, Listed
<1> QED
  BY <1>1, <1>k, <1>2 DEF RegistryInit, RegInv

\* Jobs leave the registry or stay as they are: what was current stays so.
LEMMA CurrentStays ==
  ASSUME Listed' \subseteq Listed, \A j \in Listed' : job'[j] = job[j], NEW w, Current(w)
  PROVE  Current(w)'
BY DEF Current

LEMMA RegistryNext_Inv ==
  ASSUME RegInv, [RegistryNext]_regVars
  PROVE  RegInv'
<1> USE DEF RegInv
<1>c. Cardinality(Listed) \in Nat
  BY RegistryAssumption, FS_Subset, FS_CardinalityType DEF Listed
<1>1. ASSUME NEW j \in RegJobs, StartJob(j) PROVE RegInv'
  <2>1. RegTypes' /\ calls' # 0 /\ up'
    BY <1>1 DEF StartJob, RegTypes
  <2>2. Known'
    BY <1>1 DEF StartJob, RegTypes, Known
  <2> QED
    BY <2>1, <2>2
<1>2. ASSUME NEW j \in RegJobs, EndJob(j) PROVE RegInv'
  <2>1. RegTypes' /\ calls' # 0 /\ up'
    BY <1>2 DEF EndJob, RegTypes
  <2>2. Known'
    BY <1>2 DEF EndJob, RegTypes, Known
  <2> QED
    BY <2>1, <2>2
<1>3. ASSUME NEW j \in RegJobs, Collect(j) PROVE RegInv'
  <2>1. RegTypes' /\ up'
    BY <1>3 DEF Collect, RegTypes
  <2>2. Known'
    BY <1>3 DEF Collect, RegTypes, Known
  <2>3. Listed' \subseteq Listed /\ \A x \in Listed' : job'[x] = job[x]
    BY <1>3 DEF Collect, RegTypes, Listed
  <2>4. \A w : Current(w) => Current(w)'
    BY <2>3, CurrentStays
  <2> QED
    BY <1>3, <2>1, <2>2, <2>4 DEF Collect
<1>4. ASSUME Snapshot PROVE RegInv'
  <2>1. PICK o \in Orders : writing' = {Capped(Live(o) \o recovered)}
    BY <1>4 DEF Snapshot
  <2>2. PICK w : w = Capped(Live(o) \o recovered)
    OBVIOUS
  <2>3. w \in Seq(RegRecords) /\ Current(w) /\ \A i \in DOMAIN w : job[w[i].job] # "new"
    BY <2>2, SnapshotIsCurrent
  <2>4. writing' = {w}
    BY <2>1, <2>2
  <2>5. UNCHANGED <<job, recovered, file, persistOk, up, regCrashes, regFaults>> /\ up /\ calls' \in Nat
    BY <1>4 DEF Snapshot, RegTypes
  <2>6. RegTypes'
    BY <2>3, <2>4, <2>5 DEF RegTypes
  <2>7. Known'
    BY <2>3, <2>4, <2>5 DEF Known
  <2>8. Current(w)'
    BY <2>3, <2>5 DEF Current, Listed
  <2> QED
    BY <2>4, <2>5, <2>6, <2>7, <2>8
<1>5. ASSUME WriteFile PROVE RegInv'
  <2>1. PICK w \in writing : file' = w /\ writing' = writing \ {w}
    BY <1>5 DEF WriteFile
  <2>2. UNCHANGED <<job, recovered, calls, up, regCrashes, regFaults>> /\ up /\ persistOk' = TRUE
    BY <1>5 DEF WriteFile
  <2>3. RegTypes'
    BY <2>1, <2>2 DEF RegTypes
  <2>k. Known'
    BY <2>1, <2>2 DEF Known
  <2>4. \A x : Current(x) => Current(x)'
    BY <2>2 DEF Current, Listed
  <2> QED
    BY <2>1, <2>2, <2>3, <2>k, <2>4
<1>6. ASSUME WriteFails PROVE RegInv'
  <2>1. PICK w \in writing : writing' = writing \ {w}
    BY <1>6 DEF WriteFails
  <2>2. UNCHANGED <<job, recovered, file, calls, up, regCrashes>> /\ up /\ persistOk' = FALSE
        /\ regFaults' = regFaults + 1
    BY <1>6 DEF WriteFails
  <2>3. RegTypes'
    BY <2>1, <2>2 DEF RegTypes
  <2>k. Known'
    BY <2>1, <2>2 DEF Known
  <2>4. \A x : Current(x) => Current(x)'
    BY <2>2 DEF Current, Listed
  <2> QED
    BY <2>1, <2>2, <2>3, <2>k, <2>4
<1>7. ASSUME DaemonDies PROVE RegInv'
  <2>1. RegTypes'
    BY <1>7 DEF DaemonDies, RegTypes, Listed
  <2>k. Known'
    <3>1. \A j \in RegJobs : job[j] # "new" => job'[j] # "new"
      BY <1>7 DEF DaemonDies
    <3>2. \A i \in DOMAIN file : file[i].job \in RegJobs
      <4>1. \A i \in DOMAIN file : file[i] \in RegRecords
        BY DEF RegTypes
      <4> QED
        BY <4>1 DEF RegRecords
    <3> QED
      BY <1>7, <3>1, <3>2 DEF DaemonDies, Known
  <2>2. Listed' = {} /\ ~up' /\ calls' = 0 /\ writing' = {}
    BY <1>7 DEF DaemonDies, Listed
  <2> QED
    BY <2>1, <2>k, <2>2
<1>8. ASSUME EnablePersistence PROVE RegInv'
  <2>1. UNCHANGED <<job, file, calls, writing, regCrashes>> /\ ~up /\ up'
    BY <1>8 DEF EnablePersistence, RegTypes
  <2>2. Listed = {} /\ Listed' = {} /\ calls' = 0 /\ writing' = {}
    BY <2>1 DEF Listed
  <2>3. recovered' \in Seq(RegRecords) /\ \A i \in DOMAIN recovered' : job[recovered'[i].job] = "gone"
    <3>1. CASE UNCHANGED recovered
      BY <3>1 DEF RegTypes, Known
    <3>2. CASE recovered' = [i \in DOMAIN file |-> Orphaned(file[i])]
      <4>1. \A r \in RegRecords : Orphaned(r) \in RegRecords /\ Orphaned(r).job = r.job
        BY DEF Orphaned, RegRecords
      <4>2. file \in Seq(RegRecords) /\ \A i \in DOMAIN file : file[i] \in RegRecords
        BY DEF RegTypes
      <4>3. Len(file) \in Nat /\ DOMAIN file = 1..Len(file)
        BY <4>2
      <4>4. recovered' \in [1..Len(file) -> RegRecords]
        BY <3>2, <4>1, <4>2, <4>3
      <4>5. recovered' \in Seq(RegRecords)
        BY <4>3, <4>4
      <4>6. \A i \in DOMAIN file : job[file[i].job] = "gone"
        <5> SUFFICES ASSUME NEW i \in DOMAIN file PROVE job[file[i].job] = "gone"
          OBVIOUS
        <5>1. file[i].job \in RegJobs /\ job[file[i].job] # "new"
          BY <4>2 DEF Known, RegRecords
        <5> QED
          BY <2>2, <5>1 DEF RegTypes, Listed
      <4> QED
        BY <3>2, <4>1, <4>2, <4>5, <4>6
    <3> QED
      BY <1>8, <3>1, <3>2 DEF EnablePersistence
  <2>4. regFaults' \in Nat
    BY <1>8 DEF EnablePersistence, RegTypes
  <2>5. RegTypes' /\ Known'
    BY <2>1, <2>3, <2>4 DEF RegTypes, Known
  <2>6. Current(file)'
    <3>1. \A i \in DOMAIN file' : file'[i].job \notin Listed'
      BY <2>2
    <3> QED
      BY <2>2, <3>1 DEF Current
  <2> QED
    BY <2>1, <2>2, <2>5, <2>6
<1>9. ASSUME UNCHANGED regVars PROVE RegInv'
  <2>1. RegTypes' /\ Known' /\ Listed' = Listed
    BY <1>9 DEF regVars, RegTypes, Known, Listed
  <2>2. \A x : Current(x) => Current(x)'
    BY <1>9 DEF regVars, Current, Listed
  <2> QED
    BY <1>9, <2>1, <2>2 DEF regVars
<1> QED
  BY <1>1, <1>2, <1>3, <1>4, <1>5, <1>6, <1>7, <1>8, <1>9 DEF RegistryNext, Fresh

\* Once every call of persist has returned and the last one succeeded, the file
\* says of no listed job what is no longer true of it, and it lacks one only
\* for want of room, for any number of jobs, calls in flight, failing writes and
\* crashes: no older snapshot replaces a newer one (persistMu).
THEOREM FileStaysCurrent == RegistrySpec => []FileIsCurrent
<1>1. RegInv => FileIsCurrent
  BY DEF RegInv, FileIsCurrent, Settled, Current
<1>2. RegInv /\ [RegistryNext]_regVars => RegInv'
  BY RegistryNext_Inv
<1> QED
  BY RegistryInit_Inv, <1>1, <1>2, PTL DEF RegistrySpec

-----------------------------------------------------------------------------
(* Snapshots: a restore loses no tree.                                     *)

OpSteps == {"idle", "creating", "staging", "staged", "swapping", "rollback", "dropping"}
Ops == [pc : OpSteps, snap : Snaps \cup {NoSnap}, before : Versions \cup {Absent}, failed : BOOLEAN]

\* The part of the type invariant that the argument needs.
SnapTypes ==
    /\ source \in Versions \cup {Absent} /\ backup \in Versions \cup {Absent}
    /\ staged \in Versions \cup {Absent, Partial}
    /\ payload \in [Snaps -> Versions \cup {Absent, Partial}] /\ meta \subseteq Snaps
    /\ op \in Ops /\ mishaps \in Nat

PayloadsAreWhole == \A s \in meta : payload[s] \in Versions

\* What a create knows of the snapshot it makes.
Creating ==
    op.pc = "creating" => /\ op.snap \in Snaps \ meta /\ payload[op.snap] # Absent
                          /\ source \in Versions

\* Where the tree is, step by step.  The mishap that a restore can survive is
\* the only one: before it there is always something at the path to set aside,
\* and after it nothing else fails.
Tree ==
    /\ op.pc \in {"idle", "staging"} => source \in Versions \/ backup \in Versions
    /\ op.pc \in {"idle", "staging", "staged"} /\ mishaps = 0 => source \in Versions
    /\ op.pc \in {"staging", "staged"} => op.before = source
    /\ op.pc = "staging" => op.snap \in meta
    /\ op.pc \in {"staged", "swapping"} => staged \in Versions
    /\ op.pc \in {"swapping", "rollback"} => source = Absent /\ backup = op.before
    /\ op.pc = "swapping" /\ mishaps = 0 => backup \in Versions
    /\ op.pc = "rollback" => backup \in Versions /\ mishaps > 0
    /\ op.pc = "dropping" => source \in Versions
    /\ op.failed => op.pc = "idle" /\ source = op.before

SnapInv == SnapTypes /\ PayloadsAreWhole /\ Creating /\ Tree

\* Nothing at a path and a copy under way are not versions.
LEMMA VersionsDistinct == Absent \notin Versions /\ Partial \notin Versions /\ 1 \in Versions
BY SnapshotsAssumption DEF Absent, Partial, Versions

LEMMA SnapInit_Inv == SnapInit => SnapInv
<1> SUFFICES ASSUME SnapInit PROVE SnapInv
  OBVIOUS
<1>1. SnapTypes
  BY VersionsDistinct DEF SnapInit, SnapTypes, Ops, OpSteps, NoOp
<1>2. PayloadsAreWhole /\ Creating /\ Tree
  BY VersionsDistinct DEF SnapInit, PayloadsAreWhole, Creating, Tree, NoOp
<1> QED
  BY <1>1, <1>2 DEF SnapInv

LEMMA SnapNext_Inv ==
  ASSUME MaxMishaps <= 1, SnapInv, [SnapNext]_snapVars
  PROVE  SnapInv'
<1> USE VersionsDistinct, SnapshotsAssumption
<1> USE DEF SnapInv, At, OpGoes
<1>f. Fails => mishaps = 0 /\ mishaps' = 1
  BY DEF Fails, SnapTypes
<1>n. NoOp \in Ops /\ NoOp.pc = "idle" /\ ~NoOp.failed
  BY DEF NoOp, Ops, OpSteps
<1>r. Refuses => op' \in Ops /\ op'.pc = "idle" /\ op'.before = op.before
  <2>1. NoOp \in Ops /\ NoOp.pc = "idle" /\ op.before \in Versions \cup {Absent}
    BY <1>n DEF Ops, SnapTypes
  <2> QED
    BY <2>1 DEF Refuses, Ops
<1>g. ASSUME NEW pc \in OpSteps, OpGoes(pc)
      PROVE  /\ op' \in Ops /\ op'.pc = pc
             /\ op'.snap = op.snap /\ op'.before = op.before /\ op'.failed = op.failed
  BY <1>g DEF Ops, SnapTypes
<1>1. ASSUME NEW s \in Snaps, CreateBegins(s) PROVE SnapInv'
  <2>1. /\ op' \in Ops /\ op'.pc = "creating" /\ op'.snap = s /\ ~op'.failed
    BY <1>1 DEF CreateBegins, NoOp, Ops, OpSteps
  <2>2. s \notin meta
    BY <1>1 DEF CreateBegins, PayloadsAreWhole
  <2>3. SnapTypes'
    BY <1>1, <2>1 DEF CreateBegins, SnapTypes
  <2>4. PayloadsAreWhole' /\ Creating'
    BY <1>1, <2>1, <2>2 DEF CreateBegins, SnapTypes, PayloadsAreWhole, Creating, Partial, Absent
  <2>5. Tree'
    BY <2>1 DEF Tree
  <2> QED
    BY <2>3, <2>4, <2>5
<1>2. ASSUME NEW s \in Snaps, RestoreBegins(s) PROVE SnapInv'
  <2>1. /\ op' \in Ops /\ op'.pc = "staging" /\ op'.snap = s /\ ~op'.failed /\ op'.before = source
    BY <1>2 DEF RestoreBegins, NoOp, Ops, OpSteps, SnapTypes
  <2>2. SnapTypes' /\ PayloadsAreWhole'
    BY <1>2, <2>1 DEF RestoreBegins, SnapTypes, PayloadsAreWhole
  <2>3. Creating'
    BY <2>1 DEF Creating
  <2>4. Tree'
    BY <1>2, <2>1 DEF RestoreBegins, Tree
  <2> QED
    BY <2>2, <2>3, <2>4
<1>3. ASSUME Edit PROVE SnapInv'
  <2>1. source' \in Versions
    BY <1>3 DEF Edit, Versions
  <2> QED
    BY <1>3, <1>n, <2>1 DEF Edit, SnapTypes, PayloadsAreWhole, Creating, Tree
<1>4. ASSUME CreateCopied PROVE SnapInv'
  BY <1>4 DEF CreateCopied, SnapTypes, PayloadsAreWhole, Creating, Tree
<1>5. ASSUME CreateListed PROVE SnapInv'
  BY <1>5, <1>n DEF CreateListed, SnapTypes, PayloadsAreWhole, Creating, Tree
<1>6. ASSUME CreateFails PROVE SnapInv'
  BY <1>6, <1>n DEF CreateFails, Fails, SnapTypes, PayloadsAreWhole, Creating, Tree
<1>7. ASSUME StageFails PROVE SnapInv'
  BY <1>7, <1>f, <1>r DEF StageFails, SnapTypes, PayloadsAreWhole, Creating, Tree
<1>8. ASSUME Staged PROVE SnapInv'
  <2>1. /\ op' \in Ops /\ op'.pc = "staged"
        /\ op'.snap = op.snap /\ op'.before = op.before /\ op'.failed = op.failed
    BY <1>8, <1>g DEF Staged, OpSteps
  <2>2. payload[op.snap] \in Versions
    BY <1>8 DEF Staged, Tree, PayloadsAreWhole
  <2> QED
    BY <1>8, <2>1, <2>2 DEF Staged, SnapTypes, PayloadsAreWhole, Creating, Tree
<1>9. ASSUME SetAside PROVE SnapInv'
  <2>1. /\ op' \in Ops /\ op'.pc = "swapping"
        /\ op'.snap = op.snap /\ op'.before = op.before /\ op'.failed = op.failed
    BY <1>9, <1>g DEF SetAside, OpSteps
  <2> QED
    BY <1>9, <2>1 DEF SetAside, SnapTypes, PayloadsAreWhole, Creating, Tree
<1>10. ASSUME SetAsideFails PROVE SnapInv'
  BY <1>10, <1>f, <1>r DEF SetAsideFails, SnapTypes, PayloadsAreWhole, Creating, Tree
<1>11. ASSUME Swap PROVE SnapInv'
  <2>1. /\ op' \in Ops /\ op'.pc = "dropping"
        /\ op'.snap = op.snap /\ op'.before = op.before /\ op'.failed = op.failed
    BY <1>11, <1>g DEF Swap, OpSteps
  <2> QED
    BY <1>11, <2>1 DEF Swap, SnapTypes, PayloadsAreWhole, Creating, Tree
<1>12. ASSUME SwapFails PROVE SnapInv'
  <2>1. /\ op' \in Ops /\ op'.pc = "rollback"
        /\ op'.snap = op.snap /\ op'.before = op.before /\ op'.failed = op.failed
    BY <1>12, <1>g DEF SwapFails, OpSteps
  <2> QED
    BY <1>12, <1>f, <2>1 DEF SwapFails, SnapTypes, PayloadsAreWhole, Creating, Tree
<1>13. ASSUME RollBack PROVE SnapInv'
  <2>1. op.before \in Versions /\ backup = op.before /\ ~Fails
    BY <1>13, <1>f DEF RollBack, Tree
  <2>2. source' = op.before /\ backup' = Absent /\ UNCHANGED mishaps
    BY <1>13, <2>1 DEF RollBack
  <2> QED
    BY <1>13, <1>r, <2>1, <2>2 DEF RollBack, SnapTypes, PayloadsAreWhole, Creating, Tree
<1>14. ASSUME DropBackup PROVE SnapInv'
  BY <1>14, <1>n DEF DropBackup, SnapTypes, PayloadsAreWhole, Creating, Tree
<1>15. ASSUME CrashMidway PROVE SnapInv'
  <2>1. mishaps = 0 /\ mishaps' = 1
    BY <1>15, <1>f DEF CrashMidway
  <2>2. source \in Versions \/ backup \in Versions
    BY <1>15, <2>1 DEF CrashMidway, SnapTypes, Creating, Tree, Ops, OpSteps
  <2> QED
    BY <1>15, <1>n, <2>1, <2>2 DEF CrashMidway, SnapTypes, PayloadsAreWhole, Creating, Tree
<1>16. ASSUME UNCHANGED snapVars PROVE SnapInv'
  BY <1>16 DEF snapVars, SnapTypes, PayloadsAreWhole, Creating, Tree
<1> QED
  BY <1>1, <1>2, <1>3, <1>4, <1>5, <1>6, <1>7, <1>8, <1>9, <1>10, <1>11, <1>12, <1>13, <1>14, <1>15, <1>16
     DEF SnapNext

\* With at most one failing step or crash, the user's tree is always complete
\* at the path, set aside, or staged to replace it; a restore that fails leaves
\* what it found (SnapshotRestore), and a listed snapshot is a complete copy.
THEOREM RestoreRecovers ==
  ASSUME MaxMishaps <= 1
  PROVE  SnapSpec => []OriginalRecoverable
<1>1. SnapInv => OriginalRecoverable
  <2> SUFFICES ASSUME SnapInv PROVE OriginalRecoverable
    OBVIOUS
  <2>1. source \in Versions \/ staged \in Versions \/ backup \in Versions
    BY DEF SnapInv, SnapTypes, Creating, Tree, Ops, OpSteps
  <2> QED
    BY <2>1 DEF SnapInv, PayloadsAreWhole, Tree, OriginalRecoverable
<1>2. SnapInv /\ [SnapNext]_snapVars => SnapInv'
  BY SnapNext_Inv
<1> QED
  BY SnapInit_Inv, <1>1, <1>2, PTL DEF SnapSpec

-----------------------------------------------------------------------------
(* The audit log: its files hold one chain of records, whichever file a    *)
(* record is in.  An interrupted write leaves at most a line that is no    *)
(* record: with a whole record that lacks its newline, recovery lets the   *)
(* next Append destroy it, and what follows does not hold.                 *)

Clean == "unterminated" \notin TornTails

Entries  == [seq : Int, id : Int, prev : Int]
Segments == [order : Nat \ {0}, recs : Seq(Entries)]

\* The lines of the active file, and all lines there ever were: removed,
\* sealed and active.
Text  == IF active = Missing THEN <<>> ELSE active
Whole == gone \o Lines(segs) \o Text

\* The number of lines before segment i of ss; the last is the active file.
Cut(g, ss, i) == IF i = 1 THEN Len(g) ELSE ss[i - 1].order - 1
Start(i) == Cut(gone, segs, i)

\* The files cut the log into consecutive pieces.
Pieces(g, ss, t, log) ==
    /\ Len(g) <= Len(log) /\ g = SubSeq(log, 1, Len(g))
    /\ \A i \in 1..Len(ss) :
          /\ Cut(g, ss, i) < Cut(g, ss, i + 1) /\ Cut(g, ss, i + 1) <= Len(log)
          /\ ss[i].recs = SubSeq(log, Cut(g, ss, i) + 1, Cut(g, ss, i + 1))
    /\ t = SubSeq(log, Cut(g, ss, Len(ss) + 1) + 1, Len(log))
Placed(log) == Pieces(gone, segs, Text, log)

AuditTypes ==
    /\ active \in Seq(Entries) /\ openLine \in BOOLEAN /\ unsynced \in BOOLEAN
    /\ segs \in Seq(Segments) /\ gone \in Seq(Entries) /\ acked \subseteq Entries
    /\ ckpt \in [through : Nat, head : Int] /\ mem \in [seq : Nat, head : Int]
    /\ healthy \in BOOLEAN /\ number \in Nat
    /\ at \in {"down", "refused", "idle", "open_retain", "open_remove", "open",
               "rotate", "create", "retain", "remove", "write", "sync"}

HeadAt(log, n) == IF n = 0 THEN 0 ELSE log[n].id

\* Every line is the next record of the chain, but for a last one cut short.
Continues(log, i) == log[i].seq = i /\ log[i].prev = HeadAt(log, i - 1)
Broken(log) == log # <<>> /\ log[Len(log)] = Garbled
Linked(log) ==
    /\ \A i \in 1..Len(log) : Continues(log, i) \/ (i = Len(log) /\ log[i] = Garbled)
    /\ openLine => Broken(log)
    /\ Broken(log) => Text # <<>> /\ ~unsynced /\ ~healthy /\ at \in {"idle", "down", "refused"}

\* The checkpoint commits to the records before some file.
Committed(log) ==
    \E m \in 1..(Len(segs) + 1) : ckpt.through = Start(m) /\ ckpt.head = HeadAt(log, Start(m))

\* A logger that may append knows the last record.
Ready == at \in {"open_retain", "open_remove", "open", "rotate", "create", "retain", "remove", "write"}
         \/ (at = "idle" /\ healthy)
Remembered(log) ==
    /\ Ready => mem.seq = Len(log) /\ mem.head = HeadAt(log, Len(log))
    /\ at = "sync" => Len(log) = mem.seq + 1 /\ log[Len(log)] = Record
    /\ unsynced => Text # <<>> /\ (at = "sync" \/ (at = "idle" /\ ~healthy))
    /\ at = "sync" => unsynced
    /\ at = "create" => active = Missing
    /\ at = "rotate" => Text # <<>>
    /\ at \in {"retain", "remove", "write"} \/ (at = "idle" /\ healthy) => active # Missing

\* What was acknowledged is on disk.
AckedInv(log) ==
    \A r \in acked : r.seq \in 1..Len(log) /\ log[r.seq] = r /\ (unsynced => r.seq < Len(log))

\* The records that survive a crash, and how a step changes them.
SolidLen(log) == IF unsynced \/ Broken(log) THEN Len(log) - 1 ELSE Len(log)
Moved(log, new) ==
    /\ SolidLen(new)' \in {SolidLen(log), SolidLen(log) + 1}
    /\ \A i \in 1..SolidLen(log) : new[i] = log[i]

LogInv(log) == Placed(log) /\ Linked(log) /\ Committed(log) /\ Remembered(log) /\ AckedInv(log)

AuditInv == AuditTypes /\ \E log \in Seq(Entries) : LogInv(log)


-----------------------------------------------------------------------------
(* Lemmas: slices of a sequence, and what the pieces put together are.     *)

\* Induction: every property of numbers that fails fails first somewhere.
LEMMA FirstNumber == \A T \in SUBSET Nat : T # {} => \E x \in T : \A y \in T : x <= y
<1>r. PICK R : R = {p \in Nat \X Nat : p[1] < p[2]}
  OBVIOUS
<1>w. R = OpToRel(<, Nat)
  BY <1>r DEF OpToRel
<1>v. IsWellFoundedOn(R, Nat)
  BY <1>w, NatLessThanWellFounded
<1> SUFFICES ASSUME NEW T \in SUBSET Nat, T # {} PROVE \E x \in T : \A y \in T : x <= y
  OBVIOUS
<1>1. \E x \in T : \A y \in T : ~ (<<y, x>> \in R)
  BY <1>v, WFMin
<1>2. \A x, y \in Nat : x < y => <<x, y>> \in R
  BY <1>r
<1>3. PICK x \in T : \A y \in T : ~ (<<y, x>> \in R)
  BY <1>1
<1>4. \A y \in T : x <= y
  <2> SUFFICES ASSUME NEW y \in T PROVE x <= y
    OBVIOUS
  <2>1. ~ (<<y, x>> \in R) /\ x \in Nat /\ y \in Nat
    BY <1>3
  <2>2. ~(y < x)
    BY <2>1, <1>2
  <2> QED
    BY <2>1, <2>2
<1> QED
  BY <1>4

\* The lines after the first a, up to and with line b.
LEMMA SliceIs ==
  ASSUME NEW E, NEW s \in Seq(E), NEW a \in Nat, NEW b \in Nat, a <= b, b <= Len(s)
  PROVE  /\ SubSeq(s, a + 1, b) \in Seq(E) /\ Len(SubSeq(s, a + 1, b)) = b - a
         /\ \A i \in 1..(b - a) : SubSeq(s, a + 1, b)[i] = s[a + i]
<1>1. \A i \in (a + 1)..b : s[i] \in E
  BY ElementOfSeq
<1>2. /\ SubSeq(s, a + 1, b) \in Seq(E)
      /\ Len(SubSeq(s, a + 1, b)) = IF a + 1 <= b THEN b - (a + 1) + 1 ELSE 0
      /\ \A i \in 1..(b - (a + 1) + 1) : SubSeq(s, a + 1, b)[i] = s[a + 1 + i - 1]
  BY <1>1, SubSeqProperties
<1> QED
  BY <1>2

\* The same, counted from the first line that belongs to it.
LEMMA SliceOf ==
  ASSUME NEW E, NEW s \in Seq(E), NEW m \in Nat, NEW b \in Nat, 1 <= m, m <= b + 1, b <= Len(s)
  PROVE  /\ SubSeq(s, m, b) \in Seq(E) /\ Len(SubSeq(s, m, b)) = b - m + 1
         /\ \A i \in 1..(b - m + 1) : SubSeq(s, m, b)[i] = s[m + i - 1]
<1>1. \A i \in m..b : s[i] \in E
  BY ElementOfSeq
<1> QED
  BY <1>1, SubSeqProperties

LEMMA SliceEqual ==
  ASSUME NEW E, NEW s \in Seq(E), NEW a \in Nat, NEW b \in Nat, a <= b, b <= Len(s),
         NEW q \in Seq(E), Len(q) = b - a, \A i \in 1..(b - a) : q[i] = s[a + i]
  PROVE  q = SubSeq(s, a + 1, b)
BY SliceIs, SeqEqual

LEMMA SlicesJoin ==
  ASSUME NEW E, NEW s \in Seq(E)
  PROVE  \A a, b, c \in Nat : a <= b /\ b <= c /\ c <= Len(s) =>
             SubSeq(s, a + 1, b) \o SubSeq(s, b + 1, c) = SubSeq(s, a + 1, c)
<1> SUFFICES ASSUME NEW a \in Nat, NEW b \in Nat, NEW c \in Nat, a <= b, b <= c, c <= Len(s)
             PROVE  SubSeq(s, a + 1, b) \o SubSeq(s, b + 1, c) = SubSeq(s, a + 1, c)
  OBVIOUS
<1>1. a + 1 \in 1..(Len(s) + 1) /\ b \in (a + 1 - 1)..Len(s) /\ c \in b..Len(s)
  BY LenProperties
<1> QED
  BY <1>1, ConcatAdjacentSubSeq

LEMMA SliceOfPrefix ==
  ASSUME NEW E, NEW s \in Seq(E), NEW t \in Seq(E), NEW a \in Nat, NEW b \in Nat, a <= b, b <= Len(s), b <= Len(t),
         \A i \in 1..b : s[i] = t[i]
  PROVE  SubSeq(s, a + 1, b) = SubSeq(t, a + 1, b)
<1>1. \A i \in 1..(b - a) : SubSeq(s, a + 1, b)[i] = t[a + i]
  BY SliceIs
<1> QED
  BY <1>1, SliceIs, SliceEqual

\* FlattenSeq: consecutive slices, joined, are a slice.
JoinOf(ss) == CHOOSE f : f = [i \in 1..Len(ss) |-> IF i = 1 THEN ss[i] ELSE f[i - 1] \o ss[i]]

LEMMA SlicesFlatten ==
  ASSUME NEW E, NEW s \in Seq(E), NEW ss \in Seq(Seq(E)), NEW cut \in [1..(Len(ss) + 1) -> 0..Len(s)],
         \A i \in 1..Len(ss) : cut[i] <= cut[i + 1] /\ ss[i] = SubSeq(s, cut[i] + 1, cut[i + 1])
  PROVE  /\ FlattenSeq(ss) = SubSeq(s, cut[1] + 1, cut[Len(ss) + 1])
         /\ cut[1] <= cut[Len(ss) + 1]
<1> DEFINE n == Len(ss)
           g == [i \in 1..n |-> SubSeq(s, cut[1] + 1, cut[i + 1])]
           Rises(i) == cut[1] <= cut[i + 1]
<1>0. n \in Nat /\ \A i \in 1..(n + 1) : cut[i] \in Nat /\ cut[i] <= Len(s)
  BY LenProperties
<1>1. \A i \in 1..n : cut[1] <= cut[i + 1]
  <2> DEFINE T == {i \in 1..n : ~Rises(i)}
  <2> SUFFICES ASSUME T # {} PROVE FALSE
    OBVIOUS
  <2>1. T \in SUBSET Nat
    OBVIOUS
  <2>2. PICK x \in T : \A y \in T : x <= y
    <3> HIDE DEF T
    <3> QED
      BY <2>1, FirstNumber
  <2>3. CASE x = 1
    BY <2>2, <2>3, <1>0
  <2>4. CASE x # 1
    <3>0. x \in 1..n /\ x \in Nat /\ ~Rises(x)
      BY <1>0
    <3>1. x - 1 \in 1..n /\ x - 1 \notin T
      <4>1. x - 1 \in 1..n /\ ~(x <= x - 1)
        BY <2>4, <3>0, <1>0
      <4> QED
        BY <2>2, <4>1
    <3>2. x - 1 + 1 = x /\ x \in 1..(n + 1) /\ x + 1 \in 1..(n + 1) /\ 1 \in 1..(n + 1)
      BY <3>0, <1>0
    <3>3. cut[1] <= cut[x]
      BY <3>1, <3>2
    <3>4. cut[x] <= cut[x + 1]
      BY <3>0
    <3>5. cut[1] \in Nat /\ cut[x] \in Nat /\ cut[x + 1] \in Nat
      BY <3>2, <1>0
    <3> QED
      BY <3>0, <3>3, <3>4, <3>5
  <2> QED
    BY <2>3, <2>4
<1>2. g = [i \in 1..n |-> IF i = 1 THEN ss[i] ELSE g[i - 1] \o ss[i]]
  <2> SUFFICES ASSUME NEW i \in 1..n PROVE g[i] = IF i = 1 THEN ss[i] ELSE g[i - 1] \o ss[i]
    OBVIOUS
  <2>1. CASE i = 1
    BY <2>1
  <2>2. CASE i # 1
    <3>1. i - 1 \in 1..n /\ i - 1 + 1 = i /\ i \in 1..(n + 1) /\ i + 1 \in 1..(n + 1) /\ 1 \in 1..(n + 1)
      BY <2>2, <1>0
    <3>2. g[i - 1] = SubSeq(s, cut[1] + 1, cut[i])
      BY <3>1
    <3>3. cut[1] <= cut[i] /\ cut[i] <= cut[i + 1] /\ cut[i + 1] <= Len(s) /\ {cut[1], cut[i], cut[i + 1]} \subseteq Nat
      BY <3>1, <1>0, <1>1
    <3>4. SubSeq(s, cut[1] + 1, cut[i]) \o SubSeq(s, cut[i] + 1, cut[i + 1]) = SubSeq(s, cut[1] + 1, cut[i + 1])
      BY <3>3, SlicesJoin
    <3> QED
      BY <2>2, <3>2, <3>4
  <2> QED
    BY <2>1, <2>2
<1>3. \A f : f = [i \in 1..n |-> IF i = 1 THEN ss[i] ELSE f[i - 1] \o ss[i]] => \A i \in 1..n : f[i] = g[i]
  <2> SUFFICES ASSUME NEW f, f = [i \in 1..n |-> IF i = 1 THEN ss[i] ELSE f[i - 1] \o ss[i]]
               PROVE  \A i \in 1..n : f[i] = g[i]
    OBVIOUS
  <2> HIDE DEF g
  <2> DEFINE T == {i \in 1..n : f[i] # g[i]}
  <2> SUFFICES ASSUME T # {} PROVE FALSE
    OBVIOUS
  <2>1. T \in SUBSET Nat
    OBVIOUS
  <2>2. PICK x \in T : \A y \in T : x <= y
    <3> HIDE DEF T
    <3> QED
      BY <2>1, FirstNumber
  <2>3. \A i \in 1..n : f[i] = IF i = 1 THEN ss[i] ELSE f[i - 1] \o ss[i]
    OBVIOUS
  <2>4. \A i \in 1..n : g[i] = IF i = 1 THEN ss[i] ELSE g[i - 1] \o ss[i]
    BY <1>2
  <2>5. x \in 1..n /\ x \in Nat /\ f[x] # g[x]
    BY <1>0
  <2>6. ASSUME x # 1 PROVE f[x - 1] = g[x - 1]
    <3>1. x - 1 \in 1..n /\ ~(x <= x - 1)
      BY <2>5, <2>6, <1>0
    <3>2. x - 1 \notin T
      BY <2>2, <3>1
    <3> QED
      BY <3>1, <3>2
  <2>7. f[x] = IF x = 1 THEN ss[x] ELSE f[x - 1] \o ss[x]
    BY <2>3, <2>5
  <2>8. g[x] = IF x = 1 THEN ss[x] ELSE g[x - 1] \o ss[x]
    BY <2>4, <2>5
  <2> QED
    BY <2>5, <2>6, <2>7, <2>8
<1>4. CASE n = 0
  BY <1>4, <1>0 DEF FlattenSeq
<1>5. CASE n # 0
  <2>1. FlattenSeq(ss) = JoinOf(ss)[n]
    BY <1>5, <1>0 DEF FlattenSeq, JoinOf
  <2>2. JoinOf(ss) = [i \in 1..n |-> IF i = 1 THEN ss[i] ELSE JoinOf(ss)[i - 1] \o ss[i]]
    <3> HIDE DEF g
    <3> QED
      BY <1>2 DEF JoinOf
  <2>3. n \in 1..n
    BY <1>5, <1>0
  <2> QED
    BY <1>1, <1>3, <2>1, <2>2, <2>3
<1> QED
  BY <1>4, <1>5

\* A function on 1..n is a sequence.
LEMMA FunctionIsSeq == \A X : \A n \in Nat : \A f \in [1..n -> X] : f \in Seq(X) /\ Len(f) = n
OBVIOUS

LEMMA CutsRise ==
  ASSUME NEW g \in Seq(Entries), NEW ss \in Seq(Segments), NEW t, NEW log \in Seq(Entries), Pieces(g, ss, t, log)
  PROVE  /\ \A i \in 1..(Len(ss) + 1) : Cut(g, ss, i) \in Nat /\ Cut(g, ss, i) <= Len(log)
         /\ \A a, b \in 1..(Len(ss) + 1) : a < b => Cut(g, ss, a) < Cut(g, ss, b)
<1> DEFINE n == Len(ss)
<1>0. n \in Nat /\ Len(g) \in Nat /\ Len(log) \in Nat
  BY LenProperties
<1>1. \A i \in 1..(n + 1) : Cut(g, ss, i) \in Nat /\ Cut(g, ss, i) <= Len(log)
  <2> SUFFICES ASSUME NEW i \in 1..(n + 1) PROVE Cut(g, ss, i) \in Nat /\ Cut(g, ss, i) <= Len(log)
    OBVIOUS
  <2>1. CASE i = 1
    BY <2>1, <1>0 DEF Cut, Pieces
  <2>2. CASE i # 1
    <3>1. i - 1 \in 1..n /\ i - 1 + 1 = i
      BY <2>2, <1>0
    <3>2. ss[i - 1] \in Segments
      BY <3>1, ElementOfSeq
    <3>3. Cut(g, ss, i) \in Nat
      BY <2>2, <3>2 DEF Cut, Segments
    <3>4. Cut(g, ss, i - 1 + 1) <= Len(log)
      BY <3>1 DEF Pieces
    <3> QED
      BY <3>1, <3>3, <3>4
  <2> QED
    BY <2>1, <2>2
<1>2. ASSUME NEW a \in 1..(n + 1) PROVE \A b \in 1..(n + 1) : a < b => Cut(g, ss, a) < Cut(g, ss, b)
  <2> DEFINE Late(b) == a < b => Cut(g, ss, a) < Cut(g, ss, b)
             T == {b \in 1..(n + 1) : ~Late(b)}
  <2> SUFFICES ASSUME T # {} PROVE FALSE
    OBVIOUS
  <2>1. T \in SUBSET Nat
    OBVIOUS
  <2>2. PICK x \in T : \A y \in T : x <= y
    <3> HIDE DEF T
    <3> QED
      BY <2>1, FirstNumber
  <2>3. x \in 1..(n + 1) /\ ~Late(x) /\ a < x
    OBVIOUS
  <2>4. x - 1 \in 1..n /\ x - 1 \in 1..(n + 1) /\ ~(x <= x - 1) /\ x - 1 + 1 = x /\ (a < x - 1 \/ a = x - 1)
    BY <2>3, <1>0
  <2>5. Late(x - 1)
    BY <2>2, <2>4
  <2>6. Cut(g, ss, x - 1) < Cut(g, ss, x)
    BY <2>4 DEF Pieces
  <2>7. Cut(g, ss, a) \in Nat /\ Cut(g, ss, x - 1) \in Nat /\ Cut(g, ss, x) \in Nat
    BY <1>1, <2>3, <2>4
  <2>8. Cut(g, ss, a) < Cut(g, ss, x)
    <3> HIDE DEF T
    <3> QED
      BY <2>4, <2>5, <2>6, <2>7
  <2> QED
    BY <2>3, <2>8
<1> QED
  BY <1>1, <1>2

\* The lines of some consecutive segments.
LEMMA PiecesJoin ==
  ASSUME NEW g \in Seq(Entries), NEW ss \in Seq(Segments), NEW t, NEW log \in Seq(Entries), Pieces(g, ss, t, log),
         NEW a \in 1..(Len(ss) + 1), NEW b \in a..(Len(ss) + 1)
  PROVE  Lines(SubSeq(ss, a, b - 1)) = SubSeq(log, Cut(g, ss, a) + 1, Cut(g, ss, b))
<1> DEFINE sub == SubSeq(ss, a, b - 1)
           m   == b - a
           rs  == [i \in DOMAIN sub |-> sub[i].recs]
           cut == [i \in 1..(m + 1) |-> Cut(g, ss, a + i - 1)]
<1>0. m \in Nat /\ Len(ss) \in Nat /\ a \in Nat /\ b \in Nat /\ a >= 1 /\ b <= Len(ss) + 1 /\ a <= b
  BY LenProperties
<1>1. /\ sub \in Seq(Segments) /\ Len(sub) = m /\ DOMAIN sub = 1..m
      /\ \A i \in 1..m : sub[i] = ss[a + i - 1] /\ a + i - 1 \in 1..Len(ss)
  <2>1. /\ SubSeq(ss, (a - 1) + 1, b - 1) \in Seq(Segments) /\ Len(SubSeq(ss, (a - 1) + 1, b - 1)) = (b - 1) - (a - 1)
        /\ \A i \in 1..((b - 1) - (a - 1)) : SubSeq(ss, (a - 1) + 1, b - 1)[i] = ss[a - 1 + i]
    <3>1. a - 1 \in Nat /\ b - 1 \in Nat /\ a - 1 <= b - 1 /\ b - 1 <= Len(ss)
      BY <1>0
    <3> QED
      BY <3>1, SliceIs
  <2>2. (a - 1) + 1 = a /\ (b - 1) - (a - 1) = m /\ \A i \in 1..m : a - 1 + i = a + i - 1 /\ a + i - 1 \in 1..Len(ss)
    BY <1>0
  <2>3. sub \in Seq(Segments) /\ Len(sub) = m /\ \A i \in 1..m : sub[i] = ss[a + i - 1] /\ a + i - 1 \in 1..Len(ss)
    BY <2>1, <2>2
  <2> QED
    BY <2>3, LenProperties
<1>2. rs \in Seq(Seq(Entries)) /\ Len(rs) = m
  <2>1. \A i \in 1..m : sub[i].recs \in Seq(Entries)
    <3>1. \A i \in 1..Len(ss) : ss[i] \in Segments
      BY ElementOfSeq
    <3>2. \A i \in 1..m : sub[i] \in Segments
      BY <1>1, <3>1
    <3> QED
      BY <3>2 DEF Segments
  <2>2. rs = [i \in 1..m |-> sub[i].recs]
    BY <1>1
  <2>3. rs \in [1..m -> Seq(Entries)]
    BY <2>1, <2>2
  <2> HIDE DEF rs
  <2> QED
    BY <2>3, <1>0, FunctionIsSeq
<1>3. cut \in [1..(Len(rs) + 1) -> 0..Len(log)]
  <2>1. \A i \in 1..(m + 1) : a + i - 1 \in 1..(Len(ss) + 1)
    BY <1>0
  <2>2. \A i \in 1..(m + 1) : Cut(g, ss, a + i - 1) \in Nat /\ Cut(g, ss, a + i - 1) <= Len(log)
    BY <2>1, CutsRise
  <2>3. Len(log) \in Nat
    BY LenProperties
  <2>4. \A x : x \in Nat /\ x <= Len(log) => x \in 0..Len(log)
    BY <2>3
  <2>5. \A i \in 1..(m + 1) : Cut(g, ss, a + i - 1) \in 0..Len(log)
    BY <2>2, <2>4
  <2> QED
    BY <1>2, <2>5
<1>4. \A i \in 1..Len(rs) : cut[i] <= cut[i + 1] /\ rs[i] = SubSeq(log, cut[i] + 1, cut[i + 1])
  <2> SUFFICES ASSUME NEW i \in 1..m PROVE cut[i] <= cut[i + 1] /\ rs[i] = SubSeq(log, cut[i] + 1, cut[i + 1])
    BY <1>2
  <2>1. /\ i \in 1..(m + 1) /\ i + 1 \in 1..(m + 1) /\ a + i - 1 \in 1..Len(ss) /\ a + (i + 1) - 1 = (a + i - 1) + 1
        /\ a + i - 1 \in 1..(Len(ss) + 1) /\ (a + i - 1) + 1 \in 1..(Len(ss) + 1)
    BY <1>0, <1>1
  <2>2. cut[i] = Cut(g, ss, a + i - 1) /\ cut[i + 1] = Cut(g, ss, (a + i - 1) + 1) /\ rs[i] = ss[a + i - 1].recs
    BY <2>1, <1>1
  <2>3. /\ Cut(g, ss, a + i - 1) < Cut(g, ss, (a + i - 1) + 1)
        /\ ss[a + i - 1].recs = SubSeq(log, Cut(g, ss, a + i - 1) + 1, Cut(g, ss, (a + i - 1) + 1))
    BY <2>1 DEF Pieces
  <2>4. Cut(g, ss, a + i - 1) \in Nat /\ Cut(g, ss, (a + i - 1) + 1) \in Nat
    BY <2>1, CutsRise
  <2> HIDE DEF cut, rs
  <2> QED
    BY <2>2, <2>3, <2>4
<1>5. cut[1] = Cut(g, ss, a) /\ cut[Len(rs) + 1] = Cut(g, ss, b)
  <2>1. 1 \in 1..(m + 1) /\ m + 1 \in 1..(m + 1) /\ a + 1 - 1 = a /\ a + (m + 1) - 1 = b
    BY <1>0
  <2> QED
    BY <1>2, <2>1
<1>6. FlattenSeq(rs) = SubSeq(log, cut[1] + 1, cut[Len(rs) + 1])
  <2> HIDE DEF cut, rs
  <2> QED
    BY <1>2, <1>3, <1>4, SlicesFlatten
<1> QED
  BY <1>5, <1>6 DEF Lines

\* The pieces make up the log, and are as long as they are.
LEMMA PiecesWhole ==
  ASSUME NEW g \in Seq(Entries), NEW ss \in Seq(Segments), NEW t, NEW log \in Seq(Entries), Pieces(g, ss, t, log)
  PROVE  /\ g \o Lines(ss) = SubSeq(log, 1, Cut(g, ss, Len(ss) + 1))
         /\ g \o Lines(ss) \o t = log
<1> DEFINE e == Cut(g, ss, Len(ss) + 1)
<1>0. Len(ss) \in Nat /\ Len(log) \in Nat /\ Len(g) \in Nat /\ Len(ss) + 1 \in 1..(Len(ss) + 1) /\ 1 \in 1..(Len(ss) + 1)
  BY LenProperties
<1>1. e \in Nat /\ e <= Len(log) /\ Cut(g, ss, 1) = Len(g) /\ Len(g) <= e
  <2>1. e \in Nat /\ e <= Len(log) /\ (1 < Len(ss) + 1 => Cut(g, ss, 1) < e)
    BY <1>0, CutsRise
  <2>2. Cut(g, ss, 1) = Len(g)
    BY DEF Cut
  <2>3. Len(ss) = 0 => e = Cut(g, ss, 1)
    OBVIOUS
  <2> HIDE DEF e
  <2> QED
    BY <2>1, <2>2, <2>3, <1>0
<1>2. Lines(SubSeq(ss, 1, (Len(ss) + 1) - 1)) = SubSeq(log, Len(g) + 1, e)
  <2>1. Len(ss) + 1 \in 1..(Len(ss) + 1)
    BY <1>0
  <2>2. Lines(SubSeq(ss, 1, (Len(ss) + 1) - 1)) = SubSeq(log, Cut(g, ss, 1) + 1, e)
    BY <1>0, <2>1, PiecesJoin
  <2> HIDE DEF e
  <2> QED
    BY <1>1, <2>2
<1>3. SubSeq(ss, 1, (Len(ss) + 1) - 1) = ss
  BY <1>0, SubSeqFull
<1>4. g = SubSeq(log, 1, Len(g)) /\ t = SubSeq(log, e + 1, Len(log))
  BY DEF Pieces
<1> HIDE DEF e
<1>5. /\ 1 \in 1..(Len(log) + 1) /\ Len(g) \in (1 - 1)..Len(log) /\ e \in Len(g)..Len(log)
      /\ e \in (1 - 1)..Len(log) /\ Len(log) \in e..Len(log)
  BY <1>0, <1>1
<1>6. /\ SubSeq(log, 1, Len(g)) \o SubSeq(log, Len(g) + 1, e) = SubSeq(log, 1, e)
      /\ SubSeq(log, 1, e) \o SubSeq(log, e + 1, Len(log)) = SubSeq(log, 1, Len(log))
  BY <1>5, ConcatAdjacentSubSeq
<1>7. SubSeq(log, 1, Len(log)) = log
  BY SubSeqFull
<1>8. g \o Lines(ss) = SubSeq(log, 1, e) /\ g \o Lines(ss) \o t = log
  BY <1>2, <1>3, <1>4, <1>6, <1>7, Zenon
<1> QED
  BY <1>8 DEF e

-----------------------------------------------------------------------------
(* Lemmas: what the checkpoint covers, what is visible, what verifies.     *)

LEMMA LogFacts ==
  ASSUME AuditTypes, NEW log \in Seq(Entries), Placed(log)
  PROVE  /\ Len(log) \in Nat /\ Len(segs) \in Nat /\ DOMAIN log = 1..Len(log) /\ DOMAIN segs = 1..Len(segs)
         /\ \A i \in 1..(Len(segs) + 1) : Start(i) \in Nat /\ Start(i) <= Len(log)
         /\ \A a, b \in 1..(Len(segs) + 1) : a < b => Start(a) < Start(b)
         /\ \A i \in 1..Len(segs) : segs[i].order = Start(i + 1) + 1 /\ segs[i].recs = SubSeq(log, Start(i) + 1, Start(i + 1))
         /\ Text = SubSeq(log, Start(Len(segs) + 1) + 1, Len(log)) /\ Text \in Seq(Entries)
         /\ Len(Text) = Len(log) - Start(Len(segs) + 1)
         /\ Start(1) = Len(gone) /\ Len(gone) \in Nat
<1>0. segs \in Seq(Segments) /\ gone \in Seq(Entries)
  BY DEF AuditTypes
<1>1. Len(log) \in Nat /\ Len(segs) \in Nat /\ DOMAIN log = 1..Len(log) /\ DOMAIN segs = 1..Len(segs) /\ Len(gone) \in Nat
  BY <1>0, LenProperties
<1>2. /\ \A i \in 1..(Len(segs) + 1) : Start(i) \in Nat /\ Start(i) <= Len(log)
      /\ \A a, b \in 1..(Len(segs) + 1) : a < b => Start(a) < Start(b)
  BY <1>0, CutsRise DEF Placed, Start
<1>3. \A i \in 1..Len(segs) : segs[i].order = Start(i + 1) + 1 /\ segs[i].recs = SubSeq(log, Start(i) + 1, Start(i + 1))
  <2> SUFFICES ASSUME NEW i \in 1..Len(segs)
               PROVE  segs[i].order = Start(i + 1) + 1 /\ segs[i].recs = SubSeq(log, Start(i) + 1, Start(i + 1))
    OBVIOUS
  <2>1. segs[i] \in Segments
    BY <1>0, ElementOfSeq
  <2>2. Start(i + 1) = segs[i].order - 1
    <3>1. i + 1 # 1 /\ (i + 1) - 1 = i
      BY <1>1
    <3> QED
      BY <3>1 DEF Start, Cut
  <2>3. segs[i].recs = SubSeq(log, Start(i) + 1, Start(i + 1))
    BY DEF Placed, Pieces, Start
  <2> QED
    BY <2>1, <2>2, <2>3 DEF Segments
<1>4. Text = SubSeq(log, Start(Len(segs) + 1) + 1, Len(log))
  BY DEF Placed, Pieces, Start
<1>5. Text \in Seq(Entries) /\ Len(Text) = Len(log) - Start(Len(segs) + 1)
  <2>1. Start(Len(segs) + 1) \in Nat /\ Start(Len(segs) + 1) <= Len(log)
    BY <1>1, <1>2
  <2> QED
    BY <1>1, <1>4, <2>1, SliceIs
<1> QED
  BY <1>1, <1>2, <1>3, <1>4, <1>5 DEF Start, Cut

\* Stale are the segments before the one the checkpoint reaches to.
LEMMA Split ==
  ASSUME AuditTypes, NEW log \in Seq(Entries), Placed(log), NEW m \in 1..(Len(segs) + 1), ckpt.through = Start(m)
  PROVE  /\ Stale = SubSeq(segs, 1, m - 1) /\ Retained = SubSeq(segs, m, Len(segs))
         /\ Lines(Retained) = SubSeq(log, Start(m) + 1, Start(Len(segs) + 1))
         /\ active = Text => Visible = SubSeq(log, Start(m) + 1, Len(log))
<1> DEFINE n == Len(segs)
           Parts(x) == /\ \A i \in 1..x : segs[i].order <= ckpt.through + 1
                       /\ x < n => segs[x + 1].order > ckpt.through + 1
<1>0. n \in Nat /\ m \in Nat /\ m >= 1 /\ m <= n + 1
  BY LogFacts
<1>1. \A i \in 1..n : segs[i].order <= ckpt.through + 1 <=> i < m
  <2> SUFFICES ASSUME NEW i \in 1..n PROVE segs[i].order <= ckpt.through + 1 <=> i < m
    OBVIOUS
  <2>1. i + 1 \in 1..(n + 1)
    BY <1>0
  <2>2. segs[i].order = Start(i + 1) + 1 /\ Start(i + 1) \in Nat /\ Start(m) \in Nat
    BY <2>1, LogFacts
  <2>3. (i + 1 < m => Start(i + 1) < Start(m)) /\ (m < i + 1 => Start(m) < Start(i + 1))
    BY <2>1, LogFacts
  <2> QED
    BY <1>0, <2>2, <2>3
<1>late. \A i \in 1..n : ~(segs[i].order <= ckpt.through + 1) <=> segs[i].order > ckpt.through + 1
  <2> SUFFICES ASSUME NEW i \in 1..n PROVE ~(segs[i].order <= ckpt.through + 1) <=> segs[i].order > ckpt.through + 1
    OBVIOUS
  <2>1. segs \in Seq(Segments) /\ ckpt.through \in Nat
    BY DEF AuditTypes
  <2>2. segs[i] \in Segments
    BY <2>1, ElementOfSeq
  <2>3. segs[i].order \in Nat
    BY <2>2 DEF Segments
  <2> QED
    BY <2>1, <2>3
<1>2. m - 1 \in 0..n /\ Parts(m - 1)
  <2>1. m - 1 \in 0..n /\ \A i \in 1..(m - 1) : i \in 1..n /\ i < m
    BY <1>0
  <2>2. (m - 1) + 1 = m /\ (m - 1 < n => m \in 1..n /\ ~(m < m))
    BY <1>0
  <2>3. m \in 1..n => segs[m].order > ckpt.through + 1
    BY <1>1, <1>late, <2>2
  <2> QED
    BY <1>1, <2>1, <2>2, <2>3
<1>3. \A x \in 0..n : Parts(x) => x = m - 1
  <2> SUFFICES ASSUME NEW x \in 0..n, Parts(x) PROVE x = m - 1
    OBVIOUS
  <2>1. x # 0 => x < m
    BY <1>0, <1>1
  <2>2. x < n => ~(x + 1 < m)
    <3> SUFFICES ASSUME x < n PROVE ~(x + 1 < m)
      OBVIOUS
    <3>1. x + 1 \in 1..n
      BY <1>0
    <3> QED
      BY <1>1, <1>late, <3>1
  <2> QED
    BY <1>0, <2>1, <2>2
<1>4. Covered = m - 1
  <2>1. Covered = CHOOSE x \in 0..n : Parts(x)
    BY DEF Covered
  <2> HIDE DEF Parts
  <2> QED
    BY <1>2, <1>3, <2>1
<1>5. Stale = SubSeq(segs, 1, m - 1) /\ Retained = SubSeq(segs, m, n)
  BY <1>0, <1>4 DEF Stale, Retained
<1>6. Lines(Retained) = SubSeq(log, Start(m) + 1, Start(n + 1))
  <2>1. m \in 1..(n + 1) /\ n + 1 \in m..(n + 1) /\ (n + 1) - 1 = n
    BY <1>0
  <2>2. gone \in Seq(Entries) /\ segs \in Seq(Segments) /\ Pieces(gone, segs, Text, log)
    BY DEF AuditTypes, Placed
  <2>3. Lines(SubSeq(segs, m, (n + 1) - 1)) = SubSeq(log, Cut(gone, segs, m) + 1, Cut(gone, segs, n + 1))
    BY <2>1, <2>2, PiecesJoin
  <2> QED
    BY <1>5, <2>1, <2>3 DEF Start
<1>7. ASSUME active = Text PROVE Visible = SubSeq(log, Start(m) + 1, Len(log))
  <2>1. n + 1 \in 1..(n + 1) /\ (m < n + 1 \/ m = n + 1)
    BY <1>0
  <2>2. Start(m) \in Nat /\ Start(n + 1) \in Nat /\ Start(m) <= Start(n + 1) /\ Start(n + 1) <= Len(log) /\ Len(log) \in Nat
    BY <2>1, LogFacts
  <2>3. SubSeq(log, Start(m) + 1, Start(n + 1)) \o SubSeq(log, Start(n + 1) + 1, Len(log)) = SubSeq(log, Start(m) + 1, Len(log))
    <3>1. Start(m) + 1 \in 1..(Len(log) + 1) /\ Start(n + 1) \in ((Start(m) + 1) - 1)..Len(log) /\ Len(log) \in Start(n + 1)..Len(log)
      BY <2>2
    <3> QED
      BY <3>1, ConcatAdjacentSubSeq
  <2>4. Text = SubSeq(log, Start(n + 1) + 1, Len(log))
    BY LogFacts
  <2> QED
    BY <1>6, <1>7, <2>3, <2>4 DEF Visible
<1> QED
  BY <1>5, <1>6, <1>7

\* The segments the checkpoint does not cover, and the lines of the first of them.
LEMMA RetainedLines ==
  ASSUME AuditTypes, NEW log \in Seq(Entries), Placed(log), NEW m \in 1..(Len(segs) + 1), ckpt.through = Start(m)
  PROVE  /\ Retained \in Seq(Segments) /\ Len(Retained) = Len(segs) - m + 1
         /\ \A i \in 1..(Len(segs) - m + 1) :
               /\ Retained[i].order = Start(m + i) + 1 /\ m + i \in 1..(Len(segs) + 1)
               /\ Lines(SubSeq(Retained, 1, i)) = SubSeq(log, Start(m) + 1, Start(m + i))
               /\ Start(m) < Start(m + i) /\ Start(m + i) <= Len(log) /\ Start(m + i) \in Nat
               /\ Len(Lines(SubSeq(Retained, 1, i))) = Start(m + i) - Start(m)
<1> DEFINE n == Len(segs)
<1>1. n \in Nat /\ m \in Nat /\ m >= 1 /\ m <= n + 1 /\ Len(log) \in Nat
  BY LogFacts
<1>s. \A i \in 1..n : segs[i] \in Segments
  BY ElementOfSeq DEF AuditTypes
<1>2. Retained = SubSeq(segs, m, n)
  BY Split
<1>3. /\ Retained \in Seq(Segments) /\ Len(Retained) = n - m + 1
      /\ \A i \in 1..(n - m + 1) : Retained[i] = segs[m + i - 1]
  <2>1. \A i \in m..n : segs[i] \in Segments
    BY <1>1, <1>s
  <2>2. /\ SubSeq(segs, m, n) \in Seq(Segments) /\ Len(SubSeq(segs, m, n)) = IF m <= n THEN n - m + 1 ELSE 0
        /\ \A i \in 1..(n - m + 1) : SubSeq(segs, m, n)[i] = segs[m + i - 1]
    BY <1>1, <2>1, SubSeqProperties
  <2>3. Len(Retained) = n - m + 1
    BY <1>1, <1>2, <2>2
  <2> QED
    BY <1>2, <2>2, <2>3
<1> SUFFICES ASSUME NEW i \in 1..(n - m + 1)
             PROVE  /\ Retained[i].order = Start(m + i) + 1 /\ m + i \in 1..(n + 1)
                    /\ Lines(SubSeq(Retained, 1, i)) = SubSeq(log, Start(m) + 1, Start(m + i))
                    /\ Start(m) < Start(m + i) /\ Start(m + i) <= Len(log) /\ Start(m + i) \in Nat
                    /\ Len(Lines(SubSeq(Retained, 1, i))) = Start(m + i) - Start(m)
  BY <1>3
<1>4. /\ m + i - 1 \in 1..n /\ m + i \in m..(n + 1) /\ m + i \in 1..(n + 1) /\ (m + i) - 1 = m + i - 1
      /\ (m + i - 1) + 1 = m + i /\ m < m + i
  BY <1>1
<1>5. SubSeq(Retained, 1, i) = SubSeq(segs, m, (m + i) - 1)
  <2>1. \A k \in 1..i : Retained[k] = segs[m + k - 1] /\ segs[m + k - 1] \in Segments
    <3>1. \A k \in 1..i : k \in 1..(n - m + 1) /\ m + k - 1 \in 1..n
      BY <1>1
    <3> QED
      BY <1>3, <1>s, <3>1
  <2>2. /\ SubSeq(Retained, 1, i) \in Seq(Segments) /\ Len(SubSeq(Retained, 1, i)) = i
        /\ \A k \in 1..i : SubSeq(Retained, 1, i)[k] = Retained[k]
    <3>1. \A k \in 1..i : Retained[k] \in Segments
      BY <2>1
    <3>2. /\ SubSeq(Retained, 1, i) \in Seq(Segments) /\ Len(SubSeq(Retained, 1, i)) = IF 1 <= i THEN i - 1 + 1 ELSE 0
          /\ \A k \in 1..(i - 1 + 1) : SubSeq(Retained, 1, i)[k] = Retained[1 + k - 1]
      BY <3>1, SubSeqProperties
    <3>3. 1 <= i /\ i - 1 + 1 = i /\ \A k \in 1..i : 1 + k - 1 = k
      OBVIOUS
    <3> QED
      BY <3>2, <3>3
  <2>3. /\ SubSeq(segs, m, (m + i) - 1) \in Seq(Segments) /\ Len(SubSeq(segs, m, (m + i) - 1)) = i
        /\ \A k \in 1..i : SubSeq(segs, m, (m + i) - 1)[k] = segs[m + k - 1]
    <3>1. \A k \in m..((m + i) - 1) : segs[k] \in Segments
      <4>1. \A k \in m..((m + i) - 1) : k \in 1..n
        BY <1>1
      <4> QED
        BY <1>s, <4>1
    <3>2. /\ SubSeq(segs, m, (m + i) - 1) \in Seq(Segments)
          /\ Len(SubSeq(segs, m, (m + i) - 1)) = IF m <= (m + i) - 1 THEN ((m + i) - 1) - m + 1 ELSE 0
          /\ \A k \in 1..(((m + i) - 1) - m + 1) : SubSeq(segs, m, (m + i) - 1)[k] = segs[m + k - 1]
      BY <1>1, <3>1, SubSeqProperties
    <3>3. m <= (m + i) - 1 /\ ((m + i) - 1) - m + 1 = i
      BY <1>1
    <3> QED
      BY <3>2, <3>3
  <2> QED
    BY <2>1, <2>2, <2>3, SeqEqual
<1>6. Lines(SubSeq(segs, m, (m + i) - 1)) = SubSeq(log, Start(m) + 1, Start(m + i))
  <2>1. gone \in Seq(Entries) /\ segs \in Seq(Segments) /\ Pieces(gone, segs, Text, log)
    BY DEF AuditTypes, Placed
  <2> QED
    BY <1>4, <2>1, PiecesJoin DEF Start
<1>7. Start(m + i) \in Nat /\ Start(m + i) <= Len(log) /\ Start(m) < Start(m + i) /\ Start(m) \in Nat
  BY <1>4, LogFacts
<1>8. Len(SubSeq(log, Start(m) + 1, Start(m + i))) = Start(m + i) - Start(m)
  <2>1. PICK from \in Nat : from = Start(m)
    BY <1>7
  <2>2. from <= Start(m + i)
    BY <1>7, <2>1
  <2>3. Len(SubSeq(log, from + 1, Start(m + i))) = Start(m + i) - from
    BY <1>7, <2>2, SliceIs
  <2> QED
    BY <2>1, <2>3
<1>9. Retained[i].order = Start(m + i) + 1
  BY <1>3, <1>4, LogFacts
<1> QED
  BY <1>4, <1>5, <1>6, <1>7, <1>8, <1>9

\* Recovery accepts an unbroken chain and reads its last record; it refuses a
\* broken one.
LEMMA Verified ==
  ASSUME AuditTypes, NEW log \in Seq(Entries), LogInv(log), active # Missing
  PROVE  /\ ~Broken(log) => /\ Verifies /\ LastOf(Visible).seq = Len(log)
                            /\ LastOf(Visible).id = HeadAt(log, Len(log))
         /\ Broken(log) => ~Verifies
<1> DEFINE n == Len(segs)
<1>0. Placed(log) /\ Linked(log) /\ Committed(log)
  BY DEF LogInv
<1>1. PICK m \in 1..(n + 1) : ckpt.through = Start(m) /\ ckpt.head = HeadAt(log, Start(m))
  BY <1>0 DEF Committed
<1>f. PICK from \in Nat : from = Start(m)
  BY <1>0, LogFacts
<1>2. /\ n \in Nat /\ Len(log) \in Nat /\ n + 1 \in 1..(n + 1)
      /\ from <= Len(log) /\ Start(n + 1) \in Nat /\ from <= Start(n + 1)
  <2>1. n \in Nat /\ Len(log) \in Nat /\ DOMAIN log = 1..Len(log)
    BY <1>0, LogFacts
  <2>2. n + 1 \in 1..(n + 1) /\ (m < n + 1 \/ m = n + 1)
    BY <2>1
  <2>3. Start(m) \in Nat /\ Start(m) <= Len(log) /\ Start(n + 1) \in Nat /\ (m < n + 1 => Start(m) < Start(n + 1))
    BY <1>0, <2>2, LogFacts
  <2>4. Start(m) <= Start(n + 1)
    BY <2>2, <2>3
  <2> QED
    BY <1>f, <2>1, <2>2, <2>3, <2>4
<1>r. /\ Retained \in Seq(Segments)
      /\ \A i \in 1..Len(Retained) : Retained[i].order = ckpt.through + Len(Lines(SubSeq(Retained, 1, i))) + 1
  <2>1. /\ Retained \in Seq(Segments) /\ Len(Retained) = n - m + 1
        /\ \A i \in 1..(n - m + 1) :
              /\ Retained[i].order = Start(m + i) + 1 /\ m + i \in 1..(n + 1)
              /\ Lines(SubSeq(Retained, 1, i)) = SubSeq(log, Start(m) + 1, Start(m + i))
              /\ Start(m) < Start(m + i) /\ Start(m + i) <= Len(log) /\ Start(m + i) \in Nat
              /\ Len(Lines(SubSeq(Retained, 1, i))) = Start(m + i) - Start(m)
    BY <1>0, <1>1, RetainedLines
  <2> SUFFICES ASSUME NEW i \in 1..(n - m + 1)
               PROVE  Retained[i].order = ckpt.through + Len(Lines(SubSeq(Retained, 1, i))) + 1
    BY <2>1
  <2>2. Retained[i].order = Start(m + i) + 1 /\ Len(Lines(SubSeq(Retained, 1, i))) = Start(m + i) - from /\ Start(m + i) \in Nat
    BY <1>f, <2>1
  <2> QED
    BY <1>1, <1>f, <2>2
<1>3. Visible = SubSeq(log, from + 1, Len(log))
  BY <1>0, <1>1, <1>f, Split DEF Text
<1>4. /\ Visible \in Seq(Entries) /\ Len(Visible) = Len(log) - from /\ DOMAIN Visible = 1..(Len(log) - from)
      /\ \A i \in 1..(Len(log) - from) : Visible[i] = log[from + i]
  <2>1. /\ SubSeq(log, from + 1, Len(log)) \in Seq(Entries) /\ Len(SubSeq(log, from + 1, Len(log))) = Len(log) - from
        /\ \A i \in 1..(Len(log) - from) : SubSeq(log, from + 1, Len(log))[i] = log[from + i]
    BY <1>2, SliceIs
  <2> QED
    BY <1>3, <2>1, LenProperties
<1>5. LastOf(Visible) = IF Len(log) = from THEN [seq |-> from, id |-> HeadAt(log, from)] ELSE log[Len(log)]
  <2>1. CASE Len(log) = from
    <3>1. Visible = <<>>
      BY <1>2, <1>4, <2>1, EmptySeq
    <3> QED
      BY <1>1, <1>f, <2>1, <3>1 DEF LastOf
  <2>2. CASE Len(log) # from
    <3>1. Len(log) - from \in 1..(Len(log) - from) /\ from + (Len(log) - from) = Len(log)
      BY <1>2, <2>2
    <3>2. Visible # <<>>
      <4> SUFFICES ASSUME Visible = <<>> PROVE FALSE
        OBVIOUS
      <4>1. Len(Visible) = 0
        OBVIOUS
      <4> QED
        BY <1>2, <1>4, <2>2, <4>1
    <3>3. Visible[Len(Visible)] = log[Len(log)]
      BY <1>4, <3>1
    <3> QED
      BY <2>2, <3>2, <3>3 DEF LastOf
  <2> QED
    BY <2>1, <2>2
<1>6. ASSUME ~Broken(log) PROVE /\ Chained(Visible, ckpt.through, ckpt.head)
                               /\ LastOf(Visible).seq = Len(log) /\ LastOf(Visible).id = HeadAt(log, Len(log))
  <2>1. \A i \in 1..Len(log) : Continues(log, i)
    <3> SUFFICES ASSUME NEW i \in 1..Len(log), ~Continues(log, i) PROVE FALSE
      OBVIOUS
    <3>1. i = Len(log) /\ log[i] = Garbled
      BY <1>0 DEF Linked
    <3>2. log # <<>>
      BY <1>2
    <3> QED
      BY <1>6, <3>1, <3>2 DEF Broken
  <2>2. \A i \in 1..(Len(log) - from) :
          /\ Visible[i].seq = from + i
          /\ Visible[i].prev = IF i = 1 THEN ckpt.head ELSE Visible[i - 1].id
    <3> SUFFICES ASSUME NEW i \in 1..(Len(log) - from)
                 PROVE  /\ Visible[i].seq = from + i
                        /\ Visible[i].prev = IF i = 1 THEN ckpt.head ELSE Visible[i - 1].id
      OBVIOUS
    <3>1. from + i \in 1..Len(log) /\ i \in Nat /\ i >= 1
      BY <1>2
    <3>2. log[from + i].seq = from + i /\ log[from + i].prev = HeadAt(log, from + i - 1)
      BY <2>1, <3>1 DEF Continues
    <3>3. CASE i = 1
      <4>1. from + i - 1 = from
        BY <1>2, <3>3
      <4> QED
        BY <1>1, <1>f, <1>4, <3>2, <3>3, <4>1
    <3>4. CASE i # 1
      <4>1. i - 1 \in 1..(Len(log) - from) /\ from + (i - 1) = from + i - 1 /\ from + i - 1 # 0
        BY <1>2, <3>1, <3>4
      <4>2. Visible[i - 1] = log[from + i - 1]
        BY <1>4, <4>1
      <4> QED
        BY <1>4, <3>2, <3>4, <4>1, <4>2 DEF HeadAt
    <3> QED
      BY <3>3, <3>4
  <2>3. Chained(Visible, ckpt.through, ckpt.head)
    BY <1>1, <1>f, <1>4, <2>2 DEF Chained
  <2>4. Len(log) # from => Len(log) # 0 /\ log[Len(log)].seq = Len(log)
    <3> SUFFICES ASSUME Len(log) # from PROVE Len(log) # 0 /\ log[Len(log)].seq = Len(log)
      OBVIOUS
    <3>1. Len(log) \in 1..Len(log) /\ Len(log) # 0
      BY <1>2
    <3> QED
      BY <2>1, <3>1 DEF Continues
  <2> QED
    BY <1>5, <2>3, <2>4 DEF HeadAt
<1>7. SuffixesMatch
  <2> SUFFICES ASSUME NEW i \in 1..Len(Retained)
               PROVE  Retained[i].order = ckpt.through + Len(Lines(SubSeq(Retained, 1, i))) + 1
    BY <1>r, LenProperties DEF SuffixesMatch
  <2> QED
    BY <1>r
<1>8. ASSUME Broken(log) PROVE ~Verifies
  <2>1. Text # <<>> /\ log[Len(log)] = Garbled
    BY <1>0, <1>8 DEF Linked, Broken
  <2>2. Start(n + 1) < Len(log)
    <3>1. Text \in Seq(Entries) /\ Len(Text) = Len(log) - Start(n + 1)
      BY <1>0, LogFacts
    <3>2. Len(Text) # 0
      BY <2>1, <3>1, EmptySeq
    <3>3. Start(n + 1) <= Len(log)
      BY <1>0, <1>2, LogFacts
    <3> QED
      BY <1>2, <3>1, <3>2, <3>3
  <2>3. Len(log) - from \in 1..(Len(log) - from) /\ from + (Len(log) - from) = Len(log)
    BY <1>2, <2>2
  <2>4. Visible[Len(log) - from].seq = -1
    BY <1>4, <2>1, <2>3 DEF Garbled
  <2>5. Len(log) - from \in DOMAIN Visible /\ ckpt.through + (Len(log) - from) # -1
    BY <1>1, <1>f, <1>2, <1>4, <2>3
  <2>6. ~Chained(Visible, ckpt.through, ckpt.head)
    BY <2>4, <2>5 DEF Chained
  <2> QED
    BY <2>6 DEF Verifies, NoFiles
<1> QED
  BY <1>6, <1>7, <1>8 DEF Verifies

-----------------------------------------------------------------------------
(* The steps.  Each leads from a sound log to a sound log.                 *)

Leads(log) == \E new \in Seq(Entries) : LogInv(new)' /\ Moved(log, new)

LEMMA FlagSteps ==
  ASSUME AuditAssumption, AuditTypes, NEW log \in Seq(Entries), LogInv(log), AppendBegin \/ Close
  PROVE  AuditTypes' /\ Leads(log)
<1>1. AuditTypes'
  <2>1. UNCHANGED <<active, openLine, unsynced, segs, ckpt, mem, acked, gone>>
    BY DEF AppendBegin, Close, fileVars
  <2>2. healthy' \in BOOLEAN
    BY DEF AuditTypes, AppendBegin, Close
  <2>3. number' \in Nat
    BY DEF AuditTypes, AppendBegin, Close
  <2>4. at' \in {"idle", "rotate", "write"}
    BY DEF AuditTypes, AppendBegin, Close
  <2> QED
    BY <2>1, <2>2, <2>3, <2>4 DEF AuditTypes
<1>2. UNCHANGED <<active, openLine, unsynced, segs, ckpt, mem, acked, gone>> /\ Text' = Text
  BY DEF AppendBegin, Close, fileVars, Text
<1>3. Placed(log)' /\ Committed(log)' /\ AckedInv(log)'
  BY <1>2 DEF LogInv, Placed, Committed, AckedInv, Start
<1>4. /\ at = "idle" /\ healthy /\ ~Broken(log) /\ ~unsynced /\ ~openLine /\ active # Missing
      /\ mem.seq = Len(log) /\ mem.head = HeadAt(log, Len(log))
  BY DEF AppendBegin, Close, LogInv, Linked, Remembered, Ready
<1>5. Linked(log)'
  BY <1>2, <1>4 DEF LogInv, Linked, Broken
<1>6. AppendBegin => at' \in {"rotate", "write"} /\ healthy' /\ (at' = "rotate" => Text # <<>>)
  <2>1. Full => Text # <<>>
    <3> SUFFICES ASSUME Len(active) >= PerSegment, active = <<>> PROVE FALSE
      BY <1>4 DEF Full, Text
    <3> QED
      BY DEF AuditAssumption
  <2> QED
    BY <1>4, <2>1 DEF AppendBegin
<1>7. Close => at' = "idle" /\ ~healthy'
  BY <1>4 DEF Close
<1>8. Remembered(log)'
  BY <1>2, <1>4, <1>6, <1>7 DEF Remembered, Ready
<1>9. Moved(log, log)
  BY <1>2 DEF Moved, SolidLen, Broken
<1> QED
  BY <1>1, <1>3, <1>5, <1>8, <1>9 DEF LogInv, Leads

LEMMA RecoverStep ==
  ASSUME AuditTypes, NEW log \in Seq(Entries), LogInv(log), Recover
  PROVE  AuditTypes' /\ Leads(log)
<1>1. /\ UNCHANGED <<active, openLine, unsynced, segs, ckpt, acked, gone, healthy, number>> /\ Text' = Text
      /\ at = "down" /\ ~unsynced
  BY DEF Recover, fileVars, Text, LogInv, Remembered
<1>2. Placed(log)' /\ Committed(log)' /\ AckedInv(log)' /\ Moved(log, log)
  BY <1>1 DEF LogInv, Placed, Committed, AckedInv, Start, Moved, SolidLen, Broken
<1>3. CASE ~Verifies
  <2>1. at' = "refused" /\ mem' = mem
    BY <1>3 DEF Recover
  <2>2. Linked(log)' /\ Remembered(log)'
    BY <1>1, <2>1 DEF LogInv, Linked, Remembered, Ready, Broken
  <2>3. AuditTypes'
    BY <1>1, <2>1 DEF AuditTypes
  <2> QED
    BY <1>2, <2>2, <2>3 DEF LogInv, Leads
<1>4. CASE Verifies /\ ~NoFiles
  <2>1. active # Missing
    BY <1>4 DEF Verifies
  <2>2. ~Broken(log) /\ LastOf(Visible).seq = Len(log) /\ LastOf(Visible).id = HeadAt(log, Len(log))
    BY <1>4, <2>1, Verified
  <2>3. at' = "open_retain" /\ mem' = [seq |-> Len(log), head |-> HeadAt(log, Len(log))]
    BY <1>4, <2>2 DEF Recover
  <2>4. Linked(log)' /\ Remembered(log)'
    BY <1>1, <2>2, <2>3 DEF LogInv, Linked, Remembered, Ready, Broken
  <2>5. Len(log) \in Nat /\ HeadAt(log, Len(log)) \in Int
    <3>1. Len(log) \in Nat
      BY LenProperties
    <3>2. Len(log) # 0 => log[Len(log)] \in Entries
      BY <3>1, ElementOfSeq
    <3> QED
      BY <3>1, <3>2 DEF HeadAt, Entries
  <2>6. AuditTypes'
    BY <1>1, <2>3, <2>5 DEF AuditTypes
  <2> QED
    BY <1>2, <2>4, <2>6 DEF LogInv, Leads
<1>5. CASE NoFiles
  <2>1. Placed(log) /\ Text = <<>> /\ ~Broken(log)
    BY <1>5 DEF LogInv, Linked, NoFiles, Text
  <2>2. PICK m \in 1..(Len(segs) + 1) : ckpt.through = Start(m)
    BY DEF LogInv, Committed
  <2>3. Start(m) = 0 /\ Retained = <<>>
    BY <1>5, <2>2 DEF NoFiles, None
  <2>4. /\ Len(segs) \in Nat /\ Len(log) \in Nat /\ Len(Text) = Len(log) - Start(Len(segs) + 1)
        /\ Start(Len(segs) + 1) \in Nat
    <3>1. Len(segs) \in Nat /\ Len(log) \in Nat /\ Len(Text) = Len(log) - Start(Len(segs) + 1)
      BY <2>1, LogFacts
    <3>2. Len(segs) + 1 \in 1..(Len(segs) + 1)
      BY <3>1
    <3> QED
      BY <2>1, <3>1, <3>2, LogFacts
  <2>5. Start(Len(segs) + 1) = 0
    <3>1. Retained = SubSeq(segs, m, Len(segs))
      BY <2>1, <2>2, Split
    <3>2. m = Len(segs) + 1
      <4> SUFFICES ASSUME m # Len(segs) + 1 PROVE FALSE
        OBVIOUS
      <4>1. m \in Int /\ Len(segs) \in Int /\ m <= Len(segs)
        BY <2>4
      <4>2. \A i \in m..Len(segs) : segs[i] \in Segments
        BY <2>4, ElementOfSeq DEF AuditTypes
      <4>3. Len(SubSeq(segs, m, Len(segs))) = Len(segs) - m + 1
        BY <4>1, <4>2, SubSeqProperties
      <4>4. Len(Retained) = 0
        BY <2>3, EmptySeq
      <4> QED
        BY <3>1, <4>1, <4>3, <4>4
    <3> QED
      BY <2>3, <3>2
  <2>6. Len(log) = 0
    BY <2>1, <2>4, <2>5, EmptySeq
  <2>7. at' = "open_retain" /\ mem' = [seq |-> 0, head |-> 0]
    BY <1>5 DEF Recover, Verifies, LastOf, NoFiles, None
  <2>8. Linked(log)' /\ Remembered(log)'
    BY <1>1, <2>1, <2>6, <2>7 DEF LogInv, Linked, Remembered, Ready, Broken, HeadAt
  <2>9. AuditTypes'
    BY <1>1, <2>7 DEF AuditTypes
  <2> QED
    BY <1>2, <2>8, <2>9 DEF LogInv, Leads
<1> QED
  BY <1>3, <1>4, <1>5

\* The active file comes to be: after a rotation, or when the log is new.
LEMMA CreateSteps ==
  ASSUME AuditTypes, NEW log \in Seq(Entries), LogInv(log), CreateActive \/ OpenFile
  PROVE  AuditTypes' /\ Leads(log)
<1>1. /\ UNCHANGED <<openLine, unsynced, segs, ckpt, acked, gone, mem>>
      /\ active' \in {active, <<>>} /\ (active' = <<>> \/ active # Missing) /\ at \in {"create", "open"} /\ ~unsynced
      /\ ~Broken(log)
      /\ at = "create" => active = Missing
  BY DEF CreateActive, OpenFile, LogInv, Remembered, Linked
<1>2. Text' = Text /\ active' # Missing
  <2>1. <<>> # Missing
    BY DEF Missing
  <2> QED
    BY <1>1, <2>1 DEF CreateActive, OpenFile, Text
<1>3. Placed(log)' /\ Committed(log)' /\ AckedInv(log)' /\ Moved(log, log)
  BY <1>1, <1>2 DEF LogInv, Placed, Committed, AckedInv, Start, Moved, SolidLen, Broken
<1>4. at' \in {"retain", "idle"} /\ Ready
  BY DEF CreateActive, OpenFile, Ready
<1>5. Linked(log)' /\ Remembered(log)'
  BY <1>1, <1>2, <1>4 DEF LogInv, Linked, Remembered, Ready, Broken
<1>6. AuditTypes'
  BY <1>1, <1>4, EmptySeq DEF AuditTypes, CreateActive, OpenFile
<1> QED
  BY <1>3, <1>5, <1>6 DEF LogInv, Leads

LEMMA SyncStep ==
  ASSUME AuditTypes, NEW log \in Seq(Entries), LogInv(log), Sync
  PROVE  AuditTypes' /\ Leads(log)
<1>1. /\ UNCHANGED <<active, openLine, segs, ckpt, gone, healthy, number>> /\ Text' = Text
      /\ at = "sync" /\ unsynced /\ ~unsynced' /\ at' = "idle" /\ ~Broken(log)
      /\ mem' = [seq |-> mem.seq + 1, head |-> number] /\ acked' = acked \cup {Record}
      /\ Len(log) = mem.seq + 1 /\ log[Len(log)] = Record
      /\ active # Missing
  BY DEF Sync, LogInv, Remembered, Linked, Text
<1>2. mem.seq \in Nat /\ mem.head \in Int /\ number \in Nat /\ Len(log) \in Nat /\ Len(log) # 0
  BY <1>1 DEF AuditTypes
<1>3. Record.seq = Len(log) /\ Record.id = number /\ Record \in Entries
  BY <1>1, <1>2 DEF Record, Entries
<1>4. Placed(log)' /\ Committed(log)'
  BY <1>1 DEF LogInv, Placed, Committed, Start
<1>5. AckedInv(log)'
  <2>1. \A r \in acked : r.seq \in 1..Len(log) /\ log[r.seq] = r
    BY DEF LogInv, AckedInv
  <2>2. Len(log) \in 1..Len(log)
    BY <1>2
  <2> QED
    BY <1>1, <1>3, <2>1, <2>2 DEF AckedInv
<1>6. Linked(log)'
  BY <1>1 DEF LogInv, Linked, Broken
<1>7. Remembered(log)'
  <2>1. mem'.seq = Len(log) /\ mem'.head = HeadAt(log, Len(log))
    BY <1>1, <1>2, <1>3 DEF HeadAt
  <2> QED
    BY <1>1, <2>1 DEF Remembered
<1>8. Moved(log, log)
  BY <1>1, <1>2 DEF Moved, SolidLen, Broken
<1>9. AuditTypes'
  <2>1. mem' \in [seq : Nat, head : Int]
    BY <1>1, <1>2
  <2>2. acked' \subseteq Entries
    BY <1>1, <1>3 DEF AuditTypes
  <2>3. UNCHANGED <<active, openLine, segs, ckpt, gone, healthy, number>> /\ unsynced' \in BOOLEAN /\ at' = "idle"
    BY <1>1 DEF AuditTypes, Sync
  <2> QED
    BY <2>1, <2>2, <2>3 DEF AuditTypes
<1> QED
  BY <1>4, <1>5, <1>6, <1>7, <1>8, <1>9 DEF LogInv, Leads

\* A sealed file is the next segment.
LEMMA PiecesSeal ==
  ASSUME NEW g \in Seq(Entries), NEW ss \in Seq(Segments), NEW t, NEW log \in Seq(Entries), Pieces(g, ss, t, log),
         NEW s \in Segments, s.order = Len(log) + 1, s.recs = t, t # <<>>
  PROVE  /\ Pieces(g, Append(ss, s), <<>>, log)
         /\ \A i \in 1..(Len(ss) + 1) : Cut(g, Append(ss, s), i) = Cut(g, ss, i)
         /\ Len(Append(ss, s)) = Len(ss) + 1
<1> DEFINE n   == Len(ss)
           new == Append(ss, s)
<1>1. /\ n \in Nat /\ Len(new) = n + 1 /\ new \in Seq(Segments) /\ new[n + 1] = s /\ \A i \in 1..n : new[i] = ss[i]
      /\ Len(log) \in Nat
  BY AppendProperties, LenProperties
<1>2. \A i \in 1..(n + 1) : Cut(g, new, i) = Cut(g, ss, i)
  <2> SUFFICES ASSUME NEW i \in 1..(n + 1) PROVE Cut(g, new, i) = Cut(g, ss, i)
    OBVIOUS
  <2>1. i # 1 => i - 1 \in 1..n
    BY <1>1
  <2> HIDE DEF new
  <2> QED
    BY <1>1, <2>1 DEF Cut
<1>3. Cut(g, new, (n + 1) + 1) = Len(log)
  <2>1. (n + 1) + 1 # 1 /\ ((n + 1) + 1) - 1 = n + 1
    BY <1>1
  <2>2. s.order - 1 = Len(log)
    BY <1>1
  <2> HIDE DEF new
  <2> QED
    BY <1>1, <2>1, <2>2 DEF Cut
<1>4. Cut(g, ss, n + 1) \in Nat /\ Cut(g, ss, n + 1) <= Len(log)
  BY <1>1, CutsRise
<1>5. Cut(g, ss, n + 1) < Len(log)
  <2> SUFFICES ASSUME Cut(g, ss, n + 1) = Len(log) PROVE FALSE
    BY <1>1, <1>4
  <2>1. t = SubSeq(log, Len(log) + 1, Len(log))
    BY DEF Pieces
  <2>2. Len(log) < Len(log) + 1
    BY <1>1
  <2> QED
    BY <1>1, <2>1, <2>2, SubSeqEmpty
<1>6. \A i \in 1..(n + 1) : /\ Cut(g, new, i) < Cut(g, new, i + 1) /\ Cut(g, new, i + 1) <= Len(log)
                            /\ new[i].recs = SubSeq(log, Cut(g, new, i) + 1, Cut(g, new, i + 1))
  <2> SUFFICES ASSUME NEW i \in 1..(n + 1)
               PROVE  /\ Cut(g, new, i) < Cut(g, new, i + 1) /\ Cut(g, new, i + 1) <= Len(log)
                      /\ new[i].recs = SubSeq(log, Cut(g, new, i) + 1, Cut(g, new, i + 1))
    OBVIOUS
  <2> HIDE DEF new
  <2>1. CASE i = n + 1
    <3>1. t = SubSeq(log, Cut(g, ss, n + 1) + 1, Len(log))
      BY DEF Pieces
    <3>2. Cut(g, new, n + 1) = Cut(g, ss, n + 1)
      BY <1>1, <1>2
    <3> QED
      BY <1>1, <1>3, <1>5, <2>1, <3>1, <3>2
  <2>2. CASE i # n + 1
    <3>1. i \in 1..n /\ i + 1 \in 1..(n + 1)
      BY <1>1, <2>2
    <3>2. Cut(g, new, i) = Cut(g, ss, i) /\ Cut(g, new, i + 1) = Cut(g, ss, i + 1) /\ new[i] = ss[i]
      BY <1>1, <1>2, <3>1
    <3>3. /\ Cut(g, ss, i) < Cut(g, ss, i + 1) /\ Cut(g, ss, i + 1) <= Len(log)
          /\ ss[i].recs = SubSeq(log, Cut(g, ss, i) + 1, Cut(g, ss, i + 1))
      BY <3>1 DEF Pieces
    <3> QED
      BY <3>2, <3>3
  <2> QED
    BY <2>1, <2>2
<1>7. <<>> = SubSeq(log, Len(log) + 1, Len(log))
  <2>1. Len(log) < Len(log) + 1 /\ Len(log) + 1 \in Int /\ Len(log) \in Int
    BY <1>1
  <2> QED
    BY <2>1, SubSeqEmpty
<1>8. Len(g) <= Len(log) /\ g = SubSeq(log, 1, Len(g))
  BY DEF Pieces
<1> HIDE DEF new
<1>9. Pieces(g, new, <<>>, log)
  BY <1>1, <1>3, <1>6, <1>7, <1>8 DEF Pieces
<1> QED
  BY <1>1, <1>2, <1>9 DEF new

\* A removed segment is the end of what was removed.
LEMMA PiecesRemove ==
  ASSUME NEW g \in Seq(Entries), NEW ss \in Seq(Segments), NEW t, NEW log \in Seq(Entries), Pieces(g, ss, t, log),
         ss # <<>>
  PROVE  /\ Pieces(g \o ss[1].recs, Tail(ss), t, log) /\ g \o ss[1].recs \in Seq(Entries)
         /\ \A i \in 1..Len(ss) : Cut(g \o ss[1].recs, Tail(ss), i) = Cut(g, ss, i + 1)
         /\ Len(Tail(ss)) = Len(ss) - 1 /\ Len(ss) - 1 \in Nat
<1> DEFINE n   == Len(ss)
           new == Tail(ss)
           h   == g \o ss[1].recs
<1>1. /\ n \in Nat /\ n - 1 \in Nat /\ n >= 1 /\ Len(new) = n - 1 /\ new \in Seq(Segments)
      /\ \A i \in 1..(n - 1) : new[i] = ss[i + 1]
      /\ Len(log) \in Nat /\ Len(g) \in Nat
  <2>1. new \in Seq(Segments) /\ Len(new) = n - 1 /\ \A i \in 1..Len(new) : new[i] = ss[i + 1]
    BY HeadTailProperties
  <2>2. n \in Nat \ {0} /\ Len(log) \in Nat /\ Len(g) \in Nat
    BY EmptySeq, LenProperties
  <2>3. n - 1 \in Nat /\ n >= 1
    BY <2>2
  <2> HIDE DEF new
  <2> QED
    BY <2>1, <2>2, <2>3
<1>2. Cut(g, ss, 1) = Len(g) /\ 1 \in 1..n /\ 2 \in 1..(n + 1)
  BY <1>1 DEF Cut
<1>3. Cut(g, ss, 2) \in Nat /\ Cut(g, ss, 2) <= Len(log) /\ Len(g) < Cut(g, ss, 2)
  <2>1. Cut(g, ss, 2) \in Nat
    BY <1>2, CutsRise
  <2>2. Cut(g, ss, 1) < Cut(g, ss, 1 + 1) /\ Cut(g, ss, 1 + 1) <= Len(log) /\ 1 + 1 = 2
    BY <1>2 DEF Pieces
  <2> QED
    BY <1>2, <2>1, <2>2
<1>4. h = SubSeq(log, 1, Cut(g, ss, 2))
  <2>1. g = SubSeq(log, 1, Len(g))
    BY DEF Pieces
  <2>2. ss[1].recs = SubSeq(log, Len(g) + 1, Cut(g, ss, 2))
    <3>1. ss[1].recs = SubSeq(log, Cut(g, ss, 1) + 1, Cut(g, ss, 1 + 1)) /\ 1 + 1 = 2
      BY <1>2 DEF Pieces
    <3> QED
      BY <1>2, <3>1
  <2>3. 1 \in 1..(Len(log) + 1) /\ Len(g) \in (1 - 1)..Len(log) /\ Cut(g, ss, 2) \in Len(g)..Len(log)
    BY <1>1, <1>3
  <2>4. SubSeq(log, 1, Len(g)) \o SubSeq(log, Len(g) + 1, Cut(g, ss, 2)) = SubSeq(log, 1, Cut(g, ss, 2))
    BY <2>3, ConcatAdjacentSubSeq
  <2> QED
    BY <2>1, <2>2, <2>4, Zenon
<1>5. h \in Seq(Entries) /\ Len(h) = Cut(g, ss, 2)
  <2>1. \A i \in 1..Cut(g, ss, 2) : log[i] \in Entries
    BY <1>1, <1>3, ElementOfSeq
  <2>2. /\ SubSeq(log, 1, Cut(g, ss, 2)) \in Seq(Entries)
        /\ Len(SubSeq(log, 1, Cut(g, ss, 2))) = IF 1 <= Cut(g, ss, 2) THEN Cut(g, ss, 2) - 1 + 1 ELSE 0
    BY <1>3, <2>1, SubSeqProperties
  <2>3. 1 <= Cut(g, ss, 2) /\ Cut(g, ss, 2) - 1 + 1 = Cut(g, ss, 2)
    BY <1>1, <1>3
  <2> HIDE DEF h
  <2> QED
    BY <1>4, <2>2, <2>3
<1> HIDE DEF h, new
<1>6. \A i \in 1..n : Cut(h, new, i) = Cut(g, ss, i + 1)
  <2> SUFFICES ASSUME NEW i \in 1..n PROVE Cut(h, new, i) = Cut(g, ss, i + 1)
    OBVIOUS
  <2>1. CASE i = 1
    <3>1. Cut(h, new, 1) = Len(h) /\ 1 + 1 = 2
      BY DEF Cut
    <3> QED
      BY <1>5, <2>1, <3>1
  <2>2. CASE i # 1
    <3>1. i - 1 \in 1..(n - 1) /\ (i - 1) + 1 = i /\ i + 1 # 1 /\ (i + 1) - 1 = i
      BY <1>1, <2>2
    <3>2. new[i - 1] = ss[i]
      BY <1>1, <3>1
    <3> QED
      BY <2>2, <3>1, <3>2 DEF Cut
  <2> QED
    BY <2>1, <2>2
<1>7. \A i \in 1..(n - 1) : /\ Cut(h, new, i) < Cut(h, new, i + 1) /\ Cut(h, new, i + 1) <= Len(log)
                            /\ new[i].recs = SubSeq(log, Cut(h, new, i) + 1, Cut(h, new, i + 1))
  <2> SUFFICES ASSUME NEW i \in 1..(n - 1)
               PROVE  /\ Cut(h, new, i) < Cut(h, new, i + 1) /\ Cut(h, new, i + 1) <= Len(log)
                      /\ new[i].recs = SubSeq(log, Cut(h, new, i) + 1, Cut(h, new, i + 1))
    OBVIOUS
  <2>1. i \in 1..n /\ i + 1 \in 1..n
    BY <1>1
  <2>2. /\ Cut(g, ss, i + 1) < Cut(g, ss, (i + 1) + 1) /\ Cut(g, ss, (i + 1) + 1) <= Len(log)
        /\ ss[i + 1].recs = SubSeq(log, Cut(g, ss, i + 1) + 1, Cut(g, ss, (i + 1) + 1))
    BY <2>1 DEF Pieces
  <2>3. Cut(h, new, i) = Cut(g, ss, i + 1) /\ Cut(h, new, i + 1) = Cut(g, ss, (i + 1) + 1) /\ new[i] = ss[i + 1]
    BY <1>1, <1>6, <2>1
  <2> QED
    BY <2>2, <2>3
<1>8. t = SubSeq(log, Cut(h, new, (n - 1) + 1) + 1, Len(log))
  <2>1. (n - 1) + 1 = n /\ n \in 1..n
    BY <1>1
  <2>2. t = SubSeq(log, Cut(g, ss, n + 1) + 1, Len(log))
    BY DEF Pieces
  <2> QED
    BY <1>6, <2>1, <2>2
<1>9. Pieces(h, new, t, log)
  BY <1>1, <1>3, <1>4, <1>5, <1>7, <1>8 DEF Pieces
<1> QED
  BY <1>1, <1>5, <1>6, <1>9 DEF h, new

\* Only the active file changes: the pieces before it stay.
LEMMA PiecesRegrow ==
  ASSUME NEW g \in Seq(Entries), NEW ss \in Seq(Segments), NEW t, NEW log \in Seq(Entries), Pieces(g, ss, t, log),
         NEW new \in Seq(Entries), Cut(g, ss, Len(ss) + 1) <= Len(new),
         \A i \in 1..Cut(g, ss, Len(ss) + 1) : new[i] = log[i]
  PROVE  Pieces(g, ss, SubSeq(new, Cut(g, ss, Len(ss) + 1) + 1, Len(new)), new)
<1> DEFINE n == Len(ss)
<1>1. n \in Nat /\ Len(log) \in Nat /\ Len(g) \in Nat /\ Len(new) \in Nat /\ n + 1 \in 1..(n + 1) /\ 1 \in 1..(n + 1)
  BY LenProperties
<1>2. PICK e \in Nat : e = Cut(g, ss, n + 1) /\ e <= Len(log) /\ e <= Len(new)
  BY <1>1, CutsRise
<1>3. \A i \in 1..(n + 1) : Cut(g, ss, i) \in Nat /\ Cut(g, ss, i) <= e
  <2> SUFFICES ASSUME NEW i \in 1..(n + 1) PROVE Cut(g, ss, i) \in Nat /\ Cut(g, ss, i) <= e
    OBVIOUS
  <2>1. Cut(g, ss, i) \in Nat /\ (i < n + 1 => Cut(g, ss, i) < Cut(g, ss, n + 1))
    BY <1>1, CutsRise
  <2>2. i < n + 1 \/ i = n + 1
    BY <1>1
  <2> QED
    BY <1>2, <2>1, <2>2
<1>4. \A a, b \in Nat : a <= b /\ b <= e => SubSeq(new, a + 1, b) = SubSeq(log, a + 1, b)
  <2> SUFFICES ASSUME NEW a \in Nat, NEW b \in Nat, a <= b, b <= e PROVE SubSeq(new, a + 1, b) = SubSeq(log, a + 1, b)
    OBVIOUS
  <2>1. \A i \in 1..b : new[i] = log[i]
    BY <1>2
  <2>2. b <= Len(new) /\ b <= Len(log)
    BY <1>1, <1>2
  <2> QED
    BY <2>1, <2>2, SliceOfPrefix
<1>5. \A i \in 1..n : ss[i].recs = SubSeq(new, Cut(g, ss, i) + 1, Cut(g, ss, i + 1)) /\ Cut(g, ss, i + 1) <= Len(new)
  <2> SUFFICES ASSUME NEW i \in 1..n
               PROVE  ss[i].recs = SubSeq(new, Cut(g, ss, i) + 1, Cut(g, ss, i + 1)) /\ Cut(g, ss, i + 1) <= Len(new)
    OBVIOUS
  <2>1. i \in 1..(n + 1) /\ i + 1 \in 1..(n + 1)
    BY <1>1
  <2>2. /\ ss[i].recs = SubSeq(log, Cut(g, ss, i) + 1, Cut(g, ss, i + 1)) /\ Cut(g, ss, i) < Cut(g, ss, i + 1)
    BY DEF Pieces
  <2>3. /\ Cut(g, ss, i) \in Nat /\ Cut(g, ss, i + 1) \in Nat /\ Cut(g, ss, i + 1) <= e
        /\ Cut(g, ss, i) <= Cut(g, ss, i + 1)
    BY <1>3, <2>1, <2>2
  <2>4. SubSeq(new, Cut(g, ss, i) + 1, Cut(g, ss, i + 1)) = SubSeq(log, Cut(g, ss, i) + 1, Cut(g, ss, i + 1))
    BY <1>4, <2>3, Zenon
  <2>5. Cut(g, ss, i + 1) <= Len(new)
    BY <1>1, <1>2, <2>3
  <2> QED
    BY <2>2, <2>4, <2>5
<1>6. Len(g) <= Len(new) /\ g = SubSeq(new, 1, Len(g))
  <2>1. Cut(g, ss, 1) = Len(g)
    BY DEF Cut
  <2>2. Len(g) <= e /\ 0 <= Len(g) /\ 0 \in Nat
    BY <1>1, <1>3, <2>1
  <2>3. SubSeq(new, 0 + 1, Len(g)) = SubSeq(log, 0 + 1, Len(g))
    BY <1>1, <1>4, <2>2, Zenon
  <2>4. g = SubSeq(log, 1, Len(g))
    BY DEF Pieces
  <2>5. g = SubSeq(new, 1, Len(g))
    BY <2>3, <2>4
  <2>6. Len(g) <= Len(new)
    BY <1>1, <1>2, <2>2
  <2> QED
    BY <2>5, <2>6
<1>7. \A i \in 1..n : Cut(g, ss, i) < Cut(g, ss, i + 1)
  BY DEF Pieces
<1> QED
  BY <1>5, <1>6, <1>7 DEF Pieces

LEMMA PiecesAppend ==
  ASSUME NEW g \in Seq(Entries), NEW ss \in Seq(Segments), NEW t \in Seq(Entries), NEW log \in Seq(Entries),
         Pieces(g, ss, t, log), NEW x \in Entries
  PROVE  Pieces(g, ss, Append(t, x), Append(log, x))
<1> DEFINE n   == Len(ss)
           new == Append(log, x)
<1>1. n \in Nat /\ Len(log) \in Nat /\ n + 1 \in 1..(n + 1)
  BY LenProperties
<1>2. PICK e \in Nat : e = Cut(g, ss, n + 1) /\ e <= Len(log)
  BY <1>1, CutsRise
<1>3. new \in Seq(Entries) /\ Len(new) = Len(log) + 1 /\ new[Len(log) + 1] = x /\ \A i \in 1..Len(log) : new[i] = log[i]
  BY AppendProperties
<1> HIDE DEF new
<1>4. Pieces(g, ss, SubSeq(new, e + 1, Len(new)), new)
  <2>1. e <= Len(new) /\ \A i \in 1..e : new[i] = log[i]
    BY <1>1, <1>2, <1>3
  <2> QED
    BY <1>2, <1>3, <2>1, PiecesRegrow
<1>5. Append(t, x) = SubSeq(new, e + 1, Len(new))
  <2>1. t = SubSeq(log, e + 1, Len(log))
    BY <1>2 DEF Pieces
  <2>2. Len(t) = Len(log) - e /\ \A i \in 1..(Len(log) - e) : t[i] = log[e + i]
    <3>1. e + 1 \in Nat /\ 1 <= e + 1 /\ e + 1 <= Len(log) + 1 /\ Len(log) <= Len(log) /\ Len(log) - (e + 1) + 1 = Len(log) - e
      BY <1>1, <1>2
    <3>2. /\ Len(SubSeq(log, e + 1, Len(log))) = Len(log) - (e + 1) + 1
          /\ \A i \in 1..(Len(log) - (e + 1) + 1) : SubSeq(log, e + 1, Len(log))[i] = log[(e + 1) + i - 1]
      <4>1. e + 1 \in Nat /\ 1 <= e + 1 /\ e + 1 <= Len(log) + 1 /\ Len(log) <= Len(log) /\ Len(log) \in Nat
        BY <1>1, <3>1
      <4> QED
        BY <4>1, SliceOf
    <3>3. \A i \in 1..(Len(log) - e) : (e + 1) + i - 1 = e + i
      BY <1>2
    <3> QED
      BY <2>1, <3>1, <3>2, <3>3
  <2>3. /\ Append(t, x) \in Seq(Entries) /\ Len(Append(t, x)) = Len(t) + 1 /\ Append(t, x)[Len(t) + 1] = x
        /\ \A i \in 1..Len(t) : Append(t, x)[i] = t[i]
    BY AppendProperties
  <2>4. Len(Append(t, x)) = Len(new) - e /\ e <= Len(new) /\ Len(new) \in Nat
    BY <1>1, <1>2, <1>3, <2>2, <2>3
  <2>5. \A i \in 1..(Len(new) - e) : Append(t, x)[i] = new[e + i]
    <3> SUFFICES ASSUME NEW i \in 1..(Len(new) - e) PROVE Append(t, x)[i] = new[e + i]
      OBVIOUS
    <3>1. CASE i = Len(t) + 1
      <4>1. e + i = Len(log) + 1
        BY <1>1, <1>2, <2>2, <3>1
      <4> QED
        BY <1>3, <2>3, <3>1, <4>1
    <3>2. CASE i # Len(t) + 1
      <4>1. i \in 1..Len(t) /\ i \in 1..(Len(log) - e) /\ e + i \in 1..Len(log)
        BY <1>1, <1>2, <1>3, <2>2, <3>2
      <4> QED
        BY <1>3, <2>2, <2>3, <4>1
    <3> QED
      BY <3>1, <3>2
  <2>6. e + 1 \in Nat /\ 1 <= e + 1 /\ e + 1 <= Len(new) + 1 /\ Len(new) - (e + 1) + 1 = Len(new) - e
    BY <1>2, <2>4
  <2>7. /\ SubSeq(new, e + 1, Len(new)) \in Seq(Entries) /\ Len(SubSeq(new, e + 1, Len(new))) = Len(new) - e
        /\ \A i \in 1..(Len(new) - e) : SubSeq(new, e + 1, Len(new))[i] = new[e + i]
    BY <1>3, <2>4, <2>6, SliceOf
  <2> QED
    BY <2>3, <2>4, <2>5, <2>7, SeqEqual
<1> QED
  BY <1>4, <1>5 DEF new

LEMMA PiecesFront ==
  ASSUME NEW g \in Seq(Entries), NEW ss \in Seq(Segments), NEW t \in Seq(Entries), NEW log \in Seq(Entries),
         Pieces(g, ss, t, log), t # <<>>
  PROVE  /\ Pieces(g, ss, Front(t), Front(log)) /\ Front(t) \in Seq(Entries)
         /\ Front(log) \in Seq(Entries) /\ Len(Front(log)) = Len(log) - 1 /\ Len(log) - 1 \in Nat
         /\ \A i \in 1..(Len(log) - 1) : Front(log)[i] = log[i]
         /\ \A i \in 1..(Len(ss) + 1) : Cut(g, ss, i) <= Len(log) - 1
<1> DEFINE n == Len(ss)
<1>1. n \in Nat /\ Len(log) \in Nat /\ n + 1 \in 1..(n + 1)
  BY LenProperties
<1>2. PICK e \in Nat : e = Cut(g, ss, n + 1) /\ e <= Len(log)
  BY <1>1, CutsRise
<1>3. t = SubSeq(log, e + 1, Len(log))
  BY <1>2 DEF Pieces
<1>4. Len(t) = Len(log) - e /\ \A i \in 1..(Len(log) - e) : t[i] = log[e + i]
  <2>1. e + 1 \in Nat /\ 1 <= e + 1 /\ e + 1 <= Len(log) + 1 /\ Len(log) <= Len(log) /\ Len(log) - (e + 1) + 1 = Len(log) - e
    BY <1>1, <1>2
  <2>2. /\ Len(SubSeq(log, e + 1, Len(log))) = Len(log) - (e + 1) + 1
        /\ \A i \in 1..(Len(log) - (e + 1) + 1) : SubSeq(log, e + 1, Len(log))[i] = log[(e + 1) + i - 1]
    <3>1. e + 1 \in Nat /\ 1 <= e + 1 /\ e + 1 <= Len(log) + 1 /\ Len(log) <= Len(log) /\ Len(log) \in Nat
      BY <1>1, <2>1
    <3> QED
      BY <3>1, SliceOf
  <2>3. \A i \in 1..(Len(log) - e) : (e + 1) + i - 1 = e + i
    BY <1>2
  <2> QED
    BY <1>3, <2>1, <2>2, <2>3
<1>5. Len(t) \in Nat \ {0}
  BY EmptySeq
<1>6. e <= Len(log) - 1 /\ Len(log) - 1 \in Nat /\ Len(log) \in 1..Len(log)
  BY <1>1, <1>2, <1>4, <1>5
<1>7. /\ Front(log) \in Seq(Entries) /\ Len(Front(log)) = Len(log) - 1
      /\ \A i \in 1..(Len(log) - 1) : Front(log)[i] = log[i]
  <2>2. Len(log) - 1 \in Nat /\ 1 <= (Len(log) - 1) + 1 /\ Len(log) - 1 <= Len(log) /\ (Len(log) - 1) - 1 + 1 = Len(log) - 1
    BY <1>6
  <2>3. /\ SubSeq(log, 1, Len(log) - 1) \in Seq(Entries) /\ Len(SubSeq(log, 1, Len(log) - 1)) = Len(log) - 1
        /\ \A i \in 1..(Len(log) - 1) : SubSeq(log, 1, Len(log) - 1)[i] = log[1 + i - 1]
    BY <2>2, SliceOf
  <2>4. \A i \in 1..(Len(log) - 1) : 1 + i - 1 = i
    OBVIOUS
  <2> QED
    BY <2>3, <2>4 DEF Front
<1>8. /\ Front(t) \in Seq(Entries) /\ Len(Front(t)) = Len(t) - 1 /\ \A i \in 1..(Len(t) - 1) : Front(t)[i] = t[i]
  <2>2. Len(t) - 1 \in Nat /\ 1 <= (Len(t) - 1) + 1 /\ Len(t) - 1 <= Len(t) /\ (Len(t) - 1) - 1 + 1 = Len(t) - 1
    BY <1>5
  <2>3. /\ SubSeq(t, 1, Len(t) - 1) \in Seq(Entries) /\ Len(SubSeq(t, 1, Len(t) - 1)) = Len(t) - 1
        /\ \A i \in 1..(Len(t) - 1) : SubSeq(t, 1, Len(t) - 1)[i] = t[1 + i - 1]
    BY <2>2, SliceOf
  <2>4. \A i \in 1..(Len(t) - 1) : 1 + i - 1 = i
    OBVIOUS
  <2> QED
    BY <2>3, <2>4 DEF Front
<1>9. Front(t) = SubSeq(Front(log), e + 1, Len(Front(log)))
  <2>1. e <= Len(Front(log)) /\ Len(Front(log)) \in Nat /\ Len(Front(t)) = Len(Front(log)) - e
    BY <1>2, <1>4, <1>6, <1>7, <1>8
  <2>2. \A i \in 1..(Len(Front(log)) - e) : Front(t)[i] = Front(log)[e + i]
    <3> SUFFICES ASSUME NEW i \in 1..((Len(log) - 1) - e) PROVE Front(t)[i] = Front(log)[e + i]
      BY <1>7
    <3>1. i \in 1..(Len(t) - 1) /\ i \in 1..(Len(log) - e) /\ e + i \in 1..(Len(log) - 1)
      BY <1>1, <1>2, <1>4, <1>6
    <3> QED
      BY <1>4, <1>7, <1>8, <3>1
  <2>3. e + 1 \in Nat /\ 1 <= e + 1 /\ e + 1 <= Len(Front(log)) + 1 /\ Len(Front(log)) - (e + 1) + 1 = Len(Front(log)) - e
    BY <1>2, <2>1
  <2>4. /\ SubSeq(Front(log), e + 1, Len(Front(log))) \in Seq(Entries)
        /\ Len(SubSeq(Front(log), e + 1, Len(Front(log)))) = Len(Front(log)) - e
        /\ \A i \in 1..(Len(Front(log)) - e) : SubSeq(Front(log), e + 1, Len(Front(log)))[i] = Front(log)[e + i]
    BY <1>7, <2>1, <2>3, SliceOf
  <2> QED
    BY <1>8, <2>1, <2>2, <2>4, SeqEqual
<1>10. Pieces(g, ss, SubSeq(Front(log), e + 1, Len(Front(log))), Front(log))
  <2>1. e <= Len(Front(log)) /\ \A i \in 1..e : i \in 1..(Len(log) - 1)
    BY <1>6, <1>7
  <2>2. \A i \in 1..e : Front(log)[i] = log[i]
    BY <1>7, <2>1
  <2> QED
    BY <1>2, <1>7, <2>1, <2>2, PiecesRegrow
<1>11. \A i \in 1..(n + 1) : Cut(g, ss, i) <= Len(log) - 1
  <2> SUFFICES ASSUME NEW i \in 1..(n + 1) PROVE Cut(g, ss, i) <= Len(log) - 1
    OBVIOUS
  <2>1. Cut(g, ss, i) \in Nat /\ (i < n + 1 => Cut(g, ss, i) < Cut(g, ss, n + 1))
    BY <1>1, CutsRise
  <2>2. i < n + 1 \/ i = n + 1
    BY <1>1
  <2> QED
    BY <1>2, <1>6, <2>1, <2>2
<1> QED
  BY <1>6, <1>7, <1>8, <1>9, <1>10, <1>11

-----------------------------------------------------------------------------
(* The steps that move files.                                              *)

LEMMA SealStep ==
  ASSUME AuditTypes, NEW log \in Seq(Entries), LogInv(log), Seal
  PROVE  AuditTypes' /\ Leads(log)
<1>1. /\ UNCHANGED <<openLine, unsynced, ckpt, acked, gone, mem, healthy, number>>
      /\ active' = Missing /\ at' = "create" /\ segs' = Append(segs, [order |-> mem.seq + 1, recs |-> active])
      /\ ~unsynced /\ ~Broken(log) /\ Text # <<>> /\ Text = active
      /\ mem.seq = Len(log) /\ mem.head = HeadAt(log, Len(log)) /\ at = "rotate"
  BY DEF Seal, LogInv, Remembered, Linked, Ready, Text
<1> DEFINE s == [order |-> mem.seq + 1, recs |-> active]
<1>2. gone \in Seq(Entries) /\ segs \in Seq(Segments) /\ active \in Seq(Entries) /\ mem.seq \in Nat
  BY DEF AuditTypes
<1>3. s \in Segments /\ s.order = Len(log) + 1 /\ s.recs = Text
  BY <1>1, <1>2 DEF Segments
<1>4. /\ Pieces(gone, segs', <<>>, log) /\ segs' \in Seq(Segments)
      /\ \A i \in 1..(Len(segs) + 1) : Cut(gone, segs', i) = Cut(gone, segs, i)
      /\ Len(segs') = Len(segs) + 1
  <2>1. Pieces(gone, segs, Text, log)
    BY DEF LogInv, Placed
  <2>2. segs' = Append(segs, s)
    BY <1>1
  <2>3. Append(segs, s) \in Seq(Segments)
    BY <1>2, <1>3, AppendProperties
  <2> HIDE DEF s
  <2> QED
    BY <1>1, <1>2, <1>3, <2>1, <2>2, <2>3, PiecesSeal
<1>5. Placed(log)'
  BY <1>1, <1>4 DEF Placed, Text
<1>6. Committed(log)'
  <2>1. PICK m \in 1..(Len(segs) + 1) : ckpt.through = Start(m) /\ ckpt.head = HeadAt(log, Start(m))
    BY DEF LogInv, Committed
  <2>2. Len(segs) \in Nat
    BY <1>2, LenProperties
  <2>3. m \in 1..(Len(segs') + 1)
    BY <1>4, <2>2
  <2>4. Cut(gone', segs', m) = Start(m)
    BY <1>1, <1>4 DEF Start
  <2> QED
    BY <1>1, <2>1, <2>3, <2>4 DEF Committed, Start
<1>7. AckedInv(log)'
  BY <1>1 DEF LogInv, AckedInv
<1>8. Linked(log)' /\ Remembered(log)' /\ Moved(log, log)
  BY <1>1 DEF LogInv, Linked, Remembered, Ready, Broken, Moved, SolidLen
<1>9. AuditTypes'
  <2>1. Missing \in Seq(Entries)
    <3>1. [seq |-> -2, id |-> -2, prev |-> -2] \in Entries
      BY DEF Entries
    <3> QED
      BY <3>1 DEF Missing
  <2> QED
    BY <1>1, <1>4, <2>1 DEF AuditTypes
<1> QED
  BY <1>5, <1>6, <1>7, <1>8, <1>9 DEF LogInv, Leads

LEMMA CheckpointStep ==
  ASSUME AuditAssumption, AuditTypes, NEW log \in Seq(Entries), LogInv(log), Checkpoint
  PROVE  AuditTypes' /\ Leads(log)
<1>1. /\ UNCHANGED <<active, openLine, unsynced, segs, acked, gone, mem, healthy, number>> /\ Text' = Text
      /\ ~unsynced /\ ~Broken(log)
      /\ (at = "retain" /\ at' = "remove") \/ (at = "open_retain" /\ at' = "open_remove")
  <2>1. UNCHANGED <<active, openLine, unsynced, segs, acked, gone, mem, healthy, number>>
    BY Zenon DEF Checkpoint
  <2>2. (at = "retain" /\ at' = "remove") \/ (at = "open_retain" /\ at' = "open_remove")
    BY DEF Checkpoint
  <2>3. ~unsynced /\ ~Broken(log)
    BY <2>2 DEF LogInv, Remembered, Linked
  <2> QED
    BY <2>1, <2>2, <2>3 DEF Text
<1>c. ckpt' = IF Excess <= 0 THEN ckpt ELSE CheckpointOf(Lines(SubSeq(Retained, 1, Excess)))
  BY DEF Checkpoint
<1>2. Placed(log)' /\ AckedInv(log)' /\ Moved(log, log)
  BY <1>1 DEF LogInv, Placed, AckedInv, Moved, SolidLen, Broken
<1>3. Linked(log)'
  BY <1>1 DEF LogInv, Linked, Broken
<1>4. Remembered(log)'
  BY <1>1 DEF LogInv, Remembered, Ready
<1>5. Committed(log)' /\ ckpt' \in [through : Nat, head : Int]
  <2>1. PICK m \in 1..(Len(segs) + 1) : ckpt.through = Start(m) /\ ckpt.head = HeadAt(log, Start(m))
    BY DEF LogInv, Committed
  <2>2. CASE Excess <= 0
    <3>1. ckpt' = ckpt
      BY <1>c, <2>2
    <3> QED
      BY <1>1, <2>1, <3>1 DEF Committed, Start, AuditTypes
  <2>3. CASE ~(Excess <= 0)
    <3> DEFINE recs == Lines(SubSeq(Retained, 1, Excess))
    <3>0. Placed(log) /\ Len(segs) \in Nat /\ m \in Nat /\ 1 <= m /\ m <= Len(segs) + 1 /\ MaxSegments \in Nat
      BY LenProperties DEF LogInv, AuditTypes, AuditAssumption
    <3>1. /\ Len(Retained) = Len(segs) - m + 1
          /\ \A i \in 1..(Len(segs) - m + 1) :
               /\ m + i \in 1..(Len(segs) + 1)
               /\ Lines(SubSeq(Retained, 1, i)) = SubSeq(log, Start(m) + 1, Start(m + i))
               /\ Start(m) < Start(m + i) /\ Start(m + i) <= Len(log) /\ Start(m + i) \in Nat
      BY <2>1, <3>0, RetainedLines
    <3>2. Excess \in 1..(Len(segs) - m + 1)
      BY <2>3, <3>0, <3>1 DEF Excess
    <3>3. PICK k \in 1..(Len(segs) + 1) : k = m + Excess
      BY <3>1, <3>2
    <3>4. /\ recs = SubSeq(log, Start(m) + 1, Start(k))
          /\ Start(m) < Start(k) /\ Start(k) <= Len(log) /\ Start(k) \in Nat /\ Start(m) \in Nat
      BY <3>0, <3>1, <3>2, <3>3, LogFacts
    <3>5. PICK from \in Nat, to \in Nat : from = Start(m) /\ to = Start(k)
      BY <3>4
    <3>6. from < to /\ to <= Len(log) /\ recs = SubSeq(log, from + 1, to)
      BY <3>4, <3>5
    <3> HIDE DEF recs
    <3>7. /\ recs \in Seq(Entries) /\ Len(recs) = to - from /\ \A i \in 1..(to - from) : recs[i] = log[from + i]
      <4>1. from <= to
        BY <3>6
      <4> QED
        BY <3>6, <4>1, SliceIs
    <3>8. recs # <<>> /\ recs[Len(recs)] = log[to] /\ to \in 1..Len(log) /\ to # 0
      <4>1. to - from \in 1..(to - from) /\ from + (to - from) = to /\ to # 0 /\ to - from # 0
        BY <3>6
      <4>2. Len(log) \in Nat
        BY LenProperties
      <4>3. to \in 1..Len(log)
        BY <3>6, <4>1, <4>2
      <4>4. recs = <<>> => Len(recs) = 0
        OBVIOUS
      <4> QED
        BY <3>7, <4>1, <4>3, <4>4
    <3>9. log[to].seq = to
      <4>1. Continues(log, to) \/ (to = Len(log) /\ log[to] = Garbled)
        BY <3>8 DEF LogInv, Linked
      <4>2. log # <<>>
        <5> SUFFICES ASSUME log = <<>> PROVE FALSE
          OBVIOUS
        <5>1. Len(log) = 0
          OBVIOUS
        <5> QED
          BY <3>8, <5>1
      <4> QED
        BY <1>1, <4>1, <4>2 DEF Continues, Broken
    <3>10. ckpt' = [through |-> to, head |-> log[to].id]
      <4>1. ckpt' = CheckpointOf(recs)
        BY <1>c, <2>3 DEF recs
      <4> QED
        BY <3>8, <3>9, <4>1 DEF CheckpointOf, LastOf
    <3>11. ckpt'.through = Start(k) /\ ckpt'.head = HeadAt(log, Start(k))
      BY <3>5, <3>8, <3>10 DEF HeadAt
    <3>12. log[to].id \in Int
      <4>1. log[to] \in Entries
        BY <3>8, ElementOfSeq
      <4> QED
        BY <4>1 DEF Entries
    <3> QED
      BY <1>1, <3>10, <3>11, <3>12 DEF Committed, Start
  <2> QED
    BY <2>2, <2>3
<1>6. AuditTypes'
  BY <1>1, <1>5 DEF AuditTypes
<1> QED
  BY <1>2, <1>3, <1>4, <1>5, <1>6 DEF LogInv, Leads

LEMMA RemoveStep ==
  ASSUME AuditTypes, NEW log \in Seq(Entries), LogInv(log), RemoveSegment
  PROVE  AuditTypes' /\ Leads(log)
<1>1. /\ UNCHANGED <<active, openLine, unsynced, ckpt, acked, mem, healthy, number>> /\ Text' = Text
      /\ ~unsynced /\ ~Broken(log) /\ Placed(log)
      /\ \/ at = "remove" /\ at' \in {"remove", "write"}
         \/ at = "open_remove" /\ at' \in {"open_remove", "open"}
  BY DEF RemoveSegment, LogInv, Remembered, Linked, Text
<1>2. AckedInv(log)' /\ Moved(log, log)
  BY <1>1 DEF LogInv, AckedInv, Moved, SolidLen, Broken
<1>3. Linked(log)' /\ Remembered(log)'
  BY <1>1 DEF LogInv, Linked, Broken, Remembered, Ready
<1>4. CASE Stale = <<>>
  <2>1. UNCHANGED <<segs, gone>>
    BY <1>4 DEF RemoveSegment
  <2>2. Placed(log)' /\ Committed(log)'
    BY <1>1, <2>1 DEF LogInv, Placed, Committed, Start
  <2>3. AuditTypes'
    BY <1>1, <2>1 DEF AuditTypes
  <2> QED
    BY <1>2, <1>3, <2>2, <2>3 DEF LogInv, Leads
<1>5. CASE Stale # <<>>
  <2>0. PICK m \in 1..(Len(segs) + 1) : ckpt.through = Start(m) /\ ckpt.head = HeadAt(log, Start(m))
    BY DEF LogInv, Committed
  <2>1. segs \in Seq(Segments) /\ gone \in Seq(Entries) /\ Len(segs) \in Nat
    BY LenProperties DEF AuditTypes
  <2>2. Stale = SubSeq(segs, 1, m - 1)
    BY <1>1, <2>0, Split
  <2>3. m # 1
    <3> SUFFICES ASSUME m = 1 PROVE FALSE
      OBVIOUS
    <3>1. m - 1 < 1 /\ m - 1 \in Int /\ 1 \in Int
      OBVIOUS
    <3> QED
      BY <1>5, <2>2, <3>1, SubSeqEmpty
  <2>4. 1 \in 1..Len(segs) /\ m - 1 \in 1..Len(segs) /\ segs # <<>>
    <3>1. 1 \in 1..Len(segs) /\ m - 1 \in 1..Len(segs)
      BY <2>1, <2>3
    <3>2. segs = <<>> => Len(segs) = 0
      OBVIOUS
    <3> QED
      BY <3>1, <3>2
  <2>5. Head(Stale) = segs[1]
    BY <2>1, <2>2, <2>4, HeadTailOfSubSeq
  <2>6. gone' = gone \o segs[1].recs /\ segs' = Tail(segs)
    BY <1>5, <2>5 DEF RemoveSegment
  <2>7. /\ Pieces(gone \o segs[1].recs, Tail(segs), Text, log) /\ gone \o segs[1].recs \in Seq(Entries)
        /\ \A i \in 1..Len(segs) : Cut(gone \o segs[1].recs, Tail(segs), i) = Cut(gone, segs, i + 1)
        /\ Len(Tail(segs)) = Len(segs) - 1 /\ Len(segs) - 1 \in Nat
    <3>1. Pieces(gone, segs, Text, log)
      BY <1>1 DEF Placed
    <3> QED
      BY <2>1, <2>4, <3>1, PiecesRemove
  <2>8. Placed(log)'
    BY <1>1, <2>6, <2>7 DEF Placed
  <2>9. Committed(log)'
    <3>1. m - 1 \in 1..(Len(segs') + 1) /\ (m - 1) + 1 = m
      BY <2>1, <2>4, <2>6, <2>7
    <3>2. Cut(gone', segs', m - 1) = Start(m)
      BY <2>4, <2>6, <2>7, <3>1 DEF Start
    <3> QED
      BY <1>1, <2>0, <3>1, <3>2 DEF Committed, Start
  <2>10. AuditTypes'
    <3>1. segs' \in Seq(Segments) /\ gone' \in Seq(Entries)
      BY <2>1, <2>4, <2>6, <2>7, HeadTailProperties
    <3> QED
      BY <1>1, <3>1 DEF AuditTypes
  <2> QED
    BY <1>2, <1>3, <2>8, <2>9, <2>10 DEF LogInv, Leads
<1> QED
  BY <1>4, <1>5

-----------------------------------------------------------------------------
(* The steps that write, or are interrupted at it.                         *)

\* The checkpoint commits to what no writer touches.
LEMMA CommittedStays ==
  ASSUME AuditTypes, NEW log \in Seq(Entries), LogInv(log), NEW new \in Seq(Entries), UNCHANGED <<segs, gone, ckpt>>,
         \A i \in 1..Start(Len(segs) + 1) : new[i] = log[i]
  PROVE  Committed(new)'
<1>0. Placed(log) /\ Len(segs) \in Nat
  BY LenProperties DEF LogInv, AuditTypes
<1>1. PICK m \in 1..(Len(segs) + 1) : ckpt.through = Start(m) /\ ckpt.head = HeadAt(log, Start(m))
  BY DEF LogInv, Committed
<1>2. Start(m) \in Nat /\ Start(Len(segs) + 1) \in Nat /\ Start(m) <= Start(Len(segs) + 1)
  <2>1. Len(segs) + 1 \in 1..(Len(segs) + 1) /\ (m < Len(segs) + 1 \/ m = Len(segs) + 1)
    BY <1>0
  <2>2. /\ Start(m) \in Nat /\ Start(Len(segs) + 1) \in Nat
        /\ m < Len(segs) + 1 => Start(m) < Start(Len(segs) + 1)
    BY <1>0, <2>1, LogFacts
  <2> QED
    BY <2>1, <2>2
<1>3. HeadAt(new, Start(m)) = HeadAt(log, Start(m))
  <2>1. Start(m) # 0 => Start(m) \in 1..Start(Len(segs) + 1)
    BY <1>2
  <2> QED
    BY <2>1 DEF HeadAt
<1> QED
  BY <1>1, <1>3 DEF Committed, Start

\* A line that is not yet the next record makes the log one longer.
LEMMA LogAppend ==
  ASSUME AuditTypes, NEW log \in Seq(Entries), LogInv(log), NEW x \in Entries, active # Missing,
         active' = Append(active, x), UNCHANGED <<segs, gone, ckpt>>, x # Missing[1]
  PROVE  /\ Placed(Append(log, x))' /\ Committed(Append(log, x))' /\ Append(log, x) \in Seq(Entries)
         /\ Len(Append(log, x)) = Len(log) + 1 /\ Len(log) \in Nat /\ Append(log, x)[Len(log) + 1] = x
         /\ \A i \in 1..Len(log) : Append(log, x)[i] = log[i]
         /\ active' \in Seq(Entries) /\ active' # Missing /\ Text' = active' /\ Text' # <<>>
<1>1. active \in Seq(Entries) /\ segs \in Seq(Segments) /\ gone \in Seq(Entries) /\ Placed(log) /\ Text = active
  BY DEF AuditTypes, LogInv, Text
<1>2. /\ Append(log, x) \in Seq(Entries) /\ Len(Append(log, x)) = Len(log) + 1 /\ Len(log) \in Nat
      /\ Append(log, x)[Len(log) + 1] = x /\ \A i \in 1..Len(log) : Append(log, x)[i] = log[i]
  BY AppendProperties, LenProperties
<1>3. active' \in Seq(Entries) /\ active' # <<>>
  BY <1>1, AppendProperties
<1>4. active' # Missing
  <2> SUFFICES ASSUME Append(active, x) = Missing PROVE FALSE
    OBVIOUS
  <2>1. Len(active) \in Nat /\ Len(Append(active, x)) = Len(active) + 1 /\ Append(active, x)[Len(active) + 1] = x
    BY <1>1, AppendProperties, LenProperties
  <2>2. Len(Missing) = 1
    BY DEF Missing
  <2>3. Len(active) + 1 = 1
    BY <2>1, <2>2
  <2> QED
    BY <2>1, <2>3
<1>5. Text' = active' /\ Text' # <<>>
  BY <1>3, <1>4 DEF Text
<1>6. Placed(Append(log, x))'
  <2>1. Pieces(gone, segs, active, log)
    BY <1>1 DEF Placed
  <2>2. Pieces(gone, segs, Append(active, x), Append(log, x))
    BY <1>1, <2>1, PiecesAppend
  <2> QED
    BY <1>5, <2>2 DEF Placed
<1>7. Committed(Append(log, x))'
  <2>1. Len(segs) + 1 \in 1..(Len(segs) + 1)
    BY <1>1, LenProperties
  <2>2. Start(Len(segs) + 1) \in Nat /\ Start(Len(segs) + 1) <= Len(log)
    BY <1>1, <2>1, LogFacts
  <2>3. \A i \in 1..Start(Len(segs) + 1) : Append(log, x)[i] = log[i]
    BY <1>2, <2>2
  <2> QED
    BY <1>2, <2>3, CommittedStays
<1> QED
  BY <1>2, <1>3, <1>4, <1>5, <1>6, <1>7

LEMMA WriteStep ==
  ASSUME AuditTypes, NEW log \in Seq(Entries), LogInv(log), Write
  PROVE  AuditTypes' /\ Leads(log)
<1>1. /\ UNCHANGED <<segs, ckpt, acked, gone, mem, healthy, number>>
      /\ at = "write" /\ at' = "sync" /\ unsynced' = TRUE /\ openLine' = FALSE
      /\ ~unsynced /\ ~Broken(log) /\ ~openLine /\ active # Missing
      /\ mem.seq = Len(log) /\ mem.head = HeadAt(log, Len(log))
  BY DEF Write, LogInv, Remembered, Linked, Ready
<1>2. active' = Append(active, Record)
  BY <1>1 DEF Write, Written
<1>3. Record \in Entries /\ Record.seq = Len(log) + 1 /\ Record.prev = HeadAt(log, Len(log)) /\ Len(log) \in Nat
  BY <1>1 DEF AuditTypes, Record, Entries
<1>4. Record # Missing[1] /\ Record # Garbled
  <2>1. Missing[1].seq = -2 /\ Garbled.seq = -1
    BY DEF Missing, Garbled
  <2> QED
    BY <1>3, <2>1
<1>x. PICK x \in Entries : x = Record
  BY <1>3
<1>n. PICK new \in Seq(Entries) : new = Append(log, x)
  BY AppendProperties
<1>5. /\ Placed(new)' /\ Committed(new)'
      /\ Len(new) = Len(log) + 1 /\ new[Len(log) + 1] = x
      /\ \A i \in 1..Len(log) : new[i] = log[i]
      /\ active' \in Seq(Entries) /\ active' # Missing /\ Text' = active' /\ Text' # <<>>
  <2>1. active # Missing /\ active' = Append(active, x) /\ UNCHANGED <<segs, gone, ckpt>> /\ x # Missing[1]
    BY <1>1, <1>2, <1>4, <1>x
  <2> QED
    BY <2>1, <1>n, LogAppend
<1>r. Record' = Record
  BY <1>1 DEF Record
<1>6. \A i \in 1..Len(new) : Continues(new, i)
  <2> SUFFICES ASSUME NEW i \in 1..Len(new) PROVE Continues(new, i)
    OBVIOUS
  <2>1. CASE i = Len(log) + 1
    <3>1. i - 1 = Len(log) /\ (Len(log) # 0 => Len(log) \in 1..Len(log))
      BY <1>3, <2>1
    <3>2. HeadAt(new, Len(log)) = HeadAt(log, Len(log))
      BY <1>5, <3>1 DEF HeadAt
    <3> QED
      BY <1>3, <1>x, <1>5, <2>1, <3>1, <3>2 DEF Continues
  <2>2. CASE i # Len(log) + 1
    <3>1. i \in 1..Len(log) /\ (i - 1 # 0 => i - 1 \in 1..Len(log))
      BY <1>3, <1>5, <2>2
    <3>2. Continues(log, i) \/ (i = Len(log) /\ log[i] = Garbled)
      BY <3>1 DEF LogInv, Linked
    <3>3. log # <<>>
      <4> SUFFICES ASSUME log = <<>> PROVE FALSE
        OBVIOUS
      <4>1. Len(log) = 0
        OBVIOUS
      <4> QED
        BY <3>1, <4>1
    <3>4. Continues(log, i)
      BY <1>1, <3>2, <3>3 DEF Broken
    <3>5. HeadAt(new, i - 1) = HeadAt(log, i - 1) /\ new[i] = log[i]
      BY <1>5, <3>1 DEF HeadAt
    <3> QED
      BY <3>4, <3>5 DEF Continues
  <2> QED
    BY <2>1, <2>2
<1>7. ~Broken(new)
  BY <1>3, <1>4, <1>x, <1>5 DEF Broken
<1>8. Linked(new)'
  BY <1>1, <1>6, <1>7 DEF Linked, Broken
<1>9. Remembered(new)'
  BY <1>1, <1>3, <1>x, <1>5, <1>r DEF Remembered, Ready
<1>10. AckedInv(new)'
  <2> SUFFICES ASSUME NEW r \in acked PROVE r.seq \in 1..Len(new) /\ new[r.seq] = r /\ r.seq < Len(new)
    BY <1>1 DEF AckedInv
  <2>1. r.seq \in 1..Len(log) /\ log[r.seq] = r
    BY DEF LogInv, AckedInv
  <2>2. r.seq \in 1..Len(new) /\ r.seq < Len(new)
    BY <1>3, <1>5, <2>1
  <2> QED
    BY <1>5, <2>1, <2>2
<1>11. Moved(log, new)
  <2>1. SolidLen(new)' = Len(log) /\ SolidLen(log) = Len(log)
    BY <1>1, <1>3, <1>5, <1>7 DEF SolidLen, Broken
  <2> QED
    BY <1>5, <2>1 DEF Moved
<1>12. AuditTypes'
  BY <1>1, <1>5 DEF AuditTypes
<1> QED
  BY <1>5, <1>8, <1>9, <1>10, <1>11, <1>12 DEF LogInv, Leads

\* An interrupted step that leaves the active file as it was.
LEMMA StoppedStep ==
  ASSUME AuditTypes, NEW log \in Seq(Entries), LogInv(log),
         UNCHANGED <<active, openLine, segs, ckpt, mem, acked, gone, number>>, healthy' = FALSE,
         (at' = "idle" /\ unsynced' = unsynced) \/ (at' = "down" /\ unsynced' = FALSE)
  PROVE  AuditTypes' /\ Leads(log)
<1>1. Text' = Text
  BY DEF Text
<1>2. Placed(log)' /\ Committed(log)'
  BY <1>1 DEF LogInv, Placed, Committed, Start
<1>3. AckedInv(log)'
  BY DEF LogInv, AckedInv
<1>4. Linked(log)'
  BY <1>1 DEF LogInv, Linked, Broken
<1>5. Remembered(log)'
  BY <1>1 DEF LogInv, Remembered, Ready
<1>6. Moved(log, log)
  <2>1. unsynced => ~Broken(log)
    BY DEF LogInv, Linked
  <2>2. Len(log) \in Nat
    BY LenProperties
  <2>3. SolidLen(log)' \in {SolidLen(log), SolidLen(log) + 1}
    <3>1. CASE unsynced' = unsynced
      BY <3>1 DEF SolidLen, Broken
    <3>2. CASE unsynced' = FALSE /\ unsynced
      BY <2>1, <2>2, <3>2 DEF SolidLen, Broken
    <3> QED
      BY <3>1, <3>2 DEF AuditTypes
  <2> QED
    BY <2>3 DEF Moved
<1>7. AuditTypes'
  BY DEF AuditTypes
<1> QED
  BY <1>2, <1>3, <1>4, <1>5, <1>6, <1>7 DEF LogInv, Leads

\* A write that is cut short: the line it leaves is no record.
LEMMA CutStep ==
  ASSUME AuditTypes, NEW log \in Seq(Entries), LogInv(log), at = "write",
         active' = Append(active, Garbled), openLine' = TRUE, unsynced' = FALSE, healthy' = FALSE,
         at' \in {"idle", "down"}, UNCHANGED <<segs, ckpt, mem, acked, gone, number>>
  PROVE  AuditTypes' /\ Leads(log)
<1>1. active # Missing /\ ~unsynced /\ ~Broken(log)
  BY DEF LogInv, Remembered, Linked
<1>2. Garbled \in Entries /\ Garbled # Missing[1]
  BY DEF Garbled, Missing, Entries
<1>x. PICK x \in Entries : x = Garbled
  BY <1>2
<1>n. PICK new \in Seq(Entries) : new = Append(log, x)
  BY AppendProperties
<1>3. /\ Placed(new)' /\ Committed(new)'
      /\ Len(new) = Len(log) + 1 /\ Len(log) \in Nat /\ new[Len(log) + 1] = x
      /\ \A i \in 1..Len(log) : new[i] = log[i]
      /\ active' \in Seq(Entries) /\ active' # Missing /\ Text' = active' /\ Text' # <<>>
  <2>1. active' = Append(active, x) /\ UNCHANGED <<segs, gone, ckpt>> /\ x # Missing[1]
    BY <1>2, <1>x
  <2> QED
    BY <1>1, <2>1, <1>n, LogAppend
<1>4. Broken(new)
  BY <1>x, <1>3 DEF Broken
<1>5. \A i \in 1..Len(new) : Continues(new, i) \/ (i = Len(new) /\ new[i] = Garbled)
  <2> SUFFICES ASSUME NEW i \in 1..Len(log) PROVE Continues(new, i)
    BY <1>x, <1>3
  <2>1. i - 1 # 0 => i - 1 \in 1..Len(log)
    BY <1>3
  <2>2. Continues(log, i)
    <3>1. Continues(log, i) \/ (i = Len(log) /\ log[i] = Garbled)
      BY DEF LogInv, Linked
    <3>2. log # <<>>
      <4> SUFFICES ASSUME log = <<>> PROVE FALSE
        OBVIOUS
      <4>1. Len(log) = 0
        OBVIOUS
      <4> QED
        BY <4>1
    <3> QED
      BY <1>1, <3>1, <3>2 DEF Broken
  <2>3. HeadAt(new, i - 1) = HeadAt(log, i - 1) /\ new[i] = log[i]
    BY <1>3, <2>1 DEF HeadAt
  <2> QED
    BY <2>2, <2>3 DEF Continues
<1>6. Linked(new)'
  BY <1>3, <1>4, <1>5 DEF Linked, Broken
<1>7. Remembered(new)'
  BY DEF Remembered, Ready
<1>8. AckedInv(new)'
  <2> SUFFICES ASSUME NEW r \in acked PROVE r.seq \in 1..Len(new) /\ new[r.seq] = r
    BY DEF AckedInv
  <2>1. r.seq \in 1..Len(log) /\ log[r.seq] = r
    BY DEF LogInv, AckedInv
  <2> QED
    BY <1>3, <2>1
<1>9. Moved(log, new)
  <2>1. SolidLen(new)' = Len(log) /\ SolidLen(log) = Len(log)
    <3>1. SolidLen(new)' = Len(new) - 1
      BY <1>4 DEF SolidLen, Broken
    <3>2. SolidLen(log) = Len(log)
      BY <1>1 DEF SolidLen
    <3> QED
      BY <1>3, <3>1, <3>2
  <2> QED
    BY <1>3, <2>1 DEF Moved
<1>10. AuditTypes'
  BY <1>3 DEF AuditTypes
<1> QED
  BY <1>3, <1>6, <1>7, <1>8, <1>9, <1>10 DEF LogInv, Leads

\* What a crash does to a last line that was not synced: it is gone, or cut.
LEMMA LostStep ==
  ASSUME AuditTypes, NEW log \in Seq(Entries), LogInv(log), unsynced,
         \/ active' = Front(active) /\ openLine' = FALSE
         \/ active' = Append(Front(active), Garbled) /\ openLine' = TRUE,
         unsynced' = FALSE, healthy' = FALSE, at' = "down", UNCHANGED <<segs, ckpt, mem, acked, gone, number>>
  PROVE  AuditTypes' /\ Leads(log)
<1>1. Text # <<>> /\ Text = active /\ active # Missing /\ ~Broken(log) /\ Placed(log) /\ log # <<>>
  <2>1. Text # <<>> /\ ~Broken(log) /\ Placed(log)
    BY DEF LogInv, Remembered, Linked
  <2>2. Text = active /\ active # Missing
    BY <2>1 DEF Text
  <2>3. log # <<>>
    <3> SUFFICES ASSUME log = <<>> PROVE FALSE
      OBVIOUS
    <3>1. Len(log) = 0
      OBVIOUS
    <3>2. Len(segs) \in Nat /\ Len(Text) = Len(log) - Start(Len(segs) + 1) /\ Text \in Seq(Entries)
      BY <2>1, LogFacts
    <3>3. Len(segs) + 1 \in 1..(Len(segs) + 1)
      BY <3>2
    <3>4. Start(Len(segs) + 1) \in Nat
      BY <2>1, <3>3, LogFacts
    <3>5. Len(Text) \in Nat \ {0}
      BY <2>1, <3>2, EmptySeq, LenProperties
    <3> QED
      BY <3>1, <3>2, <3>4, <3>5
  <2> QED
    BY <2>1, <2>2, <2>3
<1>2. gone \in Seq(Entries) /\ segs \in Seq(Segments) /\ active \in Seq(Entries) /\ Pieces(gone, segs, active, log)
  BY <1>1 DEF AuditTypes, Placed
<1>3. /\ Pieces(gone, segs, Front(active), Front(log)) /\ Front(active) \in Seq(Entries)
      /\ Front(log) \in Seq(Entries) /\ Len(Front(log)) = Len(log) - 1 /\ Len(log) - 1 \in Nat
      /\ \A i \in 1..(Len(log) - 1) : Front(log)[i] = log[i]
      /\ \A i \in 1..(Len(segs) + 1) : Cut(gone, segs, i) <= Len(log) - 1
  BY <1>1, <1>2, PiecesFront
<1>f. PICK short \in Seq(Entries), base \in Seq(Entries) : short = Front(log) /\ base = Front(active)
  BY <1>3
<1>4. /\ Pieces(gone, segs, base, short) /\ Len(short) = Len(log) - 1 /\ Len(log) - 1 \in Nat /\ Len(log) \in Nat
      /\ \A i \in 1..Len(short) : short[i] = log[i]
  BY <1>3, <1>f, LenProperties
<1>5. \A i \in 1..Len(log) : Continues(log, i)
  <2> SUFFICES ASSUME NEW i \in 1..Len(log), ~Continues(log, i) PROVE FALSE
    OBVIOUS
  <2>1. i = Len(log) /\ log[i] = Garbled
    BY DEF LogInv, Linked
  <2> QED
    BY <1>1, <2>1 DEF Broken
<1>6. \A i \in 1..Len(short) : Continues(short, i)
  <2> SUFFICES ASSUME NEW i \in 1..Len(short) PROVE Continues(short, i)
    OBVIOUS
  <2>1. i \in 1..Len(log) /\ (i - 1 # 0 => i - 1 \in 1..Len(short))
    BY <1>4
  <2>2. HeadAt(short, i - 1) = HeadAt(log, i - 1) /\ short[i] = log[i]
    BY <1>4, <2>1 DEF HeadAt
  <2> QED
    BY <1>5, <2>1, <2>2 DEF Continues
<1>7. ~Broken(short)
  <2> SUFFICES ASSUME short # <<>>, short[Len(short)] = Garbled PROVE FALSE
    BY DEF Broken
  <2>1. Len(short) \in Nat \ {0}
    BY EmptySeq, LenProperties
  <2>2. short[Len(short)].seq = Len(short)
    <3>1. Len(short) \in 1..Len(short)
      BY <2>1
    <3> QED
      BY <1>6, <3>1 DEF Continues
  <2> QED
    BY <2>1, <2>2 DEF Garbled
<1>8. SolidLen(log) = Len(short)
  BY <1>4 DEF SolidLen
<1>9. \A r \in acked : r.seq \in 1..Len(short) /\ short[r.seq] = r
  <2> SUFFICES ASSUME NEW r \in acked PROVE r.seq \in 1..Len(short) /\ short[r.seq] = r
    OBVIOUS
  <2>1. r.seq \in 1..Len(log) /\ log[r.seq] = r /\ r.seq < Len(log)
    BY DEF LogInv, AckedInv
  <2>2. r.seq \in 1..Len(short)
    BY <1>4, <2>1
  <2> QED
    BY <1>4, <2>1, <2>2
<1>10. \A i \in 1..Start(Len(segs) + 1) : short[i] = log[i] /\ i \in 1..Len(short)
  <2>1. Len(segs) + 1 \in 1..(Len(segs) + 1)
    BY <1>2, LenProperties
  <2>2. Start(Len(segs) + 1) \in Nat /\ Start(Len(segs) + 1) <= Len(short)
    BY <1>1, <1>3, <1>4, <2>1, LogFacts DEF Start
  <2>3. \A i \in 1..Start(Len(segs) + 1) : i \in 1..Len(short)
    BY <1>4, <2>2
  <2> QED
    BY <1>4, <2>3
<1>11. CASE active' = Front(active) /\ openLine' = FALSE
  <2>1. active' = base /\ base # Missing
    <3> SUFFICES ASSUME base = Missing PROVE FALSE
      BY <1>f, <1>11
    <3>1. Len(base) = 1 /\ base[1].seq = -2
      BY DEF Missing
    <3>2. PICK e \in Nat : e = Cut(gone, segs, Len(segs) + 1) /\ e <= Len(short)
      <4>1. Len(segs) + 1 \in 1..(Len(segs) + 1)
        BY <1>2, LenProperties
      <4> QED
        BY <1>2, <1>4, <4>1, CutsRise
    <3>3. base = SubSeq(short, e + 1, Len(short))
      BY <1>4, <3>2 DEF Pieces
    <3>4. Len(base) = Len(short) - e /\ \A i \in 1..(Len(short) - e) : base[i] = short[e + i]
      BY <1>4, <3>2, <3>3, SliceIs
    <3>5. 1 \in 1..(Len(short) - e) /\ e + 1 \in 1..Len(short)
      BY <1>4, <3>1, <3>2, <3>4
    <3>6. base[1].seq = e + 1
      BY <1>6, <3>4, <3>5 DEF Continues
    <3> QED
      BY <3>1, <3>2, <3>6
  <2>2. Text' = base
    BY <2>1 DEF Text
  <2>3. Placed(short)'
    BY <1>4, <2>2 DEF Placed
  <2>4. Committed(short)'
    BY <1>10, CommittedStays
  <2>5. Linked(short)'
    BY <1>6, <1>7, <1>11 DEF Linked, Broken
  <2>6. Remembered(short)'
    BY DEF Remembered, Ready
  <2>7. AckedInv(short)'
    BY <1>9 DEF AckedInv
  <2>8. Moved(log, short)
    <3>1. SolidLen(short)' = Len(short)
      BY <1>7 DEF SolidLen, Broken
    <3> QED
      BY <1>4, <1>8, <3>1 DEF Moved
  <2>9. AuditTypes'
    BY <1>11, <2>1 DEF AuditTypes
  <2> QED
    BY <2>3, <2>4, <2>5, <2>6, <2>7, <2>8, <2>9 DEF LogInv, Leads
<1>12. CASE active' = Append(Front(active), Garbled) /\ openLine' = TRUE
  <2>g. Garbled \in Entries
    BY DEF Garbled, Entries
  <2>x. PICK x \in Entries : x = Garbled
    BY <2>g
  <2>n. PICK new \in Seq(Entries) : new = Append(short, x)
    BY AppendProperties
  <2>1. /\ Len(new) = Len(short) + 1 /\ new[Len(short) + 1] = x /\ \A i \in 1..Len(short) : new[i] = short[i]
        /\ Len(new) = Len(log)
    BY <1>4, <2>n, AppendProperties
  <2>2. active' = Append(base, x) /\ active' \in Seq(Entries) /\ active' # <<>> /\ active' # Missing
    <3>1. active' = Append(base, x)
      BY <1>f, <1>12, <2>x
    <3>2. /\ Append(base, x) \in Seq(Entries) /\ Len(Append(base, x)) = Len(base) + 1
          /\ Append(base, x)[Len(base) + 1] = x /\ Len(base) \in Nat
      BY AppendProperties, LenProperties
    <3>3. Append(base, x) # <<>>
      <4> SUFFICES ASSUME Append(base, x) = <<>> PROVE FALSE
        OBVIOUS
      <4>1. Len(Append(base, x)) = 0
        OBVIOUS
      <4> QED
        BY <3>2, <4>1
    <3>4. Append(base, x) # Missing
      <4> SUFFICES ASSUME Append(base, x) = Missing PROVE FALSE
        OBVIOUS
      <4>1. Len(Missing) = 1 /\ Missing[1].seq = -2 /\ x.seq = -1
        BY <2>x DEF Missing, Garbled
      <4>2. Len(base) + 1 = 1
        BY <3>2, <4>1
      <4> QED
        BY <3>2, <4>1, <4>2
    <3> QED
      BY <3>1, <3>2, <3>3, <3>4
  <2>3. Text' = active'
    BY <2>2 DEF Text
  <2>4. Pieces(gone, segs, Append(base, x), new)
    BY <1>2, <1>4, <2>n, PiecesAppend
  <2>5. Placed(new)'
    BY <2>2, <2>3, <2>4 DEF Placed
  <2>6. Committed(new)'
    <3>1. \A i \in 1..Start(Len(segs) + 1) : new[i] = log[i]
      BY <1>10, <2>1
    <3> QED
      BY <3>1, CommittedStays
  <2>7. \A i \in 1..Len(new) : Continues(new, i) \/ (i = Len(new) /\ new[i] = Garbled)
    <3> SUFFICES ASSUME NEW i \in 1..Len(short) PROVE Continues(new, i)
      BY <1>4, <2>x, <2>1
    <3>1. i - 1 # 0 => i - 1 \in 1..Len(short)
      BY <1>4
    <3>2. HeadAt(new, i - 1) = HeadAt(short, i - 1) /\ new[i] = short[i]
      BY <2>1, <3>1 DEF HeadAt
    <3> QED
      BY <1>6, <3>2 DEF Continues
  <2>8. Broken(new)
    <3>1. new # <<>>
      <4> SUFFICES ASSUME new = <<>> PROVE FALSE
        OBVIOUS
      <4>1. Len(new) = 0
        OBVIOUS
      <4> QED
        BY <1>4, <2>1, <4>1
    <3> QED
      BY <2>x, <2>1, <3>1 DEF Broken
  <2>9. Linked(new)'
    BY <2>2, <2>3, <2>7, <2>8 DEF Linked, Broken
  <2>10. Remembered(new)'
    BY DEF Remembered, Ready
  <2>11. AckedInv(new)'
    <3> SUFFICES ASSUME NEW r \in acked PROVE r.seq \in 1..Len(new) /\ new[r.seq] = r
      BY DEF AckedInv
    <3>1. r.seq \in 1..Len(short) /\ short[r.seq] = r
      BY <1>9
    <3>2. r.seq \in 1..Len(new)
      BY <1>4, <2>1, <3>1
    <3> QED
      BY <2>1, <3>1, <3>2
  <2>12. Moved(log, new)
    <3>1. SolidLen(new)' = Len(short)
      <4>1. SolidLen(new)' = Len(new) - 1
        BY <2>8 DEF SolidLen, Broken
      <4> QED
        BY <1>4, <2>1, <4>1
    <3>2. \A i \in 1..Len(short) : new[i] = log[i]
      BY <1>4, <2>1
    <3> QED
      BY <1>8, <3>1, <3>2 DEF Moved
  <2>13. AuditTypes'
    BY <1>12, <2>2 DEF AuditTypes
  <2> QED
    BY <2>5, <2>6, <2>9, <2>10, <2>11, <2>12, <2>13 DEF LogInv, Leads
<1> QED
  BY <1>11, <1>12

LEMMA FailStep ==
  ASSUME Clean, AuditTypes, NEW log \in Seq(Entries), LogInv(log), Fail
  PROVE  AuditTypes' /\ Leads(log)
<1>1. /\ UNCHANGED <<unsynced, segs, ckpt, mem, acked, gone, number>> /\ healthy' = FALSE /\ at' = "idle"
      /\ \E t \in IF at = "write" THEN Torn ELSE {<<active, openLine>>} : active' = t[1] /\ openLine' = t[2]
  BY DEF Fail
<1>2. PICK t \in IF at = "write" THEN Torn ELSE {<<active, openLine>>} : active' = t[1] /\ openLine' = t[2]
  BY <1>1
<1>3. CASE t = <<active, openLine>>
  <2>1. active' = active /\ openLine' = openLine
    BY <1>2, <1>3
  <2> QED
    BY <1>1, <2>1, StoppedStep
<1>4. CASE t # <<active, openLine>>
  <2>1. at = "write" /\ t \in Torn
    BY <1>2, <1>4
  <2>2. t = <<Written(Garbled), TRUE>>
    BY <2>1, <1>4 DEF Torn, Clean
  <2>3. ~openLine /\ ~unsynced
    BY <2>1 DEF LogInv, Linked, Remembered
  <2>4. active' = Append(active, Garbled) /\ openLine' = TRUE
    BY <1>2, <2>2, <2>3 DEF Written
  <2>5. unsynced' = FALSE
    BY <1>1, <2>3 DEF AuditTypes
  <2> QED
    BY <1>1, <2>1, <2>4, <2>5, CutStep
<1> QED
  BY <1>3, <1>4

LEMMA CrashStep ==
  ASSUME Clean, AuditTypes, NEW log \in Seq(Entries), LogInv(log), Crash
  PROVE  AuditTypes' /\ Leads(log)
<1> DEFINE Left == CASE at = "write" -> Torn [] unsynced -> Unsynced [] OTHER -> {<<active, openLine>>}
<1>1. /\ UNCHANGED <<segs, ckpt, mem, acked, gone, number>> /\ healthy' = FALSE /\ at' = "down" /\ unsynced' = FALSE
      /\ \E t \in Left : active' = t[1] /\ openLine' = t[2]
  BY DEF Crash
<1>2. PICK t \in Left : active' = t[1] /\ openLine' = t[2]
  BY <1>1
<1>3. at = "write" => ~unsynced /\ ~openLine
  BY DEF LogInv, Linked, Remembered
<1>4. unsynced => openLine = FALSE
  BY DEF LogInv, Linked, AuditTypes
<1>5. CASE at = "write"
  <2>1. t \in Torn
    BY <1>2, <1>3, <1>5
  <2>2. CASE t = <<active, openLine>>
    <3>1. active' = active /\ openLine' = openLine
      BY <1>2, <2>2
    <3> QED
      BY <1>1, <3>1, StoppedStep
  <2>3. CASE t # <<active, openLine>>
    <3>1. t = <<Written(Garbled), TRUE>>
      BY <2>1, <2>3 DEF Torn, Clean
    <3>2. active' = Append(active, Garbled) /\ openLine' = TRUE
      BY <1>2, <1>3, <1>5, <3>1 DEF Written
    <3> QED
      BY <1>1, <1>5, <3>2, CutStep
  <2> QED
    BY <2>2, <2>3
<1>6. CASE at # "write" /\ unsynced
  <2>1. t \in Unsynced
    BY <1>2, <1>6
  <2>2. CASE t = <<active, FALSE>>
    <3>1. active' = active /\ openLine' = openLine
      BY <1>2, <1>4, <1>6, <2>2
    <3> QED
      BY <1>1, <3>1, StoppedStep
  <2>3. CASE t # <<active, FALSE>>
    <3>1. t = <<Front(active), FALSE>> \/ t = <<Append(Front(active), Garbled), TRUE>>
      BY <2>1, <2>3 DEF Unsynced
    <3>2. \/ active' = Front(active) /\ openLine' = FALSE
          \/ active' = Append(Front(active), Garbled) /\ openLine' = TRUE
      <4>1. \A a, b : t = <<a, b>> => active' = a /\ openLine' = b
        BY <1>2
      <4> QED
        BY <3>1, <4>1, Zenon
    <3> QED
      BY <1>1, <1>6, <3>2, LostStep
  <2> QED
    BY <2>2, <2>3
<1>7. CASE at # "write" /\ ~unsynced
  <2>1. t = <<active, openLine>>
    BY <1>2, <1>7
  <2>2. active' = active /\ openLine' = openLine
    BY <1>2, <2>1
  <2> QED
    BY <1>1, <2>2, StoppedStep
<1> QED
  BY <1>5, <1>6, <1>7

-----------------------------------------------------------------------------
(* The theorems.                                                           *)

LEMMA AuditStart == AuditInit => AuditTypes /\ LogInv(<<>>)
<1> SUFFICES ASSUME AuditInit PROVE AuditTypes /\ LogInv(<<>>)
  OBVIOUS
<1>1. Missing \in Seq(Entries)
  <2>1. [seq |-> -2, id |-> -2, prev |-> -2] \in Entries
    BY DEF Entries
  <2> QED
    BY <2>1 DEF Missing
<1>2. AuditTypes
  <2>1. /\ active \in Seq(Entries) /\ openLine \in BOOLEAN /\ unsynced \in BOOLEAN
        /\ segs \in Seq(Segments) /\ gone \in Seq(Entries) /\ acked \subseteq Entries
    BY <1>1, EmptySeq DEF AuditInit
  <2>2. healthy \in BOOLEAN /\ number \in Nat /\ at = "down"
    BY DEF AuditInit
  <2>3. mem \in [seq : Nat, head : Int]
    BY DEF AuditInit
  <2>4. ckpt \in [through : Nat, head : Int]
    BY DEF AuditInit, None
  <2> QED
    BY <2>1, <2>2, <2>3, <2>4 DEF AuditTypes
<1>3. Text = <<>> /\ gone = <<>> /\ segs = <<>> /\ ckpt = [through |-> 0, head |-> 0] /\ Start(1) = 0
  BY DEF AuditInit, Text, None, Start, Cut
<1>4. SubSeq(<<>>, 1, 0) = <<>>
  BY SubSeqEmpty
<1>5. Placed(<<>>)
  BY <1>3, <1>4 DEF Placed, Pieces, Cut
<1>6. Linked(<<>>) /\ Remembered(<<>>) /\ AckedInv(<<>>)
  BY DEF AuditInit, Linked, Broken, Remembered, Ready, AckedInv
<1>7. Committed(<<>>)
  <2>1. 1 \in 1..(Len(segs) + 1)
    BY <1>3
  <2> QED
    BY <1>3, <2>1 DEF Committed, HeadAt
<1> QED
  BY <1>2, <1>5, <1>6, <1>7 DEF LogInv

LEMMA AuditStep ==
  ASSUME AuditAssumption, Clean, AuditTypes, NEW log \in Seq(Entries), LogInv(log), AuditNext
  PROVE  AuditTypes' /\ Leads(log)
<1>1. CASE Recover
  BY <1>1, RecoverStep
<1>2. CASE AppendBegin \/ Close
  BY <1>2, FlagSteps
<1>3. CASE CreateActive \/ OpenFile
  BY <1>3, CreateSteps
<1>4. CASE Seal
  BY <1>4, SealStep
<1>5. CASE Checkpoint
  BY <1>5, CheckpointStep
<1>6. CASE RemoveSegment
  BY <1>6, RemoveStep
<1>7. CASE Write
  BY <1>7, WriteStep
<1>8. CASE Sync
  BY <1>8, SyncStep
<1>9. CASE Fail
  BY <1>9, FailStep
<1>10. CASE Crash
  BY <1>10, CrashStep
<1> QED
  BY <1>1, <1>2, <1>3, <1>4, <1>5, <1>6, <1>7, <1>8, <1>9, <1>10 DEF AuditNext

LEMMA AuditStutter ==
  ASSUME AuditTypes, NEW log \in Seq(Entries), LogInv(log), UNCHANGED auditVars
  PROVE  AuditTypes' /\ LogInv(log)'
<1>1. UNCHANGED <<active, openLine, unsynced, segs, ckpt, mem, healthy, at, acked, gone, number>> /\ Text' = Text
  BY DEF auditVars, fileVars, Text
<1>2. AuditTypes'
  BY <1>1 DEF AuditTypes
<1>3. Placed(log)' /\ Linked(log)' /\ Committed(log)' /\ AckedInv(log)'
  BY <1>1 DEF LogInv, Placed, Linked, Broken, Committed, Start, AckedInv
<1>4. Remembered(log)'
  BY <1>1 DEF LogInv, Remembered, Ready, Record
<1> QED
  BY <1>2, <1>3, <1>4 DEF LogInv

\* The log is sound at every step: its files are one chain, cut where the
\* checkpoint and the suffixes say.
THEOREM AuditInvariant == ASSUME Clean PROVE AuditSpec => []AuditInv
<1>1. AuditInit => AuditInv
  BY AuditStart, EmptySeq DEF AuditInv
<1>2. AuditInv /\ [AuditNext]_auditVars => AuditInv'
  <2> SUFFICES ASSUME AuditInv, [AuditNext]_auditVars PROVE AuditInv'
    OBVIOUS
  <2>1. PICK log \in Seq(Entries) : LogInv(log)
    BY DEF AuditInv
  <2>2. CASE AuditNext
    <3>1. AuditTypes' /\ Leads(log)
      BY <2>1, <2>2, AuditAssumption, AuditStep DEF AuditInv
    <3> QED
      BY <3>1 DEF Leads, AuditInv
  <2>3. CASE UNCHANGED auditVars
    BY <2>1, <2>3, AuditStutter DEF AuditInv
  <2> QED
    BY <2>2, <2>3
<1> QED
  BY <1>1, <1>2, PTL DEF AuditSpec

\* What is acknowledged stays: in the files, or behind the checkpoint.
THEOREM AcknowledgedStays == ASSUME Clean PROVE AuditSpec => []AckedIsKept
<1>1. AuditInv => AckedIsKept
  <2> SUFFICES ASSUME AuditInv, NEW r \in acked, ~(r.seq <= ckpt.through)
               PROVE  \E i \in DOMAIN Visible : Visible[i] = r
    BY DEF AckedIsKept
  <2>1. PICK log \in Seq(Entries) : LogInv(log)
    BY DEF AuditInv
  <2>2. AuditTypes /\ Placed(log) /\ Len(segs) \in Nat /\ Len(log) \in Nat
    BY <2>1, LenProperties DEF AuditInv, LogInv, AuditTypes
  <2>3. PICK m \in 1..(Len(segs) + 1) : ckpt.through = Start(m)
    BY <2>1 DEF LogInv, Committed
  <2>4. PICK from \in Nat : from = Start(m) /\ from <= Len(log)
    BY <2>2, LogFacts
  <2>5. r.seq \in 1..Len(log) /\ log[r.seq] = r /\ r.seq > from
    BY <2>1, <2>3, <2>4 DEF LogInv, AckedInv
  <2>6. /\ SubSeq(log, from + 1, Len(log)) \in Seq(Entries) /\ Len(SubSeq(log, from + 1, Len(log))) = Len(log) - from
        /\ \A i \in 1..(Len(log) - from) : SubSeq(log, from + 1, Len(log))[i] = log[from + i]
    BY <2>2, <2>4, SliceIs
  <2>7. r.seq - from \in 1..(Len(log) - from) /\ from + (r.seq - from) = r.seq
    BY <2>2, <2>4, <2>5
  <2>8. CASE active # Missing
    <3>1. Visible = SubSeq(log, from + 1, Len(log))
      BY <2>2, <2>3, <2>4, <2>8, Split DEF Text
    <3>2. r.seq - from \in DOMAIN Visible
      BY <2>6, <2>7, <3>1, LenProperties
    <3> QED
      BY <2>5, <2>6, <2>7, <3>1, <3>2
  <2>9. CASE active = Missing
    <3>1. Len(segs) + 1 \in 1..(Len(segs) + 1)
      BY <2>2
    <3>2. Start(Len(segs) + 1) = Len(log)
      <4>1. Len(Text) = 0
        BY <2>9 DEF Text
      <4>2. Len(Text) = Len(log) - Start(Len(segs) + 1) /\ Start(Len(segs) + 1) \in Nat
        BY <2>2, <3>1, LogFacts
      <4> QED
        BY <2>2, <4>1, <4>2
    <3>3. Lines(Retained) = SubSeq(log, from + 1, Len(log))
      BY <2>2, <2>3, <2>4, <3>2, Split
    <3>4. PICK kept \in Seq(Entries) : /\ kept = Lines(Retained) /\ Len(kept) = Len(log) - from
                                       /\ \A i \in 1..(Len(log) - from) : kept[i] = log[from + i]
      BY <2>6, <3>3
    <3>5. Missing \in Seq(Entries)
      BY <2>2, <2>9 DEF AuditTypes
    <3>6. /\ kept \o Missing \in Seq(Entries) /\ Len(kept \o Missing) = Len(kept) + Len(Missing) /\ Len(Missing) \in Nat
          /\ \A i \in 1..Len(kept) : (kept \o Missing)[i] = kept[i]
      <4>1. /\ kept \o Missing \in Seq(Entries) /\ Len(kept \o Missing) = Len(kept) + Len(Missing)
            /\ \A i \in 1..(Len(kept) + Len(Missing)) :
                  (kept \o Missing)[i] = IF i <= Len(kept) THEN kept[i] ELSE Missing[i - Len(kept)]
        BY <3>5, ConcatProperties
      <4>2. Len(Missing) \in Nat /\ Len(kept) \in Nat
        BY <3>5, LenProperties
      <4>3. \A i \in 1..Len(kept) : i \in 1..(Len(kept) + Len(Missing)) /\ i <= Len(kept)
        BY <4>2
      <4> QED
        BY <4>1, <4>2, <4>3
    <3>7. r.seq - from \in 1..Len(kept \o Missing) /\ r.seq - from \in 1..Len(kept)
      BY <2>2, <2>4, <2>7, <3>4, <3>6
    <3>8. Visible = kept \o Missing
      BY <2>9, <3>4 DEF Visible
    <3>9. r.seq - from \in DOMAIN Visible
      BY <3>6, <3>7, <3>8, LenProperties
    <3>10. Visible[r.seq - from] = r
      BY <2>5, <2>7, <3>4, <3>6, <3>7, <3>8
    <3> QED
      BY <3>9, <3>10
  <2> QED
    BY <2>8, <2>9
<1> QED
  BY <1>1, AuditInvariant, PTL

\* The files of a log that may append verify, and end with what it remembers.
THEOREM HealthyLogVerifies == ASSUME Clean PROVE AuditSpec => []HealthyVerifies
<1>1. AuditInv => HealthyVerifies
  <2> SUFFICES ASSUME AuditInv, healthy, at \in {"idle", "rotate", "retain", "remove", "write"}
               PROVE  /\ Verifies
                      /\ LastOf(Visible).seq = mem.seq /\ LastOf(Visible).id = mem.head
    BY DEF HealthyVerifies
  <2>1. PICK log \in Seq(Entries) : LogInv(log)
    BY DEF AuditInv
  <2>2. active # Missing /\ mem.seq = Len(log) /\ mem.head = HeadAt(log, Len(log))
    BY <2>1 DEF LogInv, Remembered, Ready, Text
  <2>3. ~Broken(log)
    BY <2>1 DEF LogInv, Linked
  <2> QED
    BY <2>1, <2>2, <2>3, Verified DEF AuditInv
<1> QED
  BY <1>1, AuditInvariant, PTL

-----------------------------------------------------------------------------
(* The refinement.                                                         *)

\* The records on disk are the log's solid lines.
Solid == \A log \in Seq(Entries) :
             LogInv(log) => /\ Records(Durable) = SubSeq(log, 1, SolidLen(log))
                            /\ SolidLen(log) \in Nat /\ SolidLen(log) <= Len(log)

LEMMA SolidHolds == AuditTypes => Solid
<1> SUFFICES ASSUME AuditTypes, NEW log \in Seq(Entries), LogInv(log)
             PROVE  /\ Records(Durable) = SubSeq(log, 1, SolidLen(log))
                    /\ SolidLen(log) \in Nat /\ SolidLen(log) <= Len(log)
  BY DEF Solid
<1>1. /\ gone \in Seq(Entries) /\ segs \in Seq(Segments) /\ active \in Seq(Entries) /\ Pieces(gone, segs, Text, log)
      /\ Len(log) \in Nat
  BY LenProperties DEF AuditTypes, LogInv, Placed
<1>2. SubSeq(log, 1, Len(log)) = log
  BY SubSeqFull
<1>3. CASE ~unsynced
  <2>1. Durable = gone \o Lines(segs) \o Text
    BY <1>3 DEF Durable, Text
  <2>2. Durable = log
    BY <1>1, <2>1, PiecesWhole
  <2>3. CASE Broken(log)
    <3>1. Len(log) # 0
      BY <2>3, EmptySeq DEF Broken
    <3>2. Records(log) = Front(log) /\ SolidLen(log) = Len(log) - 1
      BY <2>3 DEF Broken, Records, Last, SolidLen
    <3> QED
      BY <1>1, <2>2, <3>1, <3>2 DEF Front
  <2>4. CASE ~Broken(log)
    BY <1>1, <1>2, <1>3, <2>2, <2>4 DEF Broken, Records, Last, SolidLen
  <2> QED
    BY <2>3, <2>4
<1>4. CASE unsynced
  <2>1. Text # <<>> /\ Text = active /\ active # Missing /\ ~Broken(log)
    BY <1>4 DEF LogInv, Remembered, Linked, Text
  <2>2. /\ Pieces(gone, segs, Front(active), Front(log)) /\ Front(active) \in Seq(Entries)
        /\ Front(log) \in Seq(Entries) /\ Len(Front(log)) = Len(log) - 1 /\ Len(log) - 1 \in Nat
        /\ \A i \in 1..(Len(log) - 1) : Front(log)[i] = log[i]
    <3>1. active # <<>> /\ Pieces(gone, segs, active, log)
      BY <1>1, <2>1
    <3> QED
      BY <1>1, <3>1, PiecesFront
  <2>3. Durable = Front(log)
    <3>1. Durable = gone \o Lines(segs) \o Front(active)
      BY <1>4, <2>1 DEF Durable
    <3> QED
      BY <1>1, <2>2, <3>1, PiecesWhole
  <2>4. PICK short \in Seq(Entries) : short = Front(log)
    BY <2>2
  <2>5. short # <<>> => Last(short) # Garbled
    <3> SUFFICES ASSUME short # <<>>, short[Len(short)] = Garbled PROVE FALSE
      BY DEF Last
    <3>1. Len(short) \in Nat \ {0} /\ Len(short) = Len(log) - 1
      BY <2>2, <2>4, EmptySeq, LenProperties
    <3>2. Len(short) \in 1..Len(log) /\ Len(short) \in 1..(Len(log) - 1) /\ Len(short) # Len(log)
      BY <1>1, <3>1
    <3>3. log[Len(short)] = Garbled
      BY <2>2, <2>4, <3>2
    <3>4. Continues(log, Len(short))
      BY <3>2 DEF LogInv, Linked
    <3> QED
      BY <3>1, <3>3, <3>4 DEF Continues, Garbled
  <2>6. Records(Durable) = short
    BY <2>3, <2>4, <2>5 DEF Records
  <2>7. SolidLen(log) = Len(log) - 1
    BY <1>4 DEF SolidLen
  <2> QED
    BY <1>1, <2>2, <2>4, <2>6, <2>7 DEF Front
<1> QED
  BY <1>3, <1>4

LEMMA RecordsGrow ==
  ASSUME NEW log \in Seq(Entries), LogInv(log), Solid, Solid', Leads(log)
  PROVE  [Promise!Add]_(Records(Durable))
<1>1. PICK new \in Seq(Entries) : LogInv(new)' /\ Moved(log, new)
  BY DEF Leads
<1>2. PICK n \in Nat : n = SolidLen(log) /\ n <= Len(log) /\ Records(Durable) = SubSeq(log, 1, n)
  BY DEF Solid
<1>3. PICK k \in Nat : k = SolidLen(new)' /\ k <= Len(new) /\ Records(Durable)' = SubSeq(new, 1, k)
  BY <1>1 DEF Solid
<1>4. k \in {n, n + 1} /\ \A i \in 1..n : new[i] = log[i]
  BY <1>1, <1>2, <1>3 DEF Moved
<1>5. SubSeq(new, 1, n) = SubSeq(log, 1, n)
  <2>1. n <= Len(new) /\ 0 \in Nat /\ 0 <= n
    BY <1>2, <1>3, <1>4
  <2>2. SubSeq(new, 0 + 1, n) = SubSeq(log, 0 + 1, n)
    BY <1>2, <1>4, <2>1, SliceOfPrefix
  <2> QED
    BY <2>2
<1>6. CASE k = n
  BY <1>2, <1>3, <1>5, <1>6
<1>7. CASE k = n + 1
  <2>1. /\ SubSeq(log, 1, n) \in Seq(Entries) /\ Len(SubSeq(log, 1, n)) = n
        /\ SubSeq(new, 1, k) \in Seq(Entries) /\ Len(SubSeq(new, 1, k)) = k
        /\ \A i \in 1..k : SubSeq(new, 1, k)[i] = new[i]
    <3>1. 0 \in Nat /\ 0 <= n /\ 0 <= k /\ 0 + 1 = 1 /\ n - 0 = n /\ k - 0 = k /\ \A i \in 1..k : 0 + i = i
      BY <1>7
    <3>2. /\ SubSeq(log, 0 + 1, n) \in Seq(Entries) /\ Len(SubSeq(log, 0 + 1, n)) = n - 0
      BY <1>2, <3>1, SliceIs
    <3>3. /\ SubSeq(new, 0 + 1, k) \in Seq(Entries) /\ Len(SubSeq(new, 0 + 1, k)) = k - 0
          /\ \A i \in 1..(k - 0) : SubSeq(new, 0 + 1, k)[i] = new[0 + i]
      BY <1>3, <3>1, SliceIs
    <3> QED
      BY <3>1, <3>2, <3>3
  <2>2. PICK grown \in Seq(Entries) : grown = SubSeq(new, 1, k)
    BY <2>1
  <2>3. SubSeq(grown, 1, n) = SubSeq(new, 1, n)
    <3>1. 0 \in Nat /\ 0 <= n /\ n <= Len(grown) /\ n <= Len(new) /\ \A i \in 1..n : grown[i] = new[i]
      BY <1>3, <1>7, <2>1, <2>2
    <3>2. SubSeq(grown, 0 + 1, n) = SubSeq(new, 0 + 1, n)
      BY <3>1, SliceOfPrefix
    <3> QED
      BY <3>2
  <2>4. Len(Records(Durable)') = Len(Records(Durable)) + 1
    BY <1>2, <1>3, <1>7, <2>1
  <2>5. SubSeq(Records(Durable)', 1, Len(Records(Durable))) = Records(Durable)
    BY <1>2, <1>3, <1>5, <2>1, <2>2, <2>3
  <2> QED
    BY <2>4, <2>5 DEF Promise!Add
<1> QED
  BY <1>4, <1>6, <1>7

\* Sealing, retention, failure and recovery only ever add to the records.
THEOREM LogIsAppendOnly == ASSUME Clean PROVE AuditSpec => ImplementsAppendOnlyLog
<1>1. AuditInit => Promise!Init
  <2> SUFFICES ASSUME AuditInit PROVE Records(Durable) = <<>>
    BY DEF Promise!Init
  <2>1. AuditTypes /\ LogInv(<<>>) /\ <<>> \in Seq(Entries)
    BY AuditStart, EmptySeq
  <2>2. Records(Durable) = SubSeq(<<>>, 1, SolidLen(<<>>)) /\ SolidLen(<<>>) \in Nat /\ SolidLen(<<>>) <= Len(<<>>)
    BY <2>1, SolidHolds DEF Solid
  <2>3. SolidLen(<<>>) = 0
    BY <2>2
  <2> QED
    BY <2>2, <2>3, SubSeqEmpty
<1>2. AuditInv => Solid
  BY SolidHolds DEF AuditInv
<1>3. AuditInv /\ Solid /\ Solid' /\ [AuditNext]_auditVars => [Promise!Add]_(Records(Durable))
  <2> SUFFICES ASSUME AuditInv, Solid, Solid', [AuditNext]_auditVars PROVE [Promise!Add]_(Records(Durable))
    OBVIOUS
  <2>1. PICK log \in Seq(Entries) : LogInv(log)
    BY DEF AuditInv
  <2>2. CASE AuditNext
    <3>1. Leads(log)
      BY <2>1, <2>2, AuditAssumption, AuditStep DEF AuditInv
    <3> QED
      BY <2>1, <3>1, RecordsGrow
  <2>3. CASE UNCHANGED auditVars
    BY <2>3 DEF auditVars, fileVars, Durable, Records
  <2> QED
    BY <2>2, <2>3
<1> QED
  BY <1>1, <1>2, <1>3, AuditInvariant, PTL DEF AuditSpec, ImplementsAppendOnlyLog, Promise!Spec

=============================================================================
