---------------------------- MODULE MCJobEngine ----------------------------
(* Instances of JobEngine for TLC. *)
EXTENDS JobEngine, TLC

CONSTANTS j1, j2, j3, s1, s2, s3, a1, a2

MCJobs == {j1, j2}
MCThreeJobs == {j1, j2, j3}
JobSymmetry == Permutations(MCJobs)
\* One agent with two sessions, and another agent with a third.
MCSessions == {s1, s2, s3}
MCOwners == {a1, a2}
MCSessionOwner == [s \in MCSessions |-> IF s = s3 THEN a2 ELSE a1]

\* The same without the other agent, and with one session only.
MCTwoSessions == {s1, s2}
RegistrySymmetry == Permutations(MCThreeJobs) \cup Permutations(MCTwoSessions)
MCOneSession == {s1}
MCOneOwner == {a1}
MCTwoOwned == [s \in MCTwoSessions |-> a1]
MCOneOwned == [s \in MCOneSession |-> a1]

Ask(S, gates, modes, calls) == [sess : S, gate : gates, mode : modes, call : calls]

\* Allowed commands that contend for the agent quota (s1, s2), the foreground
\* pool (s2, s3) and the background pool (s1, s3); and one the policy denies.
MCAllowed ==
  Ask({s1}, {"allow"}, {"background"}, {"start"})
    \cup Ask({s2}, {"allow", "deny"}, {"foreground"}, {"run"})
    \cup Ask({s3}, {"allow"}, Modes, {"start"})

\* A gated command on one session, an allowed one on another.
MCGated ==
  Ask({s1}, {"confirm"}, {"foreground"}, {"start"})
    \cup Ask({s2}, {"allow"}, {"foreground"}, {"start"})

\* Either gate on one session.
MCEither == Ask({s1}, {"allow", "confirm"}, {"foreground"}, {"start"})

\* Allowed commands on two sessions.
MCPlain == Ask(MCTwoSessions, {"allow"}, {"foreground"}, {"start"})

\* A gated exec_run on one session, a background start on another.
MCHandedBack ==
  Ask({s1}, {"confirm"}, {"foreground"}, {"run"})
    \cup Ask({s2}, {"allow"}, {"background"}, {"start"})

=============================================================================
