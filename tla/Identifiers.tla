----------------------------- MODULE Identifiers -----------------------------
(* Identifiers of sessions, jobs, missions and forwards, as ids.go draws them. *)

\* Drawn at random and never twice: which of the unused ones is taken does not matter.
Fresh(free) == IF free = {} THEN {} ELSE {CHOOSE x \in free : TRUE}
==============================================================================
