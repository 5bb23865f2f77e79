---------------------------- MODULE AppendOnlyLog ----------------------------
(***************************************************************************)
(* What the audit log promises: a sequence of records that only ever grows *)
(* at its end, one at a time, whatever files hold it and however often the *)
(* daemon dies.                                                            *)
(***************************************************************************)
EXTENDS Naturals, Sequences

VARIABLE log

Init == log = <<>>

Add == Len(log') = Len(log) + 1 /\ SubSeq(log', 1, Len(log)) = log

Spec == Init /\ [][Add]_log
==============================================================================
