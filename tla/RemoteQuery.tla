---------------------------- MODULE RemoteQuery ----------------------------
(***************************************************************************)
(* What a table that is read through the compute bridge promises, without  *)
(* bridge, adapter, polling or deadlines.  A query is asked once or never; *)
(* work is done for a query that was asked, at most once; a terminal state *)
(* of the work is final; rows come from finished work only.  An error says *)
(* nothing of the work: it may still be running, and may begin late.       *)
(***************************************************************************)
CONSTANT Picks

VARIABLES
    ask,   \* ask[p]: what the caller knows of its query
    work   \* work[p]: what the warehouse does for it

vars == <<ask, work>>

TypeOK ==
    /\ ask \in [Picks -> {"no", "asked", "rows", "error", "dropped"}]
    /\ work \in [Picks -> {"none", "running", "finished", "broken"}]

Init ==
    /\ ask = [p \in Picks |-> "no"]
    /\ work = [p \in Picks |-> "none"]

Ask(p) ==
    /\ ask[p] = "no"
    /\ ask' = [ask EXCEPT ![p] = "asked"]
    /\ UNCHANGED work

(* Given up before it was asked: no work may ever begin for it. *)
Drop(p) ==
    /\ ask[p] = "no"
    /\ ask' = [ask EXCEPT ![p] = "dropped"]
    /\ UNCHANGED work

Begin(p) ==
    /\ ask[p] \in {"asked", "error"}
    /\ work[p] = "none"
    /\ work' = [work EXCEPT ![p] = "running"]
    /\ UNCHANGED ask

End(p) ==
    /\ work[p] = "running"
    /\ \E w \in {"finished", "broken"} : work' = [work EXCEPT ![p] = w]
    /\ UNCHANGED ask

Rows(p) ==
    /\ ask[p] = "asked"
    /\ work[p] = "finished"
    /\ ask' = [ask EXCEPT ![p] = "rows"]
    /\ UNCHANGED work

(* Also after rows that could not be used. *)
Error(p) ==
    /\ ask[p] \in {"asked", "rows"}
    /\ ask' = [ask EXCEPT ![p] = "error"]
    /\ UNCHANGED work

Next ==
    \E p \in Picks : Ask(p) \/ Drop(p) \/ Begin(p) \/ End(p) \/ Rows(p) \/ Error(p)

Spec == Init /\ [][Next]_vars
=============================================================================
