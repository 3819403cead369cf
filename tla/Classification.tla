--------------------------- MODULE Classification ---------------------------
(***************************************************************************)
(* The types of columns: the loops of main.ts that classify the columns of *)
(* mounted sources with the taxonomy client, what the user does to the     *)
(* assignments meanwhile, and the workbook that holds them                 *)
(* (core/workbook.ts).                                                     *)
(*                                                                         *)
(* A source is one table; a column of the same name is in every source, so *)
(* an override rule for it applies to all.  Each mount starts a loop of    *)
(* its own (classifyMountedSources), each press of Re-classify another     *)
(* (reclassifyAllSources); a loop visits its sources in any order, which   *)
(* no property tells apart.  The sampled values, the candidates and the    *)
(* confidence are left out, as are the cleaning suggestions the loop       *)
(* caches after a table.                                                   *)
(***************************************************************************)
EXTENDS TaxonomyClient, FiniteSets

CONSTANTS
    Sources, \* the sources that are mounted
    Sweeps,  \* presses of Re-classify, each of which happens once
    Columns  \* the number of columns of a table

ASSUME CallersAssumption ==
    Sources # {} /\ Callers = Sources \cup Sweeps /\ Sources \cap Sweeps = {}
ASSUME ColumnsAssumption == Columns \in Nat \ {0}

VARIABLES
    mounted,  \* mounted[s]: where source s is
    loop,     \* loop[t]: what loop t awaits
    left,     \* left[t]: the sources it has still to visit
    table,    \* table[t]: the one it visits
    got,      \* got[t]: the user types of the results it holds for it
    assigned, \* assigned[s]: the assignments of the source's columns
    rules     \* the columns with an override rule

workbook == <<mounted, assigned, rules>>
loops == <<loop, left, table, got>>
vars == <<client, workbook, loops>>

Names == 1..Columns
Absent == [origin |-> "none", type |-> "none", types |-> 0]
Origins == {"none", "detector", "unknown", "user_accept", "user_override"}
Assignments ==
    [origin : Origins, type : {"none", "found", "picked", "ruled"}, types : Versions]

TypeOK ==
    /\ ClientTypeOK
    /\ mounted \in [Sources -> {"no", "mounted", "dropping", "removed"}]
    /\ loop \in [Callers -> {"idle", "boot", "open", "read", "asked", "clean", "done"}]
    /\ left \in [Callers -> SUBSET Sources]
    /\ table \in [Callers -> Sources]
    /\ got \in [Callers -> Seq(Versions)]
    /\ \A t \in Callers : Len(got[t]) < Columns
    /\ assigned \in [Sources -> [Names -> Assignments]]
    /\ rules \in SUBSET Names

Init ==
    /\ ClientInit
    /\ mounted = [s \in Sources |-> "no"]
    /\ loop = [t \in Callers |-> "idle"]
    /\ left = [t \in Callers |-> {}]
    /\ table = [t \in Callers |-> CHOOSE s \in Sources : TRUE]
    /\ got = [t \in Callers |-> <<>>]
    /\ assigned = [s \in Sources |-> [c \in Names |-> Absent]]
    /\ rules = {}

(***************************************************************************)
(* The workbook's sources: one whose views are being dropped is still      *)
(* among them.                                                             *)
(***************************************************************************)
InWorkbook == {s \in Sources : mounted[s] \in {"mounted", "dropping"}}

Start(t, sources) ==
    /\ Quiet
    /\ loop[t] = "idle"
    /\ loop' = [loop EXCEPT ![t] = "boot"]
    /\ left' = [left EXCEPT ![t] = sources]
    /\ EnsureReady(t)
    /\ UNCHANGED <<table, got, assigned, rules>>

Mount(s) ==
    /\ mounted[s] = "no"
    /\ mounted' = [mounted EXCEPT ![s] = "mounted"]
    /\ Start(s, {s})

Reclassify(t) ==
    /\ InWorkbook # {}
    /\ Start(t, InWorkbook)
    /\ UNCHANGED mounted

(***************************************************************************)
(* On to the next table, whose visit begins with ensureReady, or to the    *)
(* end.                                                                    *)
(***************************************************************************)
NextTable(t) ==
    /\ got' = [got EXCEPT ![t] = <<>>]
    /\ \/ \E s \in left[t] :
            /\ loop' = [loop EXCEPT ![t] = "open"]
            /\ left' = [left EXCEPT ![t] = @ \ {s}]
            /\ table' = [table EXCEPT ![t] = s]
            /\ EnsureReady(t)
       \/ /\ left[t] = {}
          /\ loop' = [loop EXCEPT ![t] = "done"]
          /\ IF call[t] \in Settled THEN Resume(t) ELSE UNCHANGED client
          /\ UNCHANGED <<left, table>>

Booted(t) ==
    /\ loop[t] = "boot"
    /\ \/ call[t] = "ready" /\ NextTable(t)
       \/ /\ call[t] = "rejected"
          /\ loop' = [loop EXCEPT ![t] = "done"]
          /\ left' = [left EXCEPT ![t] = {}]
          /\ Resume(t)
          /\ UNCHANGED <<table, got>>
    /\ UNCHANGED workbook

Opened(t) ==
    /\ loop[t] = "open"
    /\ \/ /\ call[t] = "ready"
          /\ loop' = [loop EXCEPT ![t] = "read"]
          /\ Resume(t)
          /\ UNCHANGED <<left, table, got>>
       \/ call[t] = "rejected" /\ NextTable(t)
    /\ UNCHANGED workbook

(***************************************************************************)
(* describeColumns and sampleColumn: they fail when the view is gone.      *)
(***************************************************************************)
Sampled(t) ==
    /\ Quiet
    /\ loop[t] = "read"
    /\ mounted[table[t]] \in {"mounted", "dropping"}
    /\ loop' = [loop EXCEPT ![t] = "asked"]
    /\ Classify(t)
    /\ UNCHANGED <<workbook, left, table, got>>

ReadFails(t) ==
    /\ Quiet
    /\ loop[t] = "read"
    /\ mounted[table[t]] \in {"dropping", "removed"}
    /\ NextTable(t)
    /\ UNCHANGED workbook

(***************************************************************************)
(* resultToAssignment of a result, and applyOverrideRule.                  *)
(***************************************************************************)
Fresh(v) ==
    {[origin |-> "detector", type |-> "found", types |-> v],
     [origin |-> "unknown", type |-> "none", types |-> v]}

ApplyOverrideRule(a, c) ==
    IF c \in rules THEN [a EXCEPT !.origin = "user_override", !.type = "ruled"] ELSE a

Curated(a) == a.origin \in {"user_accept", "user_override"}

(* Mutant: rules are for sweeps only. *)
ReassignedMountPlain(t, existing, fresh, c) ==
    IF t \notin Sweeps THEN fresh
    ELSE IF Curated(existing)
    THEN [existing EXCEPT !.types = fresh.types]
    ELSE ApplyOverrideRule(fresh, c)

(***************************************************************************)
(* A sweep keeps what the user curated and renews its candidates; the loop *)
(* of a mount takes the fresh assignment.                                  *)
(***************************************************************************)
Reassigned(t, existing, fresh, c) ==
    IF t \in Sweeps /\ Curated(existing)
    THEN [existing EXCEPT !.types = fresh.types]
    ELSE ApplyOverrideRule(fresh, c)

Complete(results) == Len(results) = Columns

(***************************************************************************)
(* A result arrives; the last one of the table has all of them assigned.   *)
(***************************************************************************)
Answered(t) ==
    LET results == Append(got[t], answer[t])
    IN  /\ loop[t] = "asked"
        /\ call[t] = "answered"
        /\ IF ~Complete(results)
           THEN /\ got' = [got EXCEPT ![t] = results]
                /\ loop' = [loop EXCEPT ![t] = "read"]
                /\ UNCHANGED assigned
           ELSE /\ got' = [got EXCEPT ![t] = <<>>]
                /\ loop' = [loop EXCEPT ![t] = "clean"]
                /\ \E fresh \in [Names -> UNION {Fresh(v) : v \in Versions}] :
                      /\ \A c \in Names : fresh[c] \in Fresh(results[c])
                      /\ assigned' = [assigned EXCEPT ![table[t]] =
                            [c \in Names |-> Reassigned(t, @[c], fresh[c], c)]]
        /\ Resume(t)
        /\ UNCHANGED <<mounted, rules, left, table>>

(***************************************************************************)
(* A failed classification costs the whole table.                          *)
(***************************************************************************)
Rejected(t) ==
    /\ loop[t] = "asked"
    /\ call[t] = "rejected"
    /\ NextTable(t)
    /\ UNCHANGED workbook

(***************************************************************************)
(* cacheCleaningSuggestions ends, or fails to load its chunk.              *)
(***************************************************************************)
Cleaned(t) ==
    /\ Quiet
    /\ loop[t] = "clean"
    /\ NextTable(t)
    /\ UNCHANGED workbook

(***************************************************************************)
(* remove-source: the views are dropped, and then the source and its       *)
(* assignments leave the workbook.                                         *)
(***************************************************************************)
Remove(s) ==
    /\ Quiet
    /\ mounted[s] = "mounted"
    /\ mounted' = [mounted EXCEPT ![s] = "dropping"]
    /\ UNCHANGED <<client, loops, assigned, rules>>

Removed(s) ==
    /\ Quiet
    /\ mounted[s] = "dropping"
    /\ mounted' = [mounted EXCEPT ![s] = "removed"]
    /\ assigned' = [assigned EXCEPT ![s] = [c \in Names |-> Absent]]
    /\ UNCHANGED <<client, loops, rules>>

(***************************************************************************)
(* What the user does to a column: accept its type, override it by another *)
(* or by none, define a type for it.  A bulk accept takes every detected   *)
(* type above a threshold.                                                 *)
(***************************************************************************)
Curate(s, c, origin, type) ==
    /\ Quiet
    /\ s \in InWorkbook
    /\ assigned[s][c] # Absent
    /\ assigned' = [assigned EXCEPT ![s][c].origin = origin, ![s][c].type = type]
    /\ UNCHANGED <<mounted, loops, rules>>

AcceptAssignment(s, c) ==
    Curate(s, c, "user_accept", assigned[s][c].type) /\ UNCHANGED client

OverrideAssignment(s, c) ==
    /\ \/ Curate(s, c, "user_override", "picked")
       \/ Curate(s, c, "unknown", "none")
    /\ UNCHANGED client

DefineType(s, c) == Curate(s, c, "user_override", "picked") /\ SetUserTypes

BulkAccept(confident) ==
    /\ Quiet
    /\ confident # {}
    /\ \A k \in confident : assigned[k[1]][k[2]].origin = "detector"
    /\ assigned' = [s \in Sources |-> [c \in Names |->
           IF <<s, c>> \in confident
           THEN [assigned[s][c] EXCEPT !.origin = "user_accept"]
           ELSE assigned[s][c]]]
    /\ UNCHANGED <<client, loops, mounted, rules>>

(***************************************************************************)
(* Remember: the rule is stored and applied to every column of the name    *)
(* but those whose type the user accepted.                                 *)
(***************************************************************************)
Remember(c) ==
    /\ Quiet
    /\ c \notin rules
    /\ \E s \in Sources : assigned[s][c].origin = "user_override"
    /\ rules' = rules \cup {c}
    /\ assigned' = [s \in Sources |-> [assigned[s] EXCEPT ![c] =
           IF @ = Absent \/ @.origin = "user_accept" THEN @
           ELSE [@ EXCEPT !.origin = "user_override", !.type = "ruled"]]]
    /\ UNCHANGED <<client, loops, mounted>>

RemoveOverrideRule(c) ==
    /\ Quiet
    /\ c \in rules
    /\ rules' = rules \ {c}
    /\ UNCHANGED <<client, loops, mounted, assigned>>

User ==
    \/ \E s \in Sources : Mount(s) \/ Remove(s)
    \/ \E t \in Sweeps : Reclassify(t)
    \/ \E s \in Sources, c \in Names :
          AcceptAssignment(s, c) \/ OverrideAssignment(s, c) \/ DefineType(s, c)
    \/ \E confident \in SUBSET (Sources \X Names) : BulkAccept(confident)
    \/ \E c \in Names : Remember(c) \/ RemoveOverrideRule(c)

LoopStep(t) ==
    \/ Booted(t)
    \/ Opened(t)
    \/ Sampled(t)
    \/ ReadFails(t)
    \/ Answered(t)
    \/ Rejected(t)
    \/ Cleaned(t)

Next ==
    \/ User
    \/ \E t \in Callers : LoopStep(t)
    \/ \E s \in Sources : Removed(s)
    \/ ClientStep /\ UNCHANGED <<workbook, loops>>

(***************************************************************************)
(* A loop goes on when what it awaits has come; queries of the engine end. *)
(***************************************************************************)
Fairness ==
    /\ ClientFairness
    /\ \A t \in Callers : WF_vars(LoopStep(t))
    /\ \A s \in Sources : WF_vars(Removed(s))

Spec == Init /\ [][Next]_vars /\ Fairness

(***************************************************************************)
(* A column whose name has a rule shows no detector's type: not when the   *)
(* rule was stored while a loop was at work on the column, either          *)
(* (applyRuleToMountedColumns and the two loops).                          *)
(***************************************************************************)
RuleApplied ==
    \A s \in Sources, c \in rules : assigned[s][c].origin # "detector"

(***************************************************************************)
(* Every loop ends, whatever became of the workers it asked: a hung worker *)
(* is noticed by a timer and its callers are told ("would hang at          *)
(* Classifying columns... forever", boot).                                 *)
(***************************************************************************)
LoopsEnd == \A t \in Callers : (loop[t] # "idle") ~> (loop[t] = "done")

(***************************************************************************)
(* Not kept.  What the user chose by hand for a column is never replaced   *)
(* by a detector.                                                          *)
(***************************************************************************)
ChoiceKept ==
    [][\A s \in Sources, c \in Names :
          Curated(assigned[s][c]) => assigned'[s][c].origin # "detector"]_vars

(***************************************************************************)
(* Not kept.  A removed source has no assignments.                         *)
(***************************************************************************)
RemovedClean ==
    \A s \in Sources, c \in Names : mounted[s] = "removed" => assigned[s][c] = Absent
=============================================================================
