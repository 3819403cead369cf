---------------------------- MODULE SourceRefresh ----------------------------
(***************************************************************************)
(* "Check source changes": the sweep that compares every source with its   *)
(* recorded baseline (src/core/refresh-engine.ts), and the confirmed       *)
(* refresh that stages, swaps, publishes, reruns the dependent cells and   *)
(* advances the baseline (src/core/refresh-runner.ts, refresh-remount.ts,  *)
(* handleCheckSourceUpdates in src/main.ts), together with the cell runs   *)
(* and the lineage they leave (src/ui/notebook.ts).                        *)
(*                                                                         *)
(* What a source holds is its version, which only grows; a fingerprint     *)
(* tells versions apart.  0 is no version: no baseline, no relation, no    *)
(* result.  The swap is one step here; EngineConnection opens it up.       *)
(***************************************************************************)
EXTENDS Naturals, Sequences, FiniteSets

CONSTANTS
  Sources, Cells,
  Inputs,        (* what each cell's SQL names: sources and other cells    *)
  CellOrder,     (* topoOrderRunnableCells                                 *)
  NewCells,      (* cells that have not been run yet                       *)
  Baselined,     (* sources that an earlier check has recorded             *)
  Applies,       (* confirmed refreshes                                    *)
  None,
  Switches,      (* the user switches session in this instance             *)
  MaxVersion     (* bound: versions of a source                            *)

ASSUME InputsAssumption == Inputs \in [Cells -> SUBSET (Sources \cup Cells)]
ASSUME OrderAssumption == /\ CellOrder \in Seq(Cells)
                          /\ \A c \in Cells : \E i \in DOMAIN CellOrder :
                               CellOrder[i] = c
ASSUME BoundAssumption == MaxVersion \in Nat \ {0}
ASSUME SwitchesAssumption == Switches \in BOOLEAN
ASSUME UserAssumption == "user" \notin Applies

VARIABLES
  ext,           (* the version outside: on disk, at the URL               *)
  home,          (* the session the sources belong to is on screen         *)
  rel,           (* the version in each live relation                      *)
  published,     (* the version the workbook's metadata describes          *)
  baseline,      (* IDB refresh:<sessionId>:fingerprints                   *)
  views,         (* cells whose view cell_<id> exists                      *)
  runs,          (* the latest run of each cell, while it is in flight     *)
  result,        (* the versions each cell's lastResult was computed from  *)
  lineage,       (* recorded inputs of each cell                           *)
  unrecorded,    (* finished runs whose lineage is still being extracted   *)
  check,         (* the sweep, then the modal it opens                     *)
  apply          (* applyDetectedRefresh                                   *)

data     == <<rel, published, baseline>>
notebook == <<views, runs, result, lineage, unrecorded>>
vars     == <<ext, home, data, notebook, check, apply>>

Versions == [Sources -> Nat]
Nothing  == [s \in Sources |-> 0]
Blank    == [c \in Cells |-> {}]

Run   == [by: Applies \cup {"user"}, got: Versions]
Check == [pc: {"none", "scan", "load", "save", "modal"}, todo: SUBSET Sources,
          persisted: Versions, fresh: Versions, loaded: Versions,
          lineage: [Cells -> SUBSET (Sources \cup Cells)]]
Apply == [pc: {"idle", "stage", "commit", "publish", "next", "run", "load",
               "save"},
          todo: SUBSET Sources, staged: Versions, cells: SUBSET Cells,
          fresh: Versions, loaded: Versions]

NoCheck == [pc |-> "none", todo |-> {}, persisted |-> Nothing,
            fresh |-> Nothing, loaded |-> Nothing, lineage |-> Blank]
Idle    == [pc |-> "idle", todo |-> {}, staged |-> Nothing, cells |-> {},
            fresh |-> Nothing, loaded |-> Nothing]

TypeOK ==
  /\ {ext, rel, published, baseline} \subseteq Versions
  /\ home \in BOOLEAN
  /\ views \subseteq Cells /\ unrecorded \subseteq Cells
  /\ runs \in [Cells -> Run \cup {None}]
  /\ result \in [Cells -> Versions]
  /\ lineage \in [Cells -> SUBSET (Sources \cup Cells)]
  /\ check \in Check
  /\ apply \in [Applies -> Apply]

(***************************************************************************)
(* Lineage.                                                                *)
(***************************************************************************)

(* The least set of cells that holds every cell one of whose inputs is in  *)
(* `from' or in the set.                                                   *)
Reached(from, inputs) ==
  LET closed(S) == \A c \in Cells : inputs[c] \cap (from \cup S) # {} => c \in S
  IN  {c \in Cells : \A S \in SUBSET Cells : closed(S) => c \in S}

(* The sources a cell's rows come from: other cells are views. *)
Origins == [c \in Cells |-> {s \in Sources : c \in Reached({s}, Inputs)}]

AffectedDirect(stale, inputs) ==
  \* Mutant: only the cells that name a stale source themselves.
  {c \in Cells : inputs[c] \cap stale # {}}

(* cascadeStaleness: a breadth-first walk of the recorded lineage. *)
Affected(stale, inputs) == Reached(stale, inputs)

(***************************************************************************)
(* The world outside, and the user's own runs.                             *)
(***************************************************************************)

Change(s) ==
  /\ ext[s] < MaxVersion
  /\ ext' = [ext EXCEPT ![s] = @ + 1]
  /\ UNCHANGED <<home, data, notebook, check, apply>>

(* runCell up to the point where the rows are read: it aborts and          *)
(* supersedes the run in flight, and defines the view.                     *)
StartRun(c, who) ==
  /\ home
  /\ Inputs[c] \cap Cells \subseteq views
  /\ views' = views \cup {c}
  /\ runs' = [runs EXCEPT ![c] =
                [by |-> who,
                 got |-> [s \in Sources |-> IF s \in Origins[c] THEN rel[s]
                                            ELSE 0]]]
  /\ UNCHANGED <<result, lineage, unrecorded>>

UserRuns(c) ==
  /\ StartRun(c, "user")
  /\ UNCHANGED <<ext, home, data, check, apply>>

Owns(who, c) == IF runs[c] = None THEN FALSE ELSE runs[c].by = who

(* The outcome of a run reaches the refresh that awaits it. *)
Outcome(c, next) ==
  apply' = [a \in Applies |->
              IF ~Owns(a, c) THEN apply[a]
              ELSE IF next THEN [apply[a] EXCEPT !.pc = "next",
                                                 !.cells = @ \ {c}]
              ELSE Idle]

RunSucceeds(c) ==
  /\ runs[c] # None
  /\ result' = [result EXCEPT ![c] = runs[c].got]
  /\ unrecorded' = unrecorded \cup {c}
  /\ runs' = [runs EXCEPT ![c] = None]
  /\ Outcome(c, TRUE)
  /\ UNCHANGED <<ext, home, data, views, lineage, check>>

(* Rejected by DuckDB, or cancelled by the user: the old rows go away. *)
RunFails(c) ==
  /\ runs[c] # None
  /\ result' = [result EXCEPT ![c] = Nothing]
  /\ runs' = [runs EXCEPT ![c] = None]
  /\ Outcome(c, FALSE)
  /\ UNCHANGED <<ext, home, data, views, lineage, unrecorded, check>>

(* recordLineageForCell: after the run, and not awaited by it. *)
RecordLineage(c) ==
  /\ c \in unrecorded
  /\ lineage' = [lineage EXCEPT ![c] = Inputs[c]]
  /\ unrecorded' = unrecorded \ {c}
  /\ UNCHANGED <<ext, home, data, views, runs, result, check, apply>>

(* The session is switched: every run is cancelled, relations are dropped. *)
SwitchAway ==
  /\ Switches /\ home
  /\ home' = FALSE
  /\ rel' = Nothing
  /\ views' = {} /\ unrecorded' = {}
  /\ runs' = [c \in Cells |-> None]
  /\ UNCHANGED <<ext, published, baseline, result, lineage, check, apply>>

(***************************************************************************)
(* The check.                                                              *)
(***************************************************************************)

CheckStart ==
  /\ home
  /\ check.pc \in {"none", "modal"}
  /\ check' = [NoCheck EXCEPT !.pc = "scan", !.todo = Sources,
                              !.persisted = baseline, !.lineage = lineage]
  /\ UNCHANGED <<ext, home, data, notebook, apply>>

(* Sources are taken one by one, in the order of the workbook.             *)
InOrder(todo) == CHOOSE s \in todo : TRUE

(* computeCurrentFingerprint, source by source; a source whose handle or   *)
(* URL cannot be read is uncheckable and left out.                         *)
Scan(s) ==
  /\ check.pc = "scan" /\ s = InOrder(check.todo)
  /\ \E current \in {0, ext[s]} :
       check' = [check EXCEPT !.todo = @ \ {s}, !.fresh[s] = current,
                              !.pc = IF @ = "scan" /\ check.todo = {s}
                                     THEN "load" ELSE @]
  /\ UNCHANGED <<ext, home, data, notebook, apply>>

Merge(old, new) == [s \in Sources |-> IF new[s] # 0 THEN new[s] ELSE old[s]]

(* baselineFingerprints: first observations. *)
First == [s \in Sources |-> IF check.persisted[s] = 0 THEN check.fresh[s] ELSE 0]

Stale == {s \in Sources : /\ check.persisted[s] # 0 /\ check.fresh[s] # 0
                          /\ check.persisted[s] # check.fresh[s]}

(* persistFingerprints(sessionId, diff.baselineFingerprints): a load, then *)
(* a save of the merged map.  The modal that opens then has a button when  *)
(* something is stale; one without leads nowhere.                          *)
CheckLoad ==
  /\ check.pc = "load"
  /\ check' = [check EXCEPT !.pc = "save", !.loaded = baseline]
  /\ UNCHANGED <<ext, home, data, notebook, apply>>

CheckSave ==
  /\ check.pc = "save"
  /\ baseline' = Merge(check.loaded, First)
  /\ check' = IF Stale = {} THEN NoCheck
              ELSE [check EXCEPT !.pc = "modal", !.loaded = Nothing]
  /\ UNCHANGED <<ext, home, rel, published, notebook, apply>>

(***************************************************************************)
(* The refresh.                                                            *)
(***************************************************************************)

(* The button of the modal.  The session is compared here and not again.   *)
Confirm(a) ==
  LET affected == Affected(Stale, check.lineage)
  IN  /\ check.pc = "modal" /\ apply[a].pc = "idle"
      /\ check' = NoCheck
      /\ IF home
         THEN apply' = [apply EXCEPT ![a] =
                [Idle EXCEPT !.pc = "stage", !.todo = Stale,
                             !.fresh = check.fresh,
                             !.cells = affected]]
         ELSE UNCHANGED apply
      /\ UNCHANGED <<ext, home, data, notebook>>

Move(a, r) == apply' = [apply EXCEPT ![a] = r]

(* stageSourceRefreshes reads the bytes of every changed source as they    *)
(* are now.                                                                *)
Stage(a, s) ==
  /\ apply[a].pc = "stage" /\ s = InOrder(apply[a].todo)
  /\ Move(a, [apply[a] EXCEPT !.todo = @ \ {s}, !.staged[s] = ext[s],
                              !.pc = IF apply[a].todo = {s} THEN "commit"
                                     ELSE "stage"])
  /\ UNCHANGED <<ext, home, data, notebook, check>>

(* Staging, the swap or an IndexedDB request is rejected: the refresh ends *)
(* there.                                                                  *)
ApplyFails(a) ==
  /\ apply[a].pc \in {"stage", "commit", "load", "save"}
  /\ Move(a, Idle)
  /\ UNCHANGED <<ext, home, data, notebook, check>>

CommitPublishes(a) ==
  \* Mutant: staged metadata is published before the swap can fail.
  /\ apply[a].pc = "commit"
  /\ published' = Merge(published, apply[a].staged)
  /\ Move(a, [apply[a] EXCEPT !.pc = "publish"]) \/ Move(a, Idle)
  /\ rel' = IF apply'[a].pc = "publish" THEN Merge(rel, apply[a].staged) ELSE rel
  /\ UNCHANGED <<ext, home, baseline, notebook, check>>

(* replaceRelationsAtomically. *)
Commit(a) ==
  /\ apply[a].pc = "commit"
  /\ rel' = Merge(rel, apply[a].staged)
  /\ Move(a, [apply[a] EXCEPT !.pc = "publish"])
  /\ UNCHANGED <<ext, home, published, baseline, notebook, check>>

(* replaceSources: only sources the workbook holds. *)
Publish(a) ==
  /\ apply[a].pc = "publish"
  /\ published' = IF home THEN Merge(published, apply[a].staged) ELSE published
  /\ Move(a, [apply[a] EXCEPT !.pc = "next", !.staged = Nothing])
  /\ UNCHANGED <<ext, home, rel, baseline, notebook, check>>

(* The affected cells are rerun in the order of topoOrderRunnableCells.    *)
Earliest(todo) ==
  LET first == CHOOSE i \in DOMAIN CellOrder :
                 /\ CellOrder[i] \in todo
                 /\ \A j \in DOMAIN CellOrder : CellOrder[j] \in todo => i <= j
  IN  CellOrder[first]

(* The next cell; one that cannot be run ends the refresh. *)
RunCell(a) ==
  /\ apply[a].pc = "next" /\ apply[a].cells # {}
  /\ LET c == Earliest(apply[a].cells)
     IN  \/ StartRun(c, a) /\ Move(a, [apply[a] EXCEPT !.pc = "run"])
         \/ /\ ~(home /\ Inputs[c] \cap Cells \subseteq views)
            /\ Move(a, Idle)
            /\ UNCHANGED notebook
  /\ UNCHANGED <<ext, home, data, check>>

SupersededByRun(a) ==
  \* Mutant: a run that the switch of the session cancelled is awaited.
  /\ apply[a].pc = "run"
  /\ ~Owns(a, Earliest(apply[a].cells)) /\ runs[Earliest(apply[a].cells)] # None
  /\ Move(a, Idle)
  /\ UNCHANGED <<ext, home, data, notebook, check>>

(* runCell returns `cancelled': a newer run has taken the cell, or the     *)
(* session has been switched.                                              *)
Superseded(a) ==
  /\ apply[a].pc = "run"
  /\ ~Owns(a, Earliest(apply[a].cells))
  /\ Move(a, Idle)
  /\ UNCHANGED <<ext, home, data, notebook, check>>

(* persistBaseline: the versions the check has seen. *)
CellsDone(a) ==
  /\ apply[a].pc = "next" /\ apply[a].cells = {}
  /\ Move(a, [apply[a] EXCEPT !.pc = "load"])
  /\ UNCHANGED <<ext, home, data, notebook, check>>

ApplyLoad(a) ==
  /\ apply[a].pc = "load"
  /\ Move(a, [apply[a] EXCEPT !.pc = "save", !.loaded = baseline])
  /\ UNCHANGED <<ext, home, data, notebook, check>>

ApplySave(a) ==
  /\ apply[a].pc = "save"
  /\ baseline' = Merge(apply[a].loaded, apply[a].fresh)
  /\ Move(a, Idle)
  /\ UNCHANGED <<ext, home, rel, published, notebook, check>>

(***************************************************************************)
(* The specification.                                                      *)
(***************************************************************************)

(* Sources are mounted at their first version; cells that have been run    *)
(* have their lineage.                                                     *)
Init ==
  /\ ext = [s \in Sources |-> 1] /\ rel = ext /\ published = ext
  /\ home = TRUE
  /\ baseline = [s \in Sources |-> IF s \in Baselined THEN 1 ELSE 0]
  /\ views = Cells \ NewCells
  /\ runs = [c \in Cells |-> None]
  /\ result = [c \in Cells |-> [s \in Sources |->
                 IF c \notin NewCells /\ s \in Origins[c] THEN 1 ELSE 0]]
  /\ lineage = [c \in Cells |-> IF c \in NewCells THEN {} ELSE Inputs[c]]
  /\ unrecorded = {}
  /\ check = NoCheck
  /\ apply = [a \in Applies |-> Idle]

CellStep(c) == RunSucceeds(c) \/ RunFails(c) \/ RecordLineage(c)

CheckStep == (\E s \in Sources : Scan(s)) \/ CheckLoad \/ CheckSave

ApplyStep(a) ==
  \/ \E s \in Sources : Stage(a, s)
  \/ ApplyFails(a) \/ Commit(a) \/ Publish(a) \/ RunCell(a) \/ Superseded(a)
  \/ CellsDone(a) \/ ApplyLoad(a) \/ ApplySave(a)

Next ==
  \/ \E s \in Sources : Change(s)
  \/ \E c \in Cells : UserRuns(c) \/ CellStep(c)
  \/ CheckStart \/ CheckStep \/ SwitchAway
  \/ \E a \in Applies : Confirm(a) \/ ApplyStep(a)

Spec == Init /\ [][Next]_vars

(* Queries end and promises settle; nothing is assumed of the user or of   *)
(* the world outside.                                                      *)
Fairness ==
  /\ \A c \in Cells : WF_vars(RunSucceeds(c) \/ RunFails(c))
  /\ WF_vars(CheckStep)
  /\ \A a \in Applies : WF_vars(ApplyStep(a))

FairSpec == Spec /\ Fairness

(***************************************************************************)
(* Properties.                                                             *)
(***************************************************************************)

(* A result is never silently stale: when the recorded baseline is what is *)
(* outside, so that the next check would find nothing, every cell that     *)
(* reads the source shows rows computed from that version.                 *)
NoSilentStale ==
  \A s \in Sources, c \in Cells :
    baseline[s] = ext[s] /\ result[c][s] # 0 => result[c][s] = ext[s]

(* The workbook describes the bytes DuckDB holds whenever no refresh is    *)
(* between its swap and its publication.                                   *)
PublishedMounted ==
  home /\ (\A a \in Applies : apply[a].pc # "publish") => published = rel

(* Relations of the session that was left do not stay queryable from the   *)
(* one that is entered.                                                    *)
NoForeignRelations == ~home => rel = Nothing

(* A confirmed refresh ends.                                               *)
RefreshEnds == \A a \in Applies : apply[a].pc = "stage" ~> apply[a].pc = "idle"
=============================================================================
