---------------------------- MODULE NotebookRuns ----------------------------
(***************************************************************************)
(* Runs of notebook cells (src/ui/notebook.ts): SQL cells and language     *)
(* cells, their generations and abort controllers, Run all and crossfilter *)
(* batches, deletion, lineage recordings, and the statements they have in  *)
(* DuckDB's worker.                                                        *)
(*                                                                         *)
(* Everything that awaits is a job: a run, a drop, a lineage recording, a  *)
(* session that is being left.  A job has one statement at the worker at a *)
(* time; the worker takes statements in the order they were posted, and    *)
(* answers reach the main thread in that order.                            *)
(*                                                                         *)
(* A cell's code is a member of Codes; RefsOf gives the @names in it, in   *)
(* their order.  Cells are named by their names, which are distinct.  Rows *)
(* are the set of the relations they were computed from: views are read    *)
(* when they are selected from; what a language cell's table was made from *)
(* is left out.  External: DuckDB, the language runtimes.  Any statement   *)
(* but a drop may be rejected.                                             *)
(***************************************************************************)
EXTENDS Naturals, Sequences, FiniteSets, SequencesExt

CONSTANTS
    Cells,
    Codes,
    RefsOf,           \* the @names of each code
    Crossed,          \* codes with CROSSFILTER(<the facet cell>)
    Direct,           \* introspection statements
    Unknown,          \* codes with a macro nobody has defined
    Empty,            \* codes of white space only
    Notebooks,        \* the notebooks to start from
    Edits,            \* <<cell, code>>: what the user may type
    Wishes,           \* what the user does in this instance
    None,
    MaxJobs,          \* bound: jobs at a time
    MaxBatches,       \* bound: batches at a time
    MaxActs           \* bound: actions of the user

ASSUME CodesAssumption ==
    /\ RefsOf \in [Codes -> Seq(Cells)]
    /\ Crossed \cup Direct \cup Unknown \cup Empty \subseteq Codes
    /\ Empty \cap Crossed = {}
    /\ Edits \subseteq Cells \X Codes

ASSUME NotebooksAssumption ==
    \A nb \in Notebooks :
        /\ nb.doc \in Seq(Cells) /\ IsInjective(nb.doc)
        /\ nb.code \in [Cells -> Codes] /\ nb.saved \subseteq Cells
        /\ DOMAIN nb.inputs \subseteq Cells /\ nb.inputs \in [DOMAIN nb.inputs -> Cells]

ASSUME BoundsAssumption ==
    /\ MaxJobs \in Nat /\ MaxBatches \in Nat /\ MaxActs \in Nat
    /\ None \notin Cells /\ None \notin Codes /\ None \notin 1..MaxJobs

VARIABLES
    doc,      \* the cells, in the order of the document
    inputs,   \* language cells and the inputCell of each
    code,     \* what each cell's editor holds
    sel,      \* the selection of the facet cell
    status, shown,
    gen,      \* runGen
    aborts,   \* the job whose controller is registered for each cell
    jobs, asked, answered,
    rel,      \* DuckDB's relation cell_<id>
    lineage,  \* the recorded inputs
    batches,
    acts      \* what the user has done so far

screen == <<doc, inputs, code, sel, status, shown>>
worker == <<asked, answered, rel>>
vars == <<screen, gen, aborts, jobs, worker, lineage, batches, acts>>

Jobs == 1..MaxJobs
Batches == 1..MaxBatches

Free == [kind |-> "free", cell |-> None, step |-> "none", code |-> None, sel |-> 0, gen |-> 0,
         reads |-> {}, aborted |-> FALSE, ok |-> TRUE, rows |-> {}, batch |-> 0]
NoBatch == [state |-> "none", todo |-> <<>>, order |-> {}, brush |-> FALSE, clean |-> FALSE]
NoRelation == [table |-> FALSE, code |-> None, sel |-> 0, reads |-> {}]
NoRows == [code |-> None, sel |-> 0, rows |-> {}, snapshot |-> FALSE]

Listed(c) == c \in Range(doc)
Names(k) == Range(RefsOf[k])

(* rewriteReferences: an @name that no SQL cell has stays a quoted name,   *)
(* which is a mounted table's or nothing's.                                *)
Resolved(k) == {d \in Names(k) : Listed(d) /\ d \notin DOMAIN inputs}

Selected(k) == IF k \in Crossed THEN sel ELSE 0

TypeOK ==
    /\ doc \in Seq(Cells) /\ code \in [Cells -> Codes]
    /\ status \in [Cells -> {"idle", "running", "success", "error"}]
    /\ \A c \in Cells : aborts[c] \in Jobs \cup {None}
    /\ \A j \in Jobs : jobs[j].kind \in {"free", "sql", "lang", "drop", "lineage", "leave"}
    /\ Range(asked) \cup Range(answered) \subseteq {j \in Jobs : jobs[j].kind # "free"}
    /\ \A b \in Batches : batches[b].state \in {"none", "next", "await", "stopped", "success"}

-----------------------------------------------------------------------------
(* The notebook as the graph functions see it. *)

Cell(c) == [kind   |-> IF c \in DOMAIN inputs THEN "lang" ELSE "sql",
            name   |-> c,
            refs   |-> IF c \in DOMAIN inputs THEN <<>> ELSE RefsOf[code[c]],
            direct |-> code[c] \in Direct,
            filter |-> code[c] \in Crossed,
            ran    |-> shown[c] # NoRows,
            input  |-> 0, items |-> {}]

Notebook == [i \in DOMAIN doc |-> Cell(doc[i])]

G == INSTANCE NotebookGraph WITH NewCells <- {}, MaxCells <- 0, cells <- Notebook

Place(c) == CHOOSE i \in DOMAIN doc : doc[i] = c
Named(order) == [i \in DOMAIN order |-> doc[order[i]]]

-----------------------------------------------------------------------------
(* What DuckDB can read: every relation on the way exists, and no view     *)
(* reads itself.                                                           *)

Reached(S) == G!Closure([d \in Cells |-> rel[d].reads], S)

Readable(S) == \A d \in Reached(S) : rel[d] # NoRelation /\ d \notin Reached(rel[d].reads)

Rows(S) == {<<d, rel[d]>> : d \in Reached(S)}

-----------------------------------------------------------------------------
(* Jobs. *)

FreeJob == CHOOSE j \in Jobs : jobs[j].kind = "free" /\ \A i \in 1..(j - 1) : jobs[i].kind # "free"
HasFreeJob == \E j \in Jobs : jobs[j].kind = "free"

(* The old run of the cell is aborted before the new one is registered. *)
Aborted(js, S) == [j \in Jobs |-> IF j \in S THEN [js[j] EXCEPT !.aborted = TRUE] ELSE js[j]]

Controllers(c) == {aborts[c]} \ {None}

Running(j) == jobs[j].kind \in {"sql", "lang"}

IsLatest(j) == gen[jobs[j].cell] = jobs[j].gen

(* The rest of a batch is a continuation: nothing happens before it. *)
Settled == \A b \in Batches : batches[b].state # "next"

(* Mutant: the batch hears of success only. *)
OutcomeSuccess(bs, b, success) ==
    IF b = 0 \/ ~success THEN bs
    ELSE IF bs[b].state # "await" THEN bs ELSE [bs EXCEPT ![b].state = "next"]

(* The run that batch b awaits has had this outcome. *)
Outcome(bs, b, success) ==
    IF b = 0 THEN bs
    ELSE IF bs[b].state # "await" THEN bs
    ELSE [bs EXCEPT ![b].state = IF success THEN "next" ELSE "stopped"]

-----------------------------------------------------------------------------
(* runCell. *)

(* The cell has gone, or is one that runCell does not run. *)
NotRunnable(c, b, bs) ==
    /\ ~Listed(c) \/ c \in DOMAIN inputs
    /\ batches' = Outcome(bs, b, FALSE)
    /\ UNCHANGED <<screen, gen, aborts, jobs, worker, lineage>>

(* The static check refuses the code: nothing is aborted. *)
Refused(c, b, bs) ==
    /\ Listed(c) /\ c \notin DOMAIN inputs
    /\ G!RefIssue(Notebook, Place(c)) # "none"
    /\ status' = [status EXCEPT ![c] = "error"]
    /\ shown' = [shown EXCEPT ![c] = NoRows]
    /\ batches' = Outcome(bs, b, FALSE)
    /\ UNCHANGED <<doc, inputs, code, sel, gen, aborts, jobs, worker, lineage>>

Claims(c) ==
    /\ Listed(c) /\ c \notin DOMAIN inputs
    /\ G!RefIssue(Notebook, Place(c)) = "none"
    /\ gen' = [gen EXCEPT ![c] = @ + 1]

(* Unknown macros: found once the cell has been claimed. *)
Unexpandable(c, b, bs) ==
    /\ code[c] \in Unknown
    /\ Claims(c)
    /\ jobs' = Aborted(jobs, Controllers(c))
    /\ aborts' = [aborts EXCEPT ![c] = None]
    /\ status' = [status EXCEPT ![c] = "error"]
    /\ shown' = [shown EXCEPT ![c] = NoRows]
    /\ batches' = Outcome(bs, b, FALSE)
    /\ UNCHANGED <<doc, inputs, code, sel, worker, lineage>>

(* The SQL is expanded and rewritten, and its first statement posted. *)
Begin(c, b, bs) ==
    /\ code[c] \notin Unknown
    /\ HasFreeJob
    /\ Claims(c)
    /\ jobs' = [Aborted(jobs, Controllers(c)) EXCEPT ![FreeJob] =
                  [Free EXCEPT !.kind = "sql", !.cell = c, !.code = code[c], !.batch = b,
                               !.sel = Selected(code[c]), !.gen = gen'[c],
                               !.reads = Resolved(code[c]),
                               !.step = IF code[c] \in Direct THEN "direct" ELSE "create"]]
    /\ aborts' = [aborts EXCEPT ![c] = FreeJob]
    /\ asked' = Append(asked, FreeJob)
    /\ status' = [status EXCEPT ![c] = "running"]
    /\ batches' = bs
    /\ UNCHANGED <<doc, inputs, code, sel, shown, answered, rel, lineage>>

RunCell(c, b, bs) ==
    NotRunnable(c, b, bs) \/ Refused(c, b, bs) \/ Unexpandable(c, b, bs) \/ Begin(c, b, bs)

-----------------------------------------------------------------------------
(* Batches: runCellsInOrder. *)

FreeBatches == {b \in Batches : batches[b].state \in {"none", "stopped", "success"}}

StartBatch(order, brush, bs) ==
    /\ FreeBatches # {}
    /\ batches' = [bs EXCEPT ![CHOOSE b \in FreeBatches : \A x \in FreeBatches : b <= x] =
          [state |-> "next", todo |-> G!Kept(order, {c \in Cells : code[c] \notin Empty}),
           order |-> {c \in Range(order) : code[c] \notin Empty},
           brush |-> brush, clean |-> TRUE]]

(* The next cell, or the end; one that has vanished is run all the same. *)
NextCell(b) ==
    /\ batches[b].state = "next"
    /\ \A a \in 1..(b - 1) : batches[a].state # "next"
    /\ IF batches[b].todo = <<>>
       THEN /\ batches' = [batches EXCEPT ![b].state = "success"]
            /\ UNCHANGED <<screen, gen, aborts, jobs, worker, lineage>>
       ELSE RunCell(Head(batches[b].todo), b,
                    [batches EXCEPT ![b].todo = Tail(@), ![b].state = "await"])
    /\ UNCHANGED acts

-----------------------------------------------------------------------------
(* What the user does. *)

Act(wish) ==
    /\ wish \in Wishes
    /\ Settled
    /\ \A j \in Jobs : jobs[j].kind # "leave"
    /\ acts < MaxActs
    /\ acts' = acts + 1

(* The batches that an edit makes none of the present notebook. *)
Soiled == [b \in Batches |-> [batches[b] EXCEPT !.clean = FALSE]]

Type(c, k) ==
    /\ Act("type")
    /\ Listed(c) /\ code[c] # k
    /\ code' = [code EXCEPT ![c] = k]
    /\ batches' = Soiled
    /\ UNCHANGED <<doc, inputs, sel, status, shown, gen, aborts, jobs, worker, lineage>>

Run(c) ==
    /\ Act("run")
    /\ Listed(c)
    /\ RunCell(c, 0, batches)

RunAll ==
    /\ Act("runAll")
    /\ StartBatch(Named(G!TopoOrder(Notebook)), FALSE, batches)
    /\ UNCHANGED <<screen, gen, aborts, jobs, worker, lineage>>

(* applyCrossfilter: the selection is kept, and what depends on it run. *)
Brush ==
    /\ Act("brush")
    /\ sel' = sel + 1
    /\ LET order == Named(G!BrushOrder(Notebook))
       IN  IF order = <<>> THEN batches' = Soiled ELSE StartBatch(order, TRUE, Soiled)
    /\ UNCHANGED <<doc, inputs, code, status, shown, gen, aborts, jobs, worker, lineage>>

(* The abort of a language run puts its cell back to idle. *)
Silenced(S) ==
    [c \in Cells |-> IF \E j \in S : jobs[j].kind = "lang" /\ jobs[j].cell = c /\ ~jobs[j].aborted
                                        /\ IsLatest(j)
                     THEN "idle" ELSE status[c]]

(* cancelRunning, and cancel(id) of one cell. *)
Escape ==
    /\ Act("escape")
    /\ \E C \in {Cells} \cup {{c} : c \in Cells} :
          LET S == UNION {Controllers(c) : c \in C}
          IN  /\ S # {}
              /\ jobs' = Aborted(jobs, S)
              /\ status' = Silenced(S)
    /\ UNCHANGED <<doc, inputs, code, sel, shown, gen, aborts, worker, lineage, batches>>

DeleteCell(c) ==
    /\ Act("delete")
    /\ Listed(c) /\ HasFreeJob
    /\ jobs' = [Aborted(jobs, Controllers(c)) EXCEPT
                  ![FreeJob] = [Free EXCEPT !.kind = "drop", !.cell = c, !.step = "dropView"]]
    /\ asked' = Append(asked, FreeJob)
    /\ aborts' = [aborts EXCEPT ![c] = None]
    /\ gen' = [gen EXCEPT ![c] = @ + 1]
    /\ lineage' = [lineage EXCEPT ![c] = {}]
    /\ doc' = G!Kept(doc, Cells \ {c})
    /\ batches' = Soiled
    /\ UNCHANGED <<inputs, code, sel, status, shown, answered, rel>>

(* beginExternalRun and the first statement of runPythonCell or runRCell. *)
RunLanguage(c) ==
    /\ Act("language")
    /\ Listed(c) /\ c \in DOMAIN inputs /\ HasFreeJob
    /\ gen' = [gen EXCEPT ![c] = @ + 1]
    /\ jobs' = [Aborted(jobs, Controllers(c)) EXCEPT ![FreeJob] =
                  [Free EXCEPT !.kind = "lang", !.cell = c, !.code = code[c], !.gen = gen'[c],
                               !.step = "count"]]
    /\ aborts' = [aborts EXCEPT ![c] = FreeJob]
    /\ asked' = Append(asked, FreeJob)
    /\ status' = [status EXCEPT ![c] = "running"]
    /\ UNCHANGED <<doc, inputs, code, sel, shown, answered, rel, lineage, batches>>

(* dropCurrentWorkspaceArtifacts: cancelAll, then one drop after the other. *)
Leave ==
    /\ Act("leave")
    /\ doc # <<>> /\ HasFreeJob
    /\ LET S == UNION {Controllers(c) : c \in Cells}
       IN  /\ jobs' = [Aborted(jobs, S) EXCEPT ![FreeJob] =
                         [Free EXCEPT !.kind = "leave", !.cell = doc[1], !.step = "dropView"]]
           /\ status' = Silenced(S)
    /\ gen' = [c \in Cells |-> IF aborts[c] = None THEN gen[c] ELSE gen[c] + 1]
    /\ aborts' = [c \in Cells |-> None]
    /\ asked' = Append(asked, FreeJob)
    /\ batches' = Soiled
    /\ UNCHANGED <<doc, inputs, code, sel, shown, answered, rel, lineage>>

-----------------------------------------------------------------------------
(* DuckDB's worker: the statement at the head. *)

(* Whether the statement can succeed at all. *)
Can(j) ==
    LET r == jobs[j]
    IN  CASE r.step = "create" -> r.code \notin Empty /\ Readable(r.reads)
          [] r.step = "direct" -> TRUE
          [] r.step = "select" -> Readable({r.cell})
          [] r.step \in {"count", "copy"} -> Readable({inputs[r.cell]})
          [] OTHER -> TRUE

Sure(j) == jobs[j].step \in {"dropView", "dropTable", "explain", "known", "unlink", "unfile"}

Execute ==
    /\ Settled
    /\ asked # <<>>
    /\ LET j == Head(asked)
           r == jobs[j]
       IN  \E ok \in {TRUE} \cup (IF Sure(j) THEN {} ELSE {FALSE}) :
              /\ ok => Can(j)
              /\ jobs' = [jobs EXCEPT ![j].ok = ok,
                            ![j].rows = IF ~ok THEN @
                                        ELSE IF r.step = "select" THEN Rows({r.cell})
                                        ELSE IF r.step = "copy" THEN Rows({inputs[r.cell]})
                                        ELSE @]
              /\ rel' = IF ~ok THEN rel
                        ELSE CASE r.step = "create" ->
                                    [rel EXCEPT ![r.cell] = [table |-> FALSE, code |-> r.code,
                                                             sel |-> r.sel, reads |-> r.reads]]
                               [] r.step = "table" ->
                                    [rel EXCEPT ![r.cell] = [table |-> TRUE, code |-> r.code,
                                                             sel |-> 0, reads |-> {}]]
                               [] r.step = "dropView" /\ ~rel[r.cell].table ->
                                    [rel EXCEPT ![r.cell] = NoRelation]
                               [] r.step = "dropTable" /\ rel[r.cell].table ->
                                    [rel EXCEPT ![r.cell] = NoRelation]
                               [] OTHER -> rel
              /\ answered' = Append(answered, j)
    /\ asked' = Tail(asked)
    /\ UNCHANGED <<screen, gen, aborts, lineage, batches, acts>>

-----------------------------------------------------------------------------
(* The main thread: the job at the head of the answers goes on. *)

Goes(j, step) ==
    /\ answered' = Tail(answered)
    /\ asked' = Append(asked, j)
    /\ jobs' = [jobs EXCEPT ![j].step = step]
    /\ UNCHANGED <<screen, gen, aborts, rel, lineage, batches, acts>>

(* Mutant: the entry is removed, whoever's it is. *)
ClearedAny(j) == [aborts EXCEPT ![jobs[j].cell] = None]

(* The finally of a run: only its own entry is removed. *)
Cleared(j) == [aborts EXCEPT ![jobs[j].cell] = IF @ = j THEN None ELSE @]

Ends(j) ==
    /\ answered' = Tail(answered)
    /\ aborts' = Cleared(j)
    /\ UNCHANGED <<doc, inputs, code, sel, gen, rel, acts>>

(* Mutant: a cell whose run has failed goes on showing its old rows. *)
SqlFailsKeeping(j) ==
    LET c == jobs[j].cell
    IN  /\ Ends(j)
        /\ jobs' = [jobs EXCEPT ![j] = Free]
        /\ status' = IF ~IsLatest(j) THEN status
                     ELSE [status EXCEPT ![c] = IF shown[c] = NoRows THEN "error" ELSE "success"]
        /\ batches' = Outcome(batches, jobs[j].batch, FALSE)
        /\ UNCHANGED <<asked, shown, lineage>>

(* runCell's catch: what the run before it had shown goes away too. *)
SqlFails(j) ==
    /\ Ends(j)
    /\ jobs' = [jobs EXCEPT ![j] = Free]
    /\ status' = IF IsLatest(j) THEN [status EXCEPT ![jobs[j].cell] = "error"] ELSE status
    /\ shown' = IF IsLatest(j) THEN [shown EXCEPT ![jobs[j].cell] = NoRows] ELSE shown
    /\ batches' = Outcome(batches, jobs[j].batch, FALSE)
    /\ UNCHANGED <<asked, lineage>>

Result(j) == [code |-> jobs[j].code, sel |-> jobs[j].sel, rows |-> jobs[j].rows, snapshot |-> FALSE]

(* The rows are there; a view's lineage is recorded beside. *)
SqlSucceeds(j, record) ==
    /\ Ends(j)
    /\ jobs' = [jobs EXCEPT ![j] =
          IF record THEN [Free EXCEPT !.kind = "lineage", !.cell = jobs[j].cell,
                                      !.code = jobs[j].code, !.step = "explain"]
          ELSE Free]
    /\ status' = IF IsLatest(j) THEN [status EXCEPT ![jobs[j].cell] = "success"] ELSE status
    /\ shown' = IF IsLatest(j) THEN [shown EXCEPT ![jobs[j].cell] = Result(j)] ELSE shown
    /\ asked' = IF record THEN Append(asked, j) ELSE asked
    /\ batches' = Outcome(batches, jobs[j].batch, IsLatest(j))
    /\ UNCHANGED lineage

SqlStep(j) ==
    /\ jobs[j].kind = "sql"
    /\ \/ /\ ~jobs[j].ok \/ jobs[j].aborted
          /\ SqlFails(j)
       \/ /\ jobs[j].ok /\ ~jobs[j].aborted
          /\ CASE jobs[j].step = "create" -> Goes(j, "select")
               [] jobs[j].step = "direct" -> SqlSucceeds(j, FALSE)
               [] jobs[j].step = "select" -> SqlSucceeds(j, TRUE)
(* Mutant: what the editor says by then. *)
LineageStepEditor(j) ==
    /\ jobs[j].kind = "lineage"
    /\ \/ /\ jobs[j].step = "explain"
          /\ Goes(j, "known")
       \/ /\ jobs[j].step = "known"
          /\ answered' = Tail(answered)
          /\ jobs' = [jobs EXCEPT ![j] = Free]
          /\ lineage' = [lineage EXCEPT ![jobs[j].cell] = Names(code[jobs[j].cell]) \cap Range(doc)]
          /\ UNCHANGED <<screen, gen, aborts, asked, rel, batches, acts>>

(* extractInputs and the resolution of the @names, of cells that are there. *)
LineageStep(j) ==
    /\ jobs[j].kind = "lineage"
    /\ \/ /\ jobs[j].step = "explain"
          /\ Goes(j, "known")
       \/ /\ jobs[j].step = "known"
          /\ answered' = Tail(answered)
          /\ jobs' = [jobs EXCEPT ![j] = Free]
          /\ lineage' = [lineage EXCEPT ![jobs[j].cell] = Names(jobs[j].code) \cap Range(doc)]
          /\ UNCHANGED <<screen, gen, aborts, asked, rel, batches, acts>>

(* Mutant: a language cell's table is not thought of. *)
DropViewOnly(j) ==
    /\ jobs[j].kind = "drop"
    /\ answered' = Tail(answered)
    /\ jobs' = [jobs EXCEPT ![j] = Free]
    /\ UNCHANGED <<screen, gen, aborts, asked, rel, lineage, batches, acts>>

(* engine.drop tries the name as a view, then as a table. *)
DropStep(j) ==
    /\ jobs[j].kind = "drop"
    /\ \/ /\ jobs[j].step = "dropView"
          /\ Goes(j, "dropTable")
       \/ /\ jobs[j].step = "dropTable"
          /\ answered' = Tail(answered)
          /\ jobs' = [jobs EXCEPT ![j] = Free]
          /\ UNCHANGED <<screen, gen, aborts, asked, rel, lineage, batches, acts>>

(* The next cell's relation; after the last the notebook is replaced. *)
LeaveStep(j) ==
    /\ jobs[j].kind = "leave"
    /\ \/ /\ jobs[j].step = "dropView"
          /\ Goes(j, "dropTable")
       \/ /\ jobs[j].step = "dropTable"
          /\ Place(jobs[j].cell) < Len(doc)
          /\ answered' = Tail(answered)
          /\ asked' = Append(asked, j)
          /\ jobs' = [jobs EXCEPT ![j].step = "dropView",
                                  ![j].cell = doc[Place(jobs[j].cell) + 1]]
          /\ UNCHANGED <<screen, gen, aborts, rel, lineage, batches, acts>>
       \/ /\ jobs[j].step = "dropTable"
          /\ Place(jobs[j].cell) = Len(doc)
          /\ answered' = Tail(answered)
          /\ jobs' = [jobs EXCEPT ![j] = Free]
          /\ doc' = <<>>
          /\ lineage' = [c \in Cells |-> {}]
          /\ UNCHANGED <<inputs, code, sel, status, shown, gen, aborts, asked, rel, batches, acts>>

-----------------------------------------------------------------------------
(* Language runs. *)

(* The statement after each; "load" waits for the runtime, not the worker. *)
After == [count |-> "copy", copy |-> "fetch", fetch |-> "unlink", unlink |-> "load",
          buffer |-> "table", table |-> "unfile", unfile |-> "preview", preview |-> "total"]

(* throwIfAborted comes after these. *)
Checks == {"count", "unlink", "load", "preview"}

(* publish is nothing once the run is aborted or superseded. *)
LangEnds(j, outcome) ==
    LET c == jobs[j].cell
        heard == IsLatest(j) /\ ~jobs[j].aborted
    IN  /\ jobs' = [jobs EXCEPT ![j] = Free]
        /\ aborts' = Cleared(j)
        /\ status' = IF heard THEN [status EXCEPT ![c] = outcome] ELSE status
        /\ shown' = IF heard /\ outcome = "success" THEN [shown EXCEPT ![c] = Result(j)] ELSE shown
        /\ UNCHANGED <<doc, inputs, code, sel, gen, asked, rel, lineage, batches, acts>>

(* The run was aborted while its result was being registered. *)
Unregister(j) == jobs[j].step = "unfile" /\ jobs[j].aborted

(* Nothing is left to ask, or something has failed, or the run is aborted. *)
Over(j) ==
    /\ jobs[j].step # "dropView"
    /\ \/ jobs[j].step \in {"dropTable", "total"} \/ ~jobs[j].ok
       \/ jobs[j].step \in Checks /\ jobs[j].aborted

LangStep(j) ==
    /\ jobs[j].kind = "lang"
    /\ \/ Unregister(j) /\ Goes(j, "dropView")
       \/ jobs[j].step = "dropView" /\ Goes(j, "dropTable")
       \/ /\ ~Unregister(j) /\ Over(j)
          /\ answered' = Tail(answered)
          /\ LangEnds(j, IF jobs[j].ok THEN "success" ELSE "error")
       \/ /\ ~Over(j) /\ jobs[j].step = "unlink"
          /\ answered' = Tail(answered)
          /\ jobs' = [jobs EXCEPT ![j].step = "load"]
          /\ UNCHANGED <<screen, gen, aborts, asked, rel, lineage, batches, acts>>
       \/ /\ ~Unregister(j) /\ ~Over(j) /\ jobs[j].step \notin {"unlink", "dropView"}
          /\ Goes(j, After[jobs[j].step])

(* The runtime is loaded and has run the code, or one of the two failed. *)
Computed(j) ==
    /\ Settled
    /\ jobs[j].kind = "lang" /\ jobs[j].step = "load"
    /\ UNCHANGED answered
    /\ \/ LangEnds(j, "error")
       \/ /\ ~jobs[j].aborted
          /\ asked' = Append(asked, j)
          /\ jobs' = [jobs EXCEPT ![j].step = "buffer"]
          /\ UNCHANGED <<screen, gen, aborts, rel, lineage, batches, acts>>

Continue ==
    /\ Settled
    /\ answered # <<>>
    /\ LET j == Head(answered)
       IN  SqlStep(j) \/ LangStep(j) \/ LineageStep(j) \/ DropStep(j) \/ LeaveStep(j)

-----------------------------------------------------------------------------
(* A saved notebook opens with the rows of its snapshots, and no relations. *)
Init ==
    /\ \E nb \in Notebooks :
          /\ doc = nb.doc /\ code = nb.code /\ inputs = nb.inputs
          /\ shown = [c \in Cells |-> IF c \in nb.saved
                                     THEN [code |-> nb.code[c], sel |-> 0, rows |-> {},
                                           snapshot |-> TRUE]
                                     ELSE NoRows]
          /\ status = [c \in Cells |-> IF c \in nb.saved THEN "success" ELSE "idle"]
    /\ sel = 0 /\ acts = 0
    /\ gen = [c \in Cells |-> 0]
    /\ aborts = [c \in Cells |-> None]
    /\ jobs = [j \in Jobs |-> Free]
    /\ asked = <<>> /\ answered = <<>>
    /\ rel = [c \in Cells |-> NoRelation]
    /\ lineage = [c \in Cells |-> {}]
    /\ batches = [b \in Batches |-> NoBatch]

User ==
    \/ \E e \in Edits : Type(e[1], e[2])
    \/ \E c \in Cells : Run(c) \/ DeleteCell(c) \/ RunLanguage(c)
    \/ RunAll \/ Brush \/ Escape \/ Leave

System ==
    \/ Execute \/ Continue
    \/ \E b \in Batches : NextCell(b)
    \/ \E j \in Jobs : Computed(j)

Next == User \/ System

(* The worker answers, promises settle, runtimes load or fail to: while    *)
(* something is under way, something goes on.                              *)
Fairness == WF_vars(System)

Spec == Init /\ [][Next]_vars /\ Fairness

-----------------------------------------------------------------------------
Leaving == \E j \in Jobs : jobs[j].kind = "leave"
Busy(c) == \E j \in Jobs : Running(j) /\ jobs[j].cell = c

Live(c) ==
    /\ Listed(c) /\ status[c] = "success"
    /\ shown[c] # NoRows /\ ~shown[c].snapshot

(* Other cells read a cell through its relation.  When a cell shows rows   *)
(* of a run of its own and nothing is under way for it, the relation is    *)
(* the one of that run, whatever was rerun, superseded, cancelled or       *)
(* rejected in between.                                                    *)
RelationOfRows ==
    \A c \in Cells :
        Live(c) /\ ~Busy(c) /\ ~Leaving /\ shown[c].code \notin Direct
            => /\ rel[c] # NoRelation
               /\ rel[c].code = shown[c].code /\ rel[c].sel = shown[c].sel

(* Escape always finds what runs: the registered controller of a running   *)
(* cell is that of its latest run.                                         *)
Cancellable ==
    \A c \in Cells :
        Listed(c) /\ status[c] = "running" /\ ~Leaving
            => IF aborts[c] = None THEN FALSE
               ELSE jobs[aborts[c]].cell = c /\ Running(aborts[c]) /\ IsLatest(aborts[c])

(* A deleted cell, or one of a notebook that was left, leaves no relation  *)
(* behind that a run in flight has created after the drop.                 *)
NoOrphanRelation ==
    (\A j \in Jobs : jobs[j].kind = "free")
        => \A c \in Cells : ~Listed(c) => rel[c] = NoRelation

Behind(c) == {doc[i] : i \in G!Upstream(Notebook, Place(c))}

(* The rows of a cell that is run now, after all that it reads.            *)
Fresh(c) ==
    {<<d, [table |-> FALSE, code |-> code[d], sel |-> Selected(code[d]),
           reads |-> Resolved(code[d])]>> : d \in {c} \cup Behind(c)}

(* A batch that ended well, and after which nothing was edited, shows rows *)
(* computed from what the cells say now: all of it after Run all, when no  *)
(* cell behind is blank, which is not run; and after a brush the present   *)
(* selection, wherever what is behind a cell reads the crossfilter.        *)
BatchCurrent ==
    \A b \in Batches :
        batches[b].state = "success" /\ batches[b].clean
            => \A c \in batches[b].order :
                  Live(c) /\ shown[c].code \notin Direct
                      => IF batches[b].brush
                         THEN \A x \in shown[c].rows :
                                 x[1] \in {c} \cup Behind(c) /\ x[2].code = code[x[1]]
                                    => x[2].sel = Selected(code[x[1]])
                         ELSE (\A d \in Behind(c) : code[d] \notin Empty)
                                 => shown[c].rows = Fresh(c)

(* When nothing is being recorded, the lineage of a cell with rows names   *)
(* what the statement behind the rows reads.                               *)
LineageOfRows ==
    \A c \in Cells :
        /\ Live(c) /\ c \notin DOMAIN inputs /\ shown[c].code \notin Direct
        /\ \A j \in Jobs : jobs[j].cell = c => jobs[j].kind \notin {"sql", "lineage"}
        => lineage[c] \cap Range(doc) = Names(shown[c].code) \cap Range(doc)

Working ==
    \/ \E c \in Cells : Listed(c) /\ status[c] = "running"
    \/ \E b \in Batches : batches[b].state \in {"next", "await"}

(* Once the user lets go, no cell runs and no batch waits for ever: what   *)
(* is superseded, cancelled or deleted settles too.                        *)
RunsEnd == Working ~> ~Working

(* A cell whose code was refused shows the refusal until it is run again:  *)
(* "a newer run supersedes an older one".                                  *)
RefusalStands ==
    [][\A c \in Cells : status[c] = "error" => status'[c] \in {"error", "running"}]_vars

(* A brush finds the views it names: "without this, a dependent could now  *)
(* reference a view that was never created".                               *)
BrushFindsViews ==
    \A j \in Jobs :
        jobs[j].step = "create" /\ ~jobs[j].ok /\ ~jobs[j].aborted /\ jobs[j].batch # 0
            => LET b == batches[jobs[j].batch]
               IN  b.brush /\ b.clean => Readable(jobs[j].reads)

(* A language cell that shows a preview has the table of it.               *)
PreviewHasTable ==
    \A c \in DOMAIN inputs :
        Listed(c) /\ shown[c] # NoRows /\ ~Busy(c) /\ ~Leaving => rel[c].table

(* The lineage panel shows no cell that is not in the notebook.            *)
LineageOfDoc == \A c \in Cells : ~Listed(c) => lineage[c] = {}
=============================================================================
