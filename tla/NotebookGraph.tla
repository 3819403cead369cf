--------------------------- MODULE NotebookGraph ---------------------------
(***************************************************************************)
(* The @-graph of a notebook (src/ui/notebook-graph.ts): the check of a    *)
(* cell before it runs, the order of Run all, of a crossfilter brush and   *)
(* of a report's refresh, each checked against a definition by closure.    *)
(*                                                                         *)
(* A notebook is the sequence of its cells; a cell's identifier is its     *)
(* place in the model.  A cell is                                          *)
(*   kind   "sql" (sql, cohort, assertion), "input", "chart" (every view   *)
(*          that reads one cell's rows) or "report"                        *)
(*   name   the name an @ can find, or "" for none                         *)
(*   refs   the @names of its code, in their order                         *)
(*   direct the code is an introspection statement, without a view         *)
(*   filter the code says CROSSFILTER(<the brushed cell>)                  *)
(*   ran    lastResult is there                                            *)
(*   input  a chart's inputCell, 0 for none                                *)
(*   items  the cells a report names                                       *)
(***************************************************************************)
EXTENDS Integers, Sequences, FiniteSets, SequencesExt

CONSTANTS
    NewCells,   \* the cells that AddCell may append
    MaxCells    \* bound: the length of the notebook

ASSUME MaxAssumption == MaxCells \in Nat

VARIABLE cells

NoName == ""

-----------------------------------------------------------------------------
(* What the functions of the module have in common. *)

Runnable(nb, c) == nb[c].kind = "sql"

RunnableCells(nb) == {c \in DOMAIN nb : Runnable(nb, c)}

(* viewCellNames: the first cell of a name wins; 0 is undefined. *)
CellNamed(nb, name) ==
    LET S == {c \in DOMAIN nb : nb[c].kind \in {"sql", "input"} /\ nb[c].name = name}
    IN  IF S = {} THEN 0 ELSE Min(S)

(* The cells that c refers to, in the order of its code. *)
Refs(nb, c) == [i \in DOMAIN nb[c].refs |-> CellNamed(nb, nb[c].refs[i])]

(* References that resolve to a runnable cell, and to another one. *)
Reads(nb, c) == {d \in Range(Refs(nb, c)) \ {0} : Runnable(nb, d)}

Deps(nb, c) == Reads(nb, c) \ {c}

(* What can be reached from S by next: the least set that has S and is     *)
(* closed under next.                                                      *)
Closure(next, S) ==
    {c \in DOMAIN next :
        \A T \in SUBSET DOMAIN next :
            S \subseteq T /\ (\A d \in T : next[d] \subseteq T) => c \in T}

Upstream(nb, c) == Closure([d \in DOMAIN nb |-> Reads(nb, d)], Reads(nb, c))

Dependents(nb, c) == {d \in RunnableCells(nb) : c \in Deps(nb, d)}

-----------------------------------------------------------------------------
(* detectRefIssue. *)

NamesItself(nb, c) ==
    nb[c].name # NoName /\ \E i \in DOMAIN nb[c].refs : nb[c].refs[i] = nb[c].name

NamesDirect(nb, c) == \E d \in Range(Refs(nb, c)) \ {0} : nb[d].kind = "sql" /\ nb[d].direct

(* dfs from each cell of todo: path are the cells above, explored those    *)
(* that are done with.  In the code both hold names, which stand for the   *)
(* cells they find; the order of the search does not tell in the outcome.  *)
Search(nb) ==
    LET call(path, todo, explored) == [path |-> path, todo |-> todo, explored |-> explored]
        dfs[a \in [path : SUBSET DOMAIN nb, todo : SUBSET DOMAIN nb,
                   explored : SUBSET DOMAIN nb]] ==
            IF a.todo = {} THEN [cycle |-> FALSE, explored |-> a.explored]
            ELSE LET d == Min(a.todo)
                     below == dfs[call(a.path \cup {d}, Reads(nb, d), a.explored)]
                 IN  IF d \in a.path THEN [cycle |-> TRUE, explored |-> {}]
                     ELSE IF d \in a.explored THEN dfs[call(a.path, a.todo \ {d}, a.explored)]
                     ELSE IF below.cycle THEN below
                     ELSE dfs[call(a.path, a.todo \ {d}, below.explored \cup {d})]
    IN  dfs

(* The cell that the name of c finds. *)
Itself(nb, c) == IF nb[c].name = NoName THEN {} ELSE {CellNamed(nb, nb[c].name)}

InCycle(nb, c) ==
    Search(nb)[[path |-> Itself(nb, c), todo |-> Reads(nb, c), explored |-> {}]].cycle

(* Mutant: only a cycle through the cell's own references. *)
RefIssueShallow(nb, c) ==
    CASE ~Runnable(nb, c) -> "none"
      [] NamesItself(nb, c) -> "self_ref"
      [] NamesDirect(nb, c) -> "non_referenceable"
      [] \E d \in Deps(nb, c) : c \in Deps(nb, d) -> "cycle"
      [] OTHER -> "none"

RefIssue(nb, c) ==
    CASE ~Runnable(nb, c) -> "none"
      [] Runnable(nb, c) /\ NamesItself(nb, c) -> "self_ref"
      [] Runnable(nb, c) /\ ~NamesItself(nb, c) /\ NamesDirect(nb, c) -> "non_referenceable"
      [] OTHER -> IF InCycle(nb, c) THEN "cycle" ELSE "none"

-----------------------------------------------------------------------------
(* topoOrderRunnableCells: visit(id) for each cell of todo, in the order   *)
(* of the document, with the cells on the path to it and the order so far, *)
(* whose cells are done.                                                   *)
Visits(nb) ==
    LET call(path, todo, order) == [path |-> path, todo |-> todo, order |-> order]
        visit[a \in [path : SUBSET DOMAIN nb, todo : SUBSET DOMAIN nb, order : Seq(DOMAIN nb)]] ==
            IF a.todo = {} THEN a.order
            ELSE LET c == Min(a.todo)
                     below == visit[call(a.path \cup {c}, Deps(nb, c), a.order)]
                     done == IF c \in a.path \cup Range(a.order) THEN a.order ELSE Append(below, c)
                 IN  visit[call(a.path, a.todo \ {c}, done)]
    IN  visit

(* Mutant: the order of the document. *)
DocumentOrder(nb) == SetToSortSeq(RunnableCells(nb), <)

TopoOrder(nb) == Visits(nb)[[path |-> {}, todo |-> RunnableCells(nb), order |-> <<>>]]

-----------------------------------------------------------------------------
(* What an order keeps of the cells of S: topo.filter((id) => S.has(id)).  *)
Kept(order, S) ==
    LET kept[i \in 0..Len(order)] ==
            IF i = 0 THEN <<>>
            ELSE IF order[i] \in S THEN Append(kept[i - 1], order[i]) ELSE kept[i - 1]
    IN  kept[Len(order)]

-----------------------------------------------------------------------------
(* crossfilterRunOrder. *)

Seeds(nb) == {c \in RunnableCells(nb) : nb[c].filter}

Downstream(nb) == Closure([c \in DOMAIN nb |-> Dependents(nb, c)], Seeds(nb))

(* The ancestor queue: from a cell of the closure to those of its          *)
(* references that have no result, and on from these.                      *)
Unrun(nb) ==
    Closure([c \in DOMAIN nb |-> {d \in Deps(nb, c) : ~nb[d].ran}], Downstream(nb))

(* Mutant: the cells that name the crossfilter and what is below them. *)
BrushOrderDownstream(nb) == Kept(TopoOrder(nb), Downstream(nb))

BrushOrder(nb) == Kept(TopoOrder(nb), Unrun(nb))

-----------------------------------------------------------------------------
(* reportRefreshOrder. *)

(* addRoot: a cell that runs, or the one at the end of its inputCells. *)
Root(nb, c) ==
    LET input == [d \in DOMAIN nb |-> IF nb[d].kind = "chart" THEN {nb[d].input} \ {0} ELSE {}]
    IN  Closure(input, {c}) \cap RunnableCells(nb)

(* walk: upstream through every @, and through input cells to nothing. *)
ReportCells(nb, r) ==
    LET roots == UNION {Root(nb, c) : c \in nb[r].items}
        up == [c \in DOMAIN nb |-> IF Runnable(nb, c) THEN Range(Refs(nb, c)) \ {0, c} ELSE {}]
    IN  Closure(up, roots)

(* Mutant: the cells the report itself names. *)
ReportOrderNamed(nb, r) == Kept(TopoOrder(nb), nb[r].items)

ReportOrder(nb, r) == Kept(TopoOrder(nb), ReportCells(nb, r))

-----------------------------------------------------------------------------
(* A notebook grows by a cell at its end; an edit is another notebook.     *)

GraphInit == cells = <<>>

AddCell(c) ==
    /\ Len(cells) < MaxCells
    /\ c.input <= Len(cells) /\ c.items \subseteq DOMAIN cells
    /\ cells' = Append(cells, c)

GraphNext == \E c \in NewCells : AddCell(c)

GraphSpec == GraphInit /\ [][GraphNext]_cells

-----------------------------------------------------------------------------
(* Nothing behind the cell is in a cycle or is an introspection cell.      *)
Clean(nb, c) ==
    /\ \A d \in {c} \cup Upstream(nb, c) : d \notin Upstream(nb, d)
    /\ \A d \in Deps(nb, c) : ~nb[d].direct

(* A cell that the static check lets run can reach no cycle, not even one  *)
(* it is not part of, and names no introspection cell.                     *)
IssueFound == \A c \in RunnableCells(cells) : RefIssue(cells, c) = "none" => Clean(cells, c)

Before(order, c, d) ==
    \E i, j \in DOMAIN order : i < j /\ order[i] = c /\ order[j] = d

(* Run all runs every runnable cell once, and each after everything it     *)
(* reads, when none of it is in a cycle; detectRefIssue refuses the rest.  *)
RunAllOrdered ==
    LET order == TopoOrder(cells)
    IN  /\ IsInjective(order) /\ Range(order) = RunnableCells(cells)
        /\ \A c \in Range(order) :
              RefIssue(cells, c) = "none"
                  => \A d \in Deps(cells, c) : Before(order, d, c)

(* A brush runs every cell whose rows depend on the crossfilter, runs no   *)
(* cell before a view it names has been created (a cell that has a result  *)
(* has its view), and leaves cells alone that ran and do not depend on it. *)
BrushCovers ==
    LET order == BrushOrder(cells)
        depends == {c \in RunnableCells(cells) :
                      \E d \in {c} \cup Upstream(cells, c) : cells[d].filter}
    IN  /\ depends \subseteq Range(order)
        /\ \A c \in Range(order) :
              /\ c \in depends \/ ~cells[c].ran
              /\ RefIssue(cells, c) = "none"
                     => \A d \in Deps(cells, c) : cells[d].ran \/ Before(order, d, c)

(* The refresh of a report runs what the report shows after everything     *)
(* that is upstream of it, and nothing else.                               *)
ReportCovers ==
    \A r \in {x \in DOMAIN cells : cells[x].kind = "report"} :
        LET order == ReportOrder(cells, r)
            shown == UNION {Root(cells, c) : c \in cells[r].items}
        IN  /\ Range(order) = shown \cup UNION {Upstream(cells, c) : c \in shown}
            /\ \A c \in shown : RefIssue(cells, c) = "none"
                  => \A d \in Upstream(cells, c) : Before(order, d, c)
=============================================================================
