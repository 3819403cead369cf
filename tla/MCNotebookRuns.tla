-------------------------- MODULE MCNotebookRuns --------------------------
(* Small notebooks for TLC. *)
EXTENDS NotebookRuns, TLC

(* plain reads nothing, sieve the crossfilter, a and b the cell of that    *)
(* name, sifted b and the crossfilter; show is SHOW TABLES, macro names a  *)
(* measure nobody has defined, blank is empty.                             *)
SmallCodes == {"plain", "sieve", "a", "b", "show", "sifted", "macro", "blank"}
SmallRefs == [k \in SmallCodes |-> IF k \in {"a", "b"} THEN <<k>>
                                     ELSE IF k = "sifted" THEN <<"b">> ELSE <<>>]

(* a is written above the cell it reads. *)
Reader == [doc |-> <<"a", "b">>, code |-> ("a" :> "b" @@ "b" :> "sieve" @@ "p" :> "plain"),
           inputs |-> <<>>, saved |-> {}]
(* A Python cell that reads a. *)
Polyglot == [doc |-> <<"a", "p">>, code |-> [c \in Cells |-> "plain"], inputs |-> "p" :> "a",
             saved |-> {}]

(* Opened with the rows it was saved with; a reads the crossfilter and b. *)
Saved == [doc |-> <<"b", "a">>, code |-> ("a" :> "sifted" @@ "b" :> "plain" @@ "p" :> "plain"),
          inputs |-> <<>>, saved |-> {"a", "b"}]

SavedNotebook == {Saved}
TwoNotebooks == {Reader, Polyglot}
ReaderEdits == {<<"a", "plain">>, <<"b", "plain">>, <<"b", "a">>, <<"b", "show">>,
               <<"b", "macro">>, <<"a", "blank">>}
AllWishes == {"type", "run", "runAll", "brush", "escape", "delete", "language", "leave"}
=============================================================================
