------------------------- MODULE MCNotebookGraph -------------------------
(* All notebooks of a few cells over three names, for TLC. *)
EXTENDS NotebookGraph

Names == {"a", "b", "c"}

Blank == [kind |-> "sql", name |-> NoName, refs |-> <<>>, direct |-> FALSE,
          filter |-> FALSE, ran |-> FALSE, input |-> 0, items |-> {}]

Codes == {<<>>, <<"a">>, <<"b">>, <<"c">>, <<"a", "c">>, <<"c", "b">>}

(* Run or not, or reading the crossfilter; introspection; and the rest. *)
Queries == {[Blank EXCEPT !.name = n, !.refs = r, !.filter = f, !.ran = w] :
              n \in Names, r \in Codes, f \in BOOLEAN, w \in BOOLEAN}
Others == {[Blank EXCEPT !.name = n, !.direct = TRUE, !.ran = TRUE] : n \in Names}
            \cup {[Blank EXCEPT !.kind = "input", !.name = "a"]}
            \cup {[Blank EXCEPT !.kind = "chart", !.input = i] : i \in 0..1}
            \cup {[Blank EXCEPT !.kind = "report", !.items = {1, i}] : i \in 1..2}

SmallCells == {q \in Queries : q.filter => q.ran} \cup Others
=============================================================================
