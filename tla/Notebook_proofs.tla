-------------------------- MODULE Notebook_proofs --------------------------
(***************************************************************************)
(* What is proved of the runs of notebook cells and of their graph.        *)
(*                                                                         *)
(* First the graph functions over any notebook: the search for cycles, the *)
(* topological order and the orders made from it.  Then the runs: the      *)
(* queue of the worker, what a step does (EveryStep: a step of the user or *)
(* of one job), and one inductive invariant after the other, each on top   *)
(* of Basic and Controls; the batches are the last of them.  At the end,   *)
(* the graph's invariants for its own specification.                       *)
(***************************************************************************)
EXTENDS NotebookRuns, NotebookGraph, FiniteSetTheorems, WellFoundedInduction, TLAPS

-----------------------------------------------------------------------------
(* Induction and recursion over a measure, with sets for predicates.       *)

LEMMA LeastNatural ==
  ASSUME NEW D \in SUBSET Nat, D # {}
  PROVE  \E i \in D : \A j \in D : i <= j
<1> DEFINE Less == OpToRel(<, Nat)
<1>1. IsWellFoundedOn(Less, Nat)
  BY NatLessThanWellFounded
<1>2. \A i, j \in Nat : <<j, i>> \in Less <=> j < i
  BY DEF OpToRel
<1> HIDE DEF Less
<1>3. PICK i \in D : \A j \in D : ~(<<j, i>> \in Less)
  BY <1>1, WFMin
<1>4. ASSUME NEW j \in D PROVE i <= j
  <2>1. i \in Nat /\ j \in Nat
    OBVIOUS
  <2>2. ~(j < i)
    BY <2>1, <1>2, <1>3
  <2> QED
    BY <2>1, <2>2
<1> QED
  BY <1>4

LEMMA MeasureInduction ==
  ASSUME NEW A, NEW m \in [A -> Nat], NEW T \in SUBSET A,
         \A a \in A : (\A x \in A : m[x] < m[a] => x \in T) => a \in T
  PROVE  T = A
<1> SUFFICES ASSUME A \ T # {} PROVE FALSE
  OBVIOUS
<1> DEFINE D == {m[a] : a \in A \ T}
<1>1. D \in SUBSET Nat /\ D # {}
  OBVIOUS
<1>2. PICK i \in D : \A j \in D : i <= j
  BY <1>1, LeastNatural
<1>3. PICK a \in A \ T : m[a] = i
  OBVIOUS
<1>4. ASSUME NEW x \in A, m[x] < m[a] PROVE x \in T
  <2>1. SUFFICES ASSUME x \notin T PROVE FALSE
    OBVIOUS
  <2>2. m[x] \in D
    BY <2>1
  <2>3. m[a] <= m[x] /\ m[a] \in Nat /\ m[x] \in Nat
    BY <2>2, <1>2, <1>3
  <2> QED
    BY <2>3, <1>4
<1> QED
  BY <1>3, <1>4

(* A function may be defined by what it is at arguments of a lower measure.*)
Recursive(A, B, m, F) ==
    /\ B # {} /\ m \in [A -> Nat] /\ F \in [A \X [A -> B] -> B]
    /\ \A a \in A, g, h \in [A -> B] :
          (\A x \in A : m[x] < m[a] => g[x] = h[x]) => F[<<a, g>>] = F[<<a, h>>]

Fixpoint(A, B, F, f) == f \in [A -> B] /\ \A a \in A : f[a] = F[<<a, f>>]

LEMMA Recursion ==
  ASSUME NEW A, NEW B, NEW m, NEW F, Recursive(A, B, m, F)
  PROVE  \E f : Fixpoint(A, B, F, f)
<1> USE DEF Recursive
<1> DEFINE Approx(g, n) == \A a \in A : m[a] < n => g[a] = F[<<a, g>>]
<1>1. \A n \in Nat : \E g \in [A -> B] : Approx(g, n)
  <2> DEFINE T == {n \in Nat : \E g \in [A -> B] : Approx(g, n)}
  <2>1. ASSUME NEW n \in Nat, \A x \in Nat : x < n => x \in T
        PROVE  n \in T
    <3>1. CASE n = 0
      <4>1. PICK b : b \in B
        OBVIOUS
      <4>2. [a \in A |-> b] \in [A -> B] /\ Approx([a \in A |-> b], 0)
        BY <4>1
      <4> QED
        BY <4>2, <3>1
    <3>2. CASE n # 0
      <4>1. \A k \in Nat : k # 0 => k - 1 \in Nat /\ k - 1 < k
        OBVIOUS
      <4>2. n - 1 \in T
        <5> HIDE DEF T
        <5> QED
          BY <4>1, <3>2, <2>1
      <4>3. PICK g \in [A -> B] : Approx(g, n - 1)
        BY <4>2
      <4> DEFINE h == [a \in A |-> F[<<a, g>>]]
      <4>4. h \in [A -> B]
        OBVIOUS
      <4>5. ASSUME NEW a \in A, m[a] < n PROVE h[a] = F[<<a, h>>]
        <5>1. ASSUME NEW x \in A, m[x] < m[a] PROVE g[x] = h[x]
          <6>1. m[x] < n - 1
            BY <5>1, <4>5
          <6> QED
            BY <6>1, <4>3
        <5>2. F[<<a, g>>] = F[<<a, h>>]
          BY <5>1, <4>4
        <5> QED
          BY <5>2
      <4>6. Approx(h, n)
        BY <4>5
      <4> HIDE DEF h
      <4> QED
        BY <4>4, <4>6
    <3> QED
      BY <3>1, <3>2
  <2>2. Nat \ T \in SUBSET Nat
    OBVIOUS
  <2> HIDE DEF T
  <2>3. Nat \ T = {}
    <3> SUFFICES ASSUME Nat \ T # {} PROVE FALSE
      OBVIOUS
    <3>1. PICK i \in Nat \ T : \A j \in Nat \ T : i <= j
      BY <2>2, LeastNatural
    <3> QED
      BY <3>1, <2>1
  <2> QED
    BY <2>3 DEF T
<1>2. ASSUME NEW i \in Nat, NEW j \in Nat, NEW g \in [A -> B], NEW h \in [A -> B],
             Approx(g, i), Approx(h, j)
      PROVE  \A a \in A : m[a] < i /\ m[a] < j => g[a] = h[a]
  <2> DEFINE T == {a \in A : m[a] < i /\ m[a] < j => g[a] = h[a]}
  <2>1. ASSUME NEW a \in A, \A x \in A : m[x] < m[a] => x \in T
        PROVE  a \in T
    <3> SUFFICES ASSUME m[a] < i, m[a] < j PROVE g[a] = h[a]
      OBVIOUS
    <3>1. ASSUME NEW x \in A, m[x] < m[a] PROVE g[x] = h[x]
      <4>1. m[x] < i /\ m[x] < j
        BY <3>1
      <4> QED
        BY <4>1, <3>1, <2>1
    <3>2. F[<<a, g>>] = F[<<a, h>>]
      BY <3>1
    <3> QED
      BY <3>2, <1>2
  <2>2. T \in SUBSET A
    OBVIOUS
  <2> HIDE DEF T
  <2>3. T = A
    BY <2>1, <2>2, MeasureInduction
  <2> QED
    BY <2>3 DEF T
<1> DEFINE approx(n) == CHOOSE g \in [A -> B] : Approx(g, n)
           f == [a \in A |-> approx(m[a] + 1)[a]]
<1>3. ASSUME NEW n \in Nat PROVE approx(n) \in [A -> B] /\ Approx(approx(n), n)
  BY <1>1
<1> HIDE DEF Approx, approx
<1>4. ASSUME NEW a \in A PROVE m[a] + 1 \in Nat /\ m[a] < m[a] + 1
  OBVIOUS
<1>5. f \in [A -> B]
  BY <1>3, <1>4
<1>6. ASSUME NEW a \in A PROVE f[a] = F[<<a, f>>]
  <2> DEFINE g == approx(m[a] + 1)
  <2>1. g \in [A -> B] /\ Approx(g, m[a] + 1)
    BY <1>3, <1>4
  <2>2. ASSUME NEW x \in A, m[x] < m[a] PROVE f[x] = g[x]
    <3>1. m[x] < m[a] + 1 /\ m[x] < m[x] + 1 /\ m[x] + 1 \in Nat /\ m[a] + 1 \in Nat
      BY <2>2
    <3>2. approx(m[x] + 1) \in [A -> B] /\ Approx(approx(m[x] + 1), m[x] + 1)
      BY <1>3, <3>1
    <3>3. approx(m[x] + 1)[x] = g[x]
      BY <3>1, <3>2, <2>1, <1>2
    <3> QED
      BY <3>3
  <2>3. f[a] = g[a]
    OBVIOUS
  <2>4. g[a] = F[<<a, g>>]
    BY <2>1, <1>4 DEF Approx
  <2> HIDE DEF f, g
  <2>5. F[<<a, f>>] = F[<<a, g>>]
    BY <2>1, <2>2, <1>5
  <2> QED
    BY <2>3, <2>4, <2>5
<1> QED
  BY <1>5, <1>6 DEF Fixpoint

-----------------------------------------------------------------------------
(* Calls of the two searches: each is of a lower measure than its caller.  *)

IsSheet(nb) == \E n \in Nat : DOMAIN nb = 1..n

(* How many cells are not above, and how many are to be looked at.         *)
Left(nb, path) == Cardinality(DOMAIN nb \ path)
Size(nb, path, todo) == Left(nb, path) * (Left(nb, {}) + 1) + Cardinality(todo)

LEMMA SheetFinite ==
  ASSUME NEW nb, IsSheet(nb)
  PROVE  /\ IsFiniteSet(DOMAIN nb) /\ DOMAIN nb \in SUBSET Nat
         /\ \A S \in SUBSET DOMAIN nb :
              /\ IsFiniteSet(S) /\ Cardinality(S) \in Nat
              /\ Cardinality(S) <= Cardinality(DOMAIN nb)
<1>1. PICK n \in Nat : DOMAIN nb = 1..n
  BY DEF IsSheet
<1>2. IsFiniteSet(DOMAIN nb)
  BY <1>1, FS_Interval
<1> QED
  BY <1>1, <1>2, FS_Subset, FS_CardinalityType

LEMMA MinIn ==
  ASSUME NEW S \in SUBSET Nat, S # {}
  PROVE  G!Min(S) \in S
<1>1. \E x \in S : \A y \in S : x <= y
  BY LeastNatural
<1> QED
  BY <1>1 DEF G!Min

LEMMA NamedIn ==
  ASSUME NEW nb, IsSheet(nb), NEW name
  PROVE  /\ G!CellNamed(nb, name) \in DOMAIN nb \cup {0}
         /\ G!CellNamed(nb, name) # 0 => /\ nb[G!CellNamed(nb, name)].kind \in {"sql", "input"}
                                  /\ nb[G!CellNamed(nb, name)].name = name
         /\ \A c \in DOMAIN nb : nb[c].kind \in {"sql", "input"} /\ nb[c].name = name
                                  => G!CellNamed(nb, name) # 0
<1> DEFINE S == {c \in DOMAIN nb : nb[c].kind \in {"sql", "input"} /\ nb[c].name = name}
<1>1. S \in SUBSET Nat /\ 0 \notin S
  BY DEF IsSheet
<1>2. CASE S = {}
  BY <1>2 DEF G!CellNamed
<1>3. CASE S # {}
  <2>1. G!Min(S) \in S
    BY <1>1, <1>3, MinIn
  <2>2. G!CellNamed(nb, name) = G!Min(S)
    BY <1>3 DEF G!CellNamed
  <2> QED
    BY <2>1, <2>2, <1>1
<1> QED
  BY <1>2, <1>3

LEMMA ReadsIn ==
  ASSUME NEW nb, IsSheet(nb), NEW c
  PROVE  G!Reads(nb, c) \in SUBSET G!RunnableCells(nb) /\ G!Deps(nb, c) \in SUBSET G!RunnableCells(nb)
<1>1. ASSUME NEW d \in G!Reads(nb, c) PROVE d \in G!RunnableCells(nb)
  <2>1. PICK i \in DOMAIN nb[c].refs : d = G!CellNamed(nb, nb[c].refs[i])
    BY DEF G!Reads, G!Refs, G!Range
  <2>2. d # 0 /\ G!Runnable(nb, d)
    BY DEF G!Reads
  <2> QED
    BY <2>1, <2>2, NamedIn DEF G!RunnableCells
<1> QED
  BY <1>1 DEF G!Deps

LEMMA CallsBelow ==
  ASSUME NEW nb, IsSheet(nb), NEW path \in SUBSET DOMAIN nb, NEW todo \in SUBSET DOMAIN nb
  PROVE  /\ Size(nb, path, todo) \in Nat
         /\ \A c \in todo :
              /\ Size(nb, path, todo \ {c}) < Size(nb, path, todo)
              /\ c \notin path => \A more \in SUBSET DOMAIN nb :
                                     Size(nb, path \cup {c}, more) < Size(nb, path, todo)
<1> DEFINE D == DOMAIN nb
           n == Cardinality(D)
<1>1. IsFiniteSet(D) /\ \A S \in SUBSET D : /\ IsFiniteSet(S) /\ Cardinality(S) \in Nat
                                            /\ Cardinality(S) <= n
  BY SheetFinite
<1>2. n \in Nat /\ Left(nb, {}) = n
  <2>1. D \ {} = D
    OBVIOUS
  <2> QED
    BY <1>1, <2>1 DEF Left
<1>3. \A p \in SUBSET D : Left(nb, p) \in Nat
  BY <1>1 DEF Left
<1>4. \A a, b, k \in Nat : a * (k + 1) + b \in Nat
  OBVIOUS
<1>5. Size(nb, path, todo) \in Nat
  BY <1>1, <1>2, <1>3, <1>4 DEF Size
<1>6. ASSUME NEW c \in todo
      PROVE  Size(nb, path, todo \ {c}) < Size(nb, path, todo)
  <2>1. Cardinality(todo \ {c}) = Cardinality(todo) - 1
    BY <1>1, FS_RemoveElement
  <2>2. \A a, b \in Nat : a + (b - 1) < a + b
    OBVIOUS
  <2>3. \A a, k \in Nat : a * (k + 1) \in Nat
    OBVIOUS
  <2>4. Left(nb, path) * (n + 1) \in Nat /\ Cardinality(todo) \in Nat
    BY <1>1, <1>2, <1>3, <2>3
  <2> QED
    BY <2>1, <2>2, <2>4, <1>2 DEF Size
<1>7. ASSUME NEW c \in todo, c \notin path, NEW more \in SUBSET D
      PROVE  Size(nb, path \cup {c}, more) < Size(nb, path, todo)
  <2>1. D \ (path \cup {c}) = (D \ path) \ {c} /\ c \in D \ path
    BY <1>7
  <2>2. Left(nb, path \cup {c}) = Left(nb, path) - 1
    <3> DEFINE L == D \ path
    <3>1. IsFiniteSet(L) /\ c \in L
      BY <1>1, <2>1
    <3>2. Cardinality(L \ {c}) = Cardinality(L) - 1
      <4> HIDE DEF L
      <4> QED
        BY <3>1, FS_RemoveElement
    <3> QED
      BY <2>1, <3>2 DEF Left
  <2>3. Left(nb, path \cup {c}) \in Nat /\ Left(nb, path) \in Nat
    BY <1>3
  <2>4. \A a, b, k, x, y \in Nat : a = b - 1 /\ x <= k => a * (k + 1) + x < b * (k + 1) + y
    <3> TAKE a, b, k, x, y \in Nat
    <3> HAVE a = b - 1 /\ x <= k
    <3>1. b = a + 1
      OBVIOUS
    <3>2. (a + 1) * (k + 1) = a * (k + 1) + (k + 1)
      OBVIOUS
    <3>3. a * (k + 1) \in Nat
      OBVIOUS
    <3> QED
      BY <3>1, <3>2, <3>3
  <2> QED
    BY <2>2, <2>3, <2>4, <1>1, <1>2 DEF Size
<1> QED
  BY <1>5, <1>6, <1>7

-----------------------------------------------------------------------------
(* dfs, unfolded.                                                          *)

SearchCalls(nb) == [path : SUBSET DOMAIN nb, todo : SUBSET DOMAIN nb, explored : SUBSET DOMAIN nb]
Outcomes(nb) == [cycle : BOOLEAN, explored : SUBSET DOMAIN nb]

Dfs(nb, path, todo, explored) ==
    G!Search(nb)[[path |-> path, todo |-> todo, explored |-> explored]]

LEMMA SearchDefined ==
  ASSUME NEW nb, IsSheet(nb)
  PROVE  /\ G!Search(nb) \in [SearchCalls(nb) -> Outcomes(nb)]
         /\ \A a \in SearchCalls(nb) :
              G!Search(nb)[a] =
                IF a.todo = {} THEN [cycle |-> FALSE, explored |-> a.explored]
                ELSE LET d == G!Min(a.todo)
                         below == Dfs(nb, a.path \cup {d}, G!Reads(nb, d), a.explored)
                     IN  IF d \in a.path THEN [cycle |-> TRUE, explored |-> {}]
                         ELSE IF d \in a.explored THEN Dfs(nb, a.path, a.todo \ {d}, a.explored)
                         ELSE IF below.cycle THEN below
                         ELSE Dfs(nb, a.path, a.todo \ {d}, below.explored \cup {d})
<1> DEFINE A == SearchCalls(nb)
           B == Outcomes(nb)
           m == [a \in A |-> Size(nb, a.path, a.todo)]
           call(path, todo, explored) == [path |-> path, todo |-> todo, explored |-> explored]
           Rest(a, E) == call(a.path, a.todo \ {G!Min(a.todo)}, E)
           Down(a) == call(a.path \cup {G!Min(a.todo)}, G!Reads(nb, G!Min(a.todo)), a.explored)
           Body(a, g) == IF a.todo = {} THEN [cycle |-> FALSE, explored |-> a.explored]
                         ELSE IF G!Min(a.todo) \in a.path THEN [cycle |-> TRUE, explored |-> {}]
                         ELSE IF G!Min(a.todo) \in a.explored THEN g[Rest(a, a.explored)]
                         ELSE IF g[Down(a)].cycle THEN g[Down(a)]
                         ELSE g[Rest(a, g[Down(a)].explored \cup {G!Min(a.todo)})]
           F == [p \in A \X [A -> B] |-> Body(p[1], p[2])]
<1>1. ASSUME NEW a \in A, a.todo # {}
      PROVE  /\ G!Min(a.todo) \in a.todo /\ G!Min(a.todo) \in DOMAIN nb
             /\ a.explored \in SUBSET DOMAIN nb
             /\ G!Min(a.todo) \notin a.path => Down(a) \in A /\ m[Down(a)] < m[a]
             /\ \A E \in SUBSET DOMAIN nb : Rest(a, E) \in A /\ m[Rest(a, E)] < m[a]
  <2>1. a.path \in SUBSET DOMAIN nb /\ a.todo \in SUBSET DOMAIN nb /\ a.explored \in SUBSET DOMAIN nb
    BY DEF SearchCalls
  <2>2. G!Min(a.todo) \in a.todo
    BY <2>1, <1>1, SheetFinite, MinIn
  <2>3. G!Reads(nb, G!Min(a.todo)) \in SUBSET DOMAIN nb
    BY ReadsIn DEF G!RunnableCells
  <2>4. /\ Size(nb, a.path, a.todo \ {G!Min(a.todo)}) < Size(nb, a.path, a.todo)
        /\ G!Min(a.todo) \notin a.path =>
             Size(nb, a.path \cup {G!Min(a.todo)}, G!Reads(nb, G!Min(a.todo))) < Size(nb, a.path, a.todo)
    BY <2>1, <2>2, <2>3, CallsBelow
  <2>5. Down(a) \in A /\ \A E \in SUBSET DOMAIN nb : Rest(a, E) \in A
    BY <2>1, <2>2, <2>3 DEF SearchCalls
  <2> QED
    BY <2>1, <2>2, <2>4, <2>5
<1>2. m \in [A -> Nat]
  BY CallsBelow DEF SearchCalls
<1>3. B # {}
  <2>1. [cycle |-> TRUE, explored |-> {}] \in B
    BY DEF Outcomes
  <2> QED
    BY <2>1
<1>4. ASSUME NEW a \in A, NEW g \in [A -> B] PROVE Body(a, g) \in B
  <2>1. CASE a.todo = {} \/ G!Min(a.todo) \in a.path
    BY <2>1 DEF Outcomes, SearchCalls
  <2>2. CASE a.todo # {} /\ G!Min(a.todo) \notin a.path
    <3>1. g[Rest(a, a.explored)] \in B /\ g[Down(a)] \in B
      BY <2>2, <1>1
    <3>2. g[Down(a)].explored \cup {G!Min(a.todo)} \in SUBSET DOMAIN nb
      BY <3>1, <2>2, <1>1 DEF Outcomes
    <3>3. g[Rest(a, g[Down(a)].explored \cup {G!Min(a.todo)})] \in B
      BY <3>2, <2>2, <1>1
    <3> HIDE DEF Rest, Down, A, B
    <3> QED
      BY <3>1, <3>3, <2>2
  <2> QED
    BY <2>1, <2>2
<1>5. F \in [A \X [A -> B] -> B]
  <2> HIDE DEF Body, A, B
  <2> QED
    BY <1>4
<1>6. ASSUME NEW a \in A, NEW g \in [A -> B], NEW h,
             \A x \in A : m[x] < m[a] => g[x] = h[x]
      PROVE  Body(a, g) = Body(a, h)
  <2>1. CASE a.todo = {} \/ G!Min(a.todo) \in a.path
    BY <2>1
  <2>2. CASE a.todo # {} /\ G!Min(a.todo) \notin a.path
    <3>1. g[Rest(a, a.explored)] = h[Rest(a, a.explored)] /\ g[Down(a)] = h[Down(a)]
      BY <2>2, <1>1, <1>6
    <3>2. g[Down(a)] \in B
      BY <2>2, <1>1
    <3> DEFINE E == g[Down(a)].explored \cup {G!Min(a.todo)}
    <3>3. E \in SUBSET DOMAIN nb
      BY <3>2, <2>2, <1>1 DEF Outcomes
    <3>4. g[Rest(a, E)] = h[Rest(a, E)]
      BY <3>3, <2>2, <1>1, <1>6
    <3> HIDE DEF Rest, Down, A, B
    <3> QED
      BY <3>1, <3>4, <2>2
  <2> QED
    BY <2>1, <2>2
<1>7. PICK f : Fixpoint(A, B, F, f)
  <2> HIDE DEF Body, m, A, B
  <2>1. \A a \in A, g, h \in [A -> B] :
          (\A x \in A : m[x] < m[a] => g[x] = h[x]) => F[<<a, g>>] = F[<<a, h>>]
    <3> TAKE a \in A, g, h \in [A -> B]
    <3> HAVE \A x \in A : m[x] < m[a] => g[x] = h[x]
    <3>1. Body(a, g) = Body(a, h)
      BY <1>6
    <3>2. F[<<a, g>>] = Body(a, g) /\ F[<<a, h>>] = Body(a, h)
      OBVIOUS
    <3> QED
      BY <3>1, <3>2
  <2> HIDE DEF F
  <2>2. Recursive(A, B, m, F)
    BY <1>2, <1>3, <1>5, <2>1 DEF Recursive
  <2> QED
    BY <2>2, Recursion
<1>8. f \in [A -> B] /\ \A a \in A : f[a] = Body(a, f)
  <2> HIDE DEF Body, A, B
  <2> QED
    BY <1>7 DEF Fixpoint
<1>9. \E s : s = [a \in A |-> Body(a, s)]
  <2> HIDE DEF Body, A, B
  <2> QED
    BY <1>8
<1>10. G!Search(nb) = [a \in A |-> Body(a, G!Search(nb))]
  BY <1>9, Zenon DEF G!Search, SearchCalls
<1>11. ASSUME NEW a \in A, \A x \in A : m[x] < m[a] => f[x] = G!Search(nb)[x]
       PROVE  f[a] = G!Search(nb)[a]
  <2> HIDE DEF Body, m, A, B
  <2>1. Body(a, f) = Body(a, G!Search(nb))
    BY <1>6, <1>8, <1>11
  <2> QED
    BY <2>1, <1>8, <1>10
<1>12. {a \in A : f[a] = G!Search(nb)[a]} = A
  <2> DEFINE T == {a \in A : f[a] = G!Search(nb)[a]}
  <2>1. T \in SUBSET A /\ \A a \in A : (\A x \in A : m[x] < m[a] => x \in T) => a \in T
    <3> HIDE DEF A, m
    <3> QED
      BY <1>11
  <2> HIDE DEF T, A, m
  <2>2. T = A
    BY <2>1, <1>2, MeasureInduction
  <2> QED
    BY <2>2 DEF T
<1>13. G!Search(nb) \in [A -> B]
  <2> HIDE DEF Body, m, A, B
  <2> QED
    BY <1>8, <1>10, <1>12
<1>14. \A a \in A : G!Search(nb)[a] = Body(a, G!Search(nb))
  <2> HIDE DEF Body, A
  <2> QED
    BY <1>10
<1> QED
  BY <1>13, <1>14 DEF Dfs
-----------------------------------------------------------------------------
(* visit, unfolded.                                                        *)

VisitCalls(nb) == [path : SUBSET DOMAIN nb, todo : SUBSET DOMAIN nb, order : Seq(DOMAIN nb)]

Visit(nb, path, todo, order) == G!Visits(nb)[[path |-> path, todo |-> todo, order |-> order]]

LEMMA VisitsDefined ==
  ASSUME NEW nb, IsSheet(nb)
  PROVE  /\ G!Visits(nb) \in [VisitCalls(nb) -> Seq(DOMAIN nb)]
         /\ \A a \in VisitCalls(nb) :
              G!Visits(nb)[a] =
                IF a.todo = {} THEN a.order
                ELSE LET c == G!Min(a.todo)
                         below == Visit(nb, a.path \cup {c}, G!Deps(nb, c), a.order)
                         done == IF c \in a.path \cup G!Range(a.order) THEN a.order
                                 ELSE Append(below, c)
                     IN  Visit(nb, a.path, a.todo \ {c}, done)
<1> DEFINE A == VisitCalls(nb)
           B == Seq(DOMAIN nb)
           m == [a \in A |-> Size(nb, a.path, a.todo)]
           call(path, todo, order) == [path |-> path, todo |-> todo, order |-> order]
           Rest(a, o) == call(a.path, a.todo \ {G!Min(a.todo)}, o)
           Down(a) == call(a.path \cup {G!Min(a.todo)}, G!Deps(nb, G!Min(a.todo)), a.order)
           Body(a, g) == IF a.todo = {} THEN a.order
                         ELSE g[Rest(a, IF G!Min(a.todo) \in a.path \cup G!Range(a.order) THEN a.order
                                        ELSE Append(g[Down(a)], G!Min(a.todo)))]
           F == [p \in A \X [A -> B] |-> Body(p[1], p[2])]
<1>1. ASSUME NEW a \in A, a.todo # {}
      PROVE  /\ G!Min(a.todo) \in a.todo /\ G!Min(a.todo) \in DOMAIN nb
             /\ a.order \in B
             /\ G!Min(a.todo) \notin a.path => Down(a) \in A /\ m[Down(a)] < m[a]
             /\ \A o \in B : Rest(a, o) \in A /\ m[Rest(a, o)] < m[a]
  <2>1. a.path \in SUBSET DOMAIN nb /\ a.todo \in SUBSET DOMAIN nb /\ a.order \in B
    BY DEF VisitCalls
  <2>2. G!Min(a.todo) \in a.todo
    BY <2>1, <1>1, SheetFinite, MinIn
  <2>3. G!Deps(nb, G!Min(a.todo)) \in SUBSET DOMAIN nb
    BY ReadsIn DEF G!RunnableCells
  <2>4. /\ Size(nb, a.path, a.todo \ {G!Min(a.todo)}) < Size(nb, a.path, a.todo)
        /\ G!Min(a.todo) \notin a.path =>
             Size(nb, a.path \cup {G!Min(a.todo)}, G!Deps(nb, G!Min(a.todo))) < Size(nb, a.path, a.todo)
    BY <2>1, <2>2, <2>3, CallsBelow
  <2>5. Down(a) \in A /\ \A o \in B : Rest(a, o) \in A
    BY <2>1, <2>2, <2>3 DEF VisitCalls
  <2> QED
    BY <2>1, <2>2, <2>4, <2>5
<1>2. m \in [A -> Nat]
  BY CallsBelow DEF VisitCalls
<1>3. B # {}
  <2>1. <<>> \in B
    OBVIOUS
  <2> QED
    BY <2>1
<1>0. \A o \in B, c \in DOMAIN nb : Append(o, c) \in B
  <2> TAKE o \in Seq(DOMAIN nb), c \in DOMAIN nb
  <2> QED
    OBVIOUS
<1>4. ASSUME NEW a \in A, NEW g \in [A -> B] PROVE Body(a, g) \in B
  <2>1. CASE a.todo = {}
    BY <2>1 DEF VisitCalls
  <2>2. CASE a.todo # {} /\ G!Min(a.todo) \in a.path \cup G!Range(a.order)
    <3>1. g[Rest(a, a.order)] \in B
      BY <2>2, <1>1
    <3> HIDE DEF Rest, Down, A, B
    <3> QED
      BY <3>1, <2>2
  <2>3. CASE a.todo # {} /\ G!Min(a.todo) \notin a.path \cup G!Range(a.order)
    <3>1. g[Down(a)] \in B
      BY <2>3, <1>1
    <3>2. Append(g[Down(a)], G!Min(a.todo)) \in B
      <4> HIDE DEF Rest, Down, A, B
      <4> QED
        BY <3>1, <2>3, <1>1, <1>0
    <3>3. g[Rest(a, Append(g[Down(a)], G!Min(a.todo)))] \in B
      BY <3>2, <2>3, <1>1
    <3> HIDE DEF Rest, Down, A, B
    <3> QED
      BY <3>3, <2>3
  <2> QED
    BY <2>1, <2>2, <2>3
<1>5. F \in [A \X [A -> B] -> B]
  <2> HIDE DEF Body, A, B
  <2> QED
    BY <1>4
<1>6. ASSUME NEW a \in A, NEW g \in [A -> B], NEW h,
             \A x \in A : m[x] < m[a] => g[x] = h[x]
      PROVE  Body(a, g) = Body(a, h)
  <2>1. CASE a.todo = {}
    BY <2>1
  <2>2. CASE a.todo # {} /\ G!Min(a.todo) \in a.path \cup G!Range(a.order)
    <3>1. g[Rest(a, a.order)] = h[Rest(a, a.order)]
      BY <2>2, <1>1, <1>6
    <3> HIDE DEF Rest, Down, A, B
    <3> QED
      BY <3>1, <2>2
  <2>3. CASE a.todo # {} /\ G!Min(a.todo) \notin a.path \cup G!Range(a.order)
    <3>1. g[Down(a)] \in B /\ g[Down(a)] = h[Down(a)]
      BY <2>3, <1>1, <1>6
    <3>2. Append(g[Down(a)], G!Min(a.todo)) \in B
      <4> HIDE DEF Rest, Down, A, B
      <4> QED
        BY <3>1, <2>3, <1>1, <1>0
    <3>3. g[Rest(a, Append(g[Down(a)], G!Min(a.todo)))] = h[Rest(a, Append(g[Down(a)], G!Min(a.todo)))]
      BY <3>2, <2>3, <1>1, <1>6
    <3> HIDE DEF Rest, Down, A, B
    <3> QED
      BY <3>1, <3>3, <2>3
  <2> QED
    BY <2>1, <2>2, <2>3
<1>7. PICK f : Fixpoint(A, B, F, f)
  <2> HIDE DEF Body, m, A, B
  <2>1. \A a \in A, g, h \in [A -> B] :
          (\A x \in A : m[x] < m[a] => g[x] = h[x]) => F[<<a, g>>] = F[<<a, h>>]
    <3> TAKE a \in A, g, h \in [A -> B]
    <3> HAVE \A x \in A : m[x] < m[a] => g[x] = h[x]
    <3>1. Body(a, g) = Body(a, h)
      BY <1>6
    <3>2. F[<<a, g>>] = Body(a, g) /\ F[<<a, h>>] = Body(a, h)
      OBVIOUS
    <3> QED
      BY <3>1, <3>2
  <2> HIDE DEF F
  <2>2. Recursive(A, B, m, F)
    BY <1>2, <1>3, <1>5, <2>1 DEF Recursive
  <2> QED
    BY <2>2, Recursion
<1>8. f \in [A -> B] /\ \A a \in A : f[a] = Body(a, f)
  <2> HIDE DEF Body, A, B
  <2> QED
    BY <1>7 DEF Fixpoint
<1>9. \E s : s = [a \in A |-> Body(a, s)]
  <2> HIDE DEF Body, A, B
  <2> QED
    BY <1>8
<1>10. G!Visits(nb) = [a \in A |-> Body(a, G!Visits(nb))]
  BY <1>9, Zenon DEF G!Visits, VisitCalls
<1>11. ASSUME NEW a \in A, \A x \in A : m[x] < m[a] => f[x] = G!Visits(nb)[x]
       PROVE  f[a] = G!Visits(nb)[a]
  <2> HIDE DEF Body, m, A, B
  <2>1. Body(a, f) = Body(a, G!Visits(nb))
    BY <1>6, <1>8, <1>11
  <2> QED
    BY <2>1, <1>8, <1>10
<1>12. {a \in A : f[a] = G!Visits(nb)[a]} = A
  <2> DEFINE T == {a \in A : f[a] = G!Visits(nb)[a]}
  <2>1. T \in SUBSET A /\ \A a \in A : (\A x \in A : m[x] < m[a] => x \in T) => a \in T
    <3> HIDE DEF A, m
    <3> QED
      BY <1>11
  <2> HIDE DEF T, A, m
  <2>2. T = A
    BY <2>1, <1>2, MeasureInduction
  <2> QED
    BY <2>2 DEF T
<1>13. G!Visits(nb) \in [A -> B]
  <2> HIDE DEF Body, m, A, B
  <2> QED
    BY <1>8, <1>10, <1>12
<1>14. \A a \in A : G!Visits(nb)[a] = Body(a, G!Visits(nb))
  <2> HIDE DEF Body, A
  <2> QED
    BY <1>10
<1> QED
  BY <1>13, <1>14 DEF Visit

-----------------------------------------------------------------------------
(* Closures, and what is upstream of a cell.                               *)

LEMMA ClosureLeast ==
  ASSUME NEW D, NEW next \in [D -> SUBSET D], NEW S \in SUBSET D
  PROVE  /\ G!Closure(next, S) \in SUBSET D /\ S \subseteq G!Closure(next, S)
         /\ \A x \in G!Closure(next, S) : next[x] \subseteq G!Closure(next, S)
         /\ \A T \in SUBSET D :
              S \subseteq T /\ (\A x \in T : next[x] \subseteq T) => G!Closure(next, S) \subseteq T
BY DEF G!Closure

LEMMA UpstreamLeast ==
  ASSUME NEW nb, IsSheet(nb), NEW c
  PROVE  /\ G!Upstream(nb, c) \in SUBSET G!RunnableCells(nb)
         /\ G!Reads(nb, c) \subseteq G!Upstream(nb, c)
         /\ \A x \in G!Upstream(nb, c) : G!Reads(nb, x) \subseteq G!Upstream(nb, c)
         /\ \A T \in SUBSET DOMAIN nb :
              G!Reads(nb, c) \subseteq T /\ (\A x \in T : G!Reads(nb, x) \subseteq T)
                => G!Upstream(nb, c) \subseteq T
<1> DEFINE D == DOMAIN nb
           next == [d \in D |-> G!Reads(nb, d)]
           S == G!Reads(nb, c)
<1>1. G!RunnableCells(nb) \in SUBSET D
  BY DEF G!RunnableCells
<1>2. S \in SUBSET G!RunnableCells(nb) /\ \A d \in D : G!Reads(nb, d) \in SUBSET G!RunnableCells(nb)
  BY ReadsIn
<1>3. next \in [D -> SUBSET D] /\ \A d \in D : next[d] = G!Reads(nb, d)
  BY <1>1, <1>2
<1>4. G!Upstream(nb, c) = G!Closure(next, S)
  BY DEF G!Upstream
<1> HIDE DEF next, D, S
<1>5. S \in SUBSET D
  BY <1>1, <1>2
<1>6. /\ G!Closure(next, S) \in SUBSET D /\ S \subseteq G!Closure(next, S)
      /\ \A x \in G!Closure(next, S) : next[x] \subseteq G!Closure(next, S)
      /\ \A T \in SUBSET D :
           S \subseteq T /\ (\A x \in T : next[x] \subseteq T) => G!Closure(next, S) \subseteq T
  BY <1>3, <1>5, ClosureLeast
<1>7. G!Closure(next, S) \subseteq G!RunnableCells(nb)
  BY <1>1, <1>2, <1>3, <1>6
<1> QED
  BY <1>3, <1>4, <1>6, <1>7, <1>1 DEF D, S

LEMMA UpstreamOfRead ==
  ASSUME NEW nb, IsSheet(nb), NEW c, NEW d, d \in G!Reads(nb, c) \/ d \in G!Upstream(nb, c)
  PROVE  d \in G!Upstream(nb, c) /\ G!Upstream(nb, d) \subseteq G!Upstream(nb, c)
<1>1. d \in G!Upstream(nb, c)
  BY UpstreamLeast
<1>2. G!Upstream(nb, c) \in SUBSET DOMAIN nb
  BY UpstreamLeast DEF G!RunnableCells
<1>3. /\ G!Reads(nb, d) \subseteq G!Upstream(nb, c)
      /\ \A x \in G!Upstream(nb, c) : G!Reads(nb, x) \subseteq G!Upstream(nb, c)
  BY <1>1, UpstreamLeast
<1> QED
  BY <1>1, <1>2, <1>3, UpstreamLeast

(* What is upstream is read by the cell, or upstream of what it reads.     *)
LEMMA UpstreamThrough ==
  ASSUME NEW nb, IsSheet(nb), NEW c, NEW d \in G!Upstream(nb, c)
  PROVE  \E x \in G!Reads(nb, c) : d = x \/ d \in G!Upstream(nb, x)
<1> DEFINE T == {y \in DOMAIN nb : \E x \in G!Reads(nb, c) : y = x \/ y \in G!Upstream(nb, x)}
<1>1. G!Reads(nb, c) \subseteq T
  BY ReadsIn DEF G!RunnableCells
<1>2. ASSUME NEW y \in T, NEW z \in G!Reads(nb, y) PROVE z \in T
  <2>1. PICK x \in G!Reads(nb, c) : y = x \/ y \in G!Upstream(nb, x)
    OBVIOUS
  <2>2. z \in G!Upstream(nb, x)
    BY <2>1, <1>2, UpstreamLeast
  <2>3. z \in DOMAIN nb
    BY ReadsIn DEF G!RunnableCells
  <2> QED
    BY <2>2, <2>3
<1>3. T \in SUBSET DOMAIN nb
  OBVIOUS
<1>4. G!Upstream(nb, c) \subseteq T
  <2> HIDE DEF T
  <2> QED
    BY <1>1, <1>2, <1>3, UpstreamLeast
<1> QED
  BY <1>4

-----------------------------------------------------------------------------
(* The check before a run.                                                 *)

(* Cells whose references are among them, and reach no cycle.              *)
Grounded(nb, E) ==
    /\ E \in SUBSET DOMAIN nb
    /\ \A x \in E : G!Reads(nb, x) \subseteq E
    /\ \A S \in SUBSET E : S # {} => \E x \in S : G!Reads(nb, x) \cap S = {}

LEMMA GroundedEmpty ==
  ASSUME NEW nb PROVE Grounded(nb, {})
BY DEF Grounded

LEMMA GroundedMore ==
  ASSUME NEW nb, NEW E, Grounded(nb, E), NEW d \in DOMAIN nb, d \notin E,
         G!Reads(nb, d) \subseteq E
  PROVE  Grounded(nb, E \cup {d})
<1> USE DEF Grounded
<1>1. ASSUME NEW S \in SUBSET (E \cup {d}), S # {}
      PROVE  \E x \in S : G!Reads(nb, x) \cap S = {}
  <2>1. CASE S \cap E = {}
    BY <2>1, <1>1
  <2>2. CASE S \cap E # {}
    <3>1. S \cap E \in SUBSET E
      OBVIOUS
    <3>2. PICK x \in S \cap E : G!Reads(nb, x) \cap (S \cap E) = {}
      BY <2>2, <3>1
    <3> QED
      BY <3>2
  <2> QED
    BY <2>1, <2>2
<1> QED
  BY <1>1

LEMMA GroundedClean ==
  ASSUME NEW nb, IsSheet(nb), NEW E, Grounded(nb, E), NEW d \in E
  PROVE  d \notin G!Upstream(nb, d)
<1> SUFFICES ASSUME d \in G!Upstream(nb, d) PROVE FALSE
  OBVIOUS
<1> DEFINE S == {x \in G!Upstream(nb, d) : d \in G!Upstream(nb, x)}
<1>1. G!Upstream(nb, d) \subseteq E
  BY UpstreamLeast DEF Grounded
<1>2. d \in S /\ S \in SUBSET E
  BY <1>1
<1>3. ASSUME NEW x \in S PROVE G!Reads(nb, x) \cap S # {}
  <2>1. PICK y \in G!Reads(nb, x) : d = y \/ d \in G!Upstream(nb, y)
    BY UpstreamThrough
  <2>2. y \in G!Upstream(nb, d)
    BY UpstreamLeast
  <2>3. y \in S
    BY <2>1, <2>2
  <2> QED
    BY <2>1, <2>3
<1> HIDE DEF S
<1> QED
  BY <1>2, <1>3 DEF Grounded

(* The search from sound arguments that finds no cycle leaves a grounded   *)
(* set of cells, in which are those it started from.                       *)
Sound(nb, a) == Grounded(nb, a.explored) /\ a.path \cap a.explored = {}

Searched(nb, a, E) ==
    a.explored \cup a.todo \subseteq E /\ Grounded(nb, E) /\ a.path \cap E = {}

LEMMA SearchSound ==
  ASSUME NEW nb, IsSheet(nb), NEW a \in SearchCalls(nb), Sound(nb, a), ~G!Search(nb)[a].cycle
  PROVE  Searched(nb, a, G!Search(nb)[a].explored)
<1> DEFINE A == SearchCalls(nb)
           m == [x \in A |-> Size(nb, x.path, x.todo)]
           T == {x \in A : Sound(nb, x) /\ ~G!Search(nb)[x].cycle
                             => Searched(nb, x, G!Search(nb)[x].explored)}
<1>1. m \in [A -> Nat]
  BY CallsBelow DEF SearchCalls
<1>2. ASSUME NEW x \in A, \A y \in A : m[y] < m[x] => y \in T, Sound(nb, x), ~G!Search(nb)[x].cycle
      PROVE  Searched(nb, x, G!Search(nb)[x].explored)
  <2>1. /\ x.path \in SUBSET DOMAIN nb /\ x.todo \in SUBSET DOMAIN nb
        /\ x.explored \in SUBSET DOMAIN nb
    BY DEF SearchCalls
  <2>2. CASE x.todo = {}
    <3>1. G!Search(nb)[x] = [cycle |-> FALSE, explored |-> x.explored]
      BY <2>2, SearchDefined
    <3> QED
      BY <3>1, <2>2, <1>2 DEF Sound, Searched
  <2>3. CASE x.todo # {}
    <3> DEFINE d == G!Min(x.todo)
               down == [path |-> x.path \cup {d}, todo |-> G!Reads(nb, d), explored |-> x.explored]
               rest(E) == [path |-> x.path, todo |-> x.todo \ {d}, explored |-> E]
    <3>1. d \in x.todo /\ d \in DOMAIN nb
      BY <2>1, <2>3, SheetFinite, MinIn
    <3>2. G!Reads(nb, d) \in SUBSET DOMAIN nb
      BY ReadsIn DEF G!RunnableCells
    <3> HIDE DEF d
    <3>3. G!Search(nb)[x] =
            IF d \in x.path THEN [cycle |-> TRUE, explored |-> {}]
            ELSE IF d \in x.explored THEN G!Search(nb)[rest(x.explored)]
            ELSE IF G!Search(nb)[down].cycle THEN G!Search(nb)[down]
            ELSE G!Search(nb)[rest(G!Search(nb)[down].explored \cup {d})]
      BY <2>3, SearchDefined DEF Dfs, d
    <3>4. d \notin x.path
      BY <3>3, <1>2
    <3>5. /\ down \in A /\ m[down] < m[x]
          /\ \A E \in SUBSET DOMAIN nb : rest(E) \in A /\ m[rest(E)] < m[x]
      <4>1. down \in A /\ \A E \in SUBSET DOMAIN nb : rest(E) \in A
        BY <2>1, <3>1, <3>2 DEF SearchCalls
      <4>2. /\ Size(nb, x.path, x.todo \ {d}) < Size(nb, x.path, x.todo)
            /\ Size(nb, x.path \cup {d}, G!Reads(nb, d)) < Size(nb, x.path, x.todo)
        BY <2>1, <3>1, <3>2, <3>4, CallsBelow
      <4> QED
        BY <4>1, <4>2
    <3>6. CASE d \in x.explored
      <4>1. rest(x.explored) \in T
        BY <2>1, <3>5, <1>2
      <4>2. G!Search(nb)[x] = G!Search(nb)[rest(x.explored)]
        BY <3>3, <3>4, <3>6
      <4>3. Sound(nb, rest(x.explored))
        BY <1>2 DEF Sound
      <4>4. Searched(nb, rest(x.explored), G!Search(nb)[x].explored)
        BY <4>1, <4>2, <4>3, <1>2
      <4> QED
        BY <4>4, <3>6 DEF Searched
    <3>7. CASE d \notin x.explored
      <4> DEFINE b == G!Search(nb)[down].explored
      <4>1. ~G!Search(nb)[down].cycle /\ G!Search(nb)[x] = G!Search(nb)[rest(b \cup {d})]
        BY <3>3, <3>4, <3>7, <1>2
      <4>2. Sound(nb, down)
        BY <3>7, <1>2 DEF Sound
      <4>3. Searched(nb, down, b)
        BY <3>5, <4>1, <4>2, <1>2
      <4>4. Grounded(nb, b \cup {d}) /\ b \cup {d} \in SUBSET DOMAIN nb
        <5>1. Grounded(nb, b) /\ d \notin b /\ G!Reads(nb, d) \subseteq b
          BY <4>3 DEF Searched
        <5> HIDE DEF b
        <5> QED
          BY <5>1, <3>1, GroundedMore DEF Grounded
      <4>5. Sound(nb, rest(b \cup {d}))
        BY <4>3, <4>4, <3>4 DEF Sound, Searched
      <4>6. rest(b \cup {d}) \in T
        BY <4>4, <3>5, <1>2
      <4>7. Searched(nb, rest(b \cup {d}), G!Search(nb)[x].explored)
        BY <4>1, <4>5, <4>6, <1>2
      <4>8. x.explored \subseteq b
        BY <4>3 DEF Searched
      <4> HIDE DEF b
      <4> QED
        BY <4>7, <4>8, <3>1 DEF Searched
    <3> QED
      BY <3>6, <3>7
  <2> QED
    BY <2>2, <2>3
<1>3. T \in SUBSET A /\ \A x \in A : (\A y \in A : m[y] < m[x] => y \in T) => x \in T
  <2> HIDE DEF A, m
  <2> QED
    BY <1>2
<1> HIDE DEF T, A, m
<1>4. T = A
  BY <1>1, <1>3, MeasureInduction
<1> QED
  BY <1>4 DEF T, A

LEMMA IssueClean ==
  ASSUME NEW nb, IsSheet(nb), NEW c \in G!RunnableCells(nb), G!RefIssue(nb, c) = "none"
  PROVE  G!Clean(nb, c)
<1>1. c \in DOMAIN nb /\ G!Runnable(nb, c) /\ nb[c].kind = "sql"
  BY DEF G!RunnableCells, G!Runnable
<1>2. ~G!NamesDirect(nb, c) /\ ~G!InCycle(nb, c)
  BY <1>1, Zenon DEF G!RefIssue
<1>3. G!Itself(nb, c) \in SUBSET DOMAIN nb
  <2>1. nb[c].name # G!NoName => G!CellNamed(nb, nb[c].name) \in DOMAIN nb
    BY <1>1, NamedIn
  <2> QED
    BY <2>1 DEF G!Itself
<1>4. G!Reads(nb, c) \in SUBSET DOMAIN nb
  BY ReadsIn DEF G!RunnableCells
<1> DEFINE a == [path |-> G!Itself(nb, c), todo |-> G!Reads(nb, c), explored |-> {}]
           E == G!Search(nb)[a].explored
<1>5. a \in SearchCalls(nb) /\ Sound(nb, a) /\ ~G!Search(nb)[a].cycle
  BY <1>2, <1>3, <1>4, GroundedEmpty DEF SearchCalls, Sound, G!InCycle
<1>6. Searched(nb, a, E)
  BY <1>5, SearchSound
<1>7. Grounded(nb, E) /\ G!Reads(nb, c) \subseteq E
  BY <1>6 DEF Searched
<1> HIDE DEF E
<1>8. G!Upstream(nb, c) \subseteq E
  BY <1>7, UpstreamLeast DEF Grounded
<1>9. \A d \in {c} \cup G!Upstream(nb, c) : d \notin G!Upstream(nb, d)
  BY <1>7, <1>8, GroundedClean
<1>10. \A d \in G!Deps(nb, c) : ~nb[d].direct
  BY <1>2 DEF G!Deps, G!Reads, G!NamesDirect, G!Runnable
<1> QED
  BY <1>9, <1>10 DEF G!Clean
-----------------------------------------------------------------------------
(* The order of Run all.                                                   *)

(* Each cell of the order is in a cycle, or after all that it reads.       *)
Sorted(nb, o) ==
    \A i \in DOMAIN o :
        \/ o[i] \in G!Upstream(nb, o[i])
        \/ \A d \in G!Deps(nb, o[i]) : \E j \in DOMAIN o : j < i /\ o[j] = d

Placed(nb, o) ==
    o \in Seq(G!RunnableCells(nb)) /\ G!IsInjective(o) /\ Sorted(nb, o)

(* The order r goes on from the order o.                                   *)
Extends(r, o) == Len(o) <= Len(r) /\ \A i \in 1..Len(o) : r[i] = o[i]

Linked(nb, a) ==
    /\ a.path \in SUBSET G!RunnableCells(nb) /\ a.todo \in SUBSET G!RunnableCells(nb)
    /\ Placed(nb, a.order)
    /\ \A p \in a.path, x \in a.todo : x \in G!Upstream(nb, p)

Visited(nb, a, r) ==
    /\ Placed(nb, r) /\ Extends(r, a.order)
    /\ a.todo \ a.path \subseteq G!Range(r)
    /\ G!Range(r) \cap a.path \subseteq G!Range(a.order)

LEMMA ExtendsRange ==
  ASSUME NEW D, NEW o \in Seq(D), NEW r \in Seq(D), Extends(r, o)
  PROVE  G!Range(o) \subseteq G!Range(r)
<1>1. ASSUME NEW i \in DOMAIN o PROVE o[i] \in G!Range(r)
  <2>1. i \in 1..Len(o) /\ i \in 1..Len(r)
    BY DEF Extends
  <2> QED
    BY <2>1 DEF Extends, G!Range
<1> QED
  BY <1>1 DEF G!Range

LEMMA AppendRange ==
  ASSUME NEW D, NEW o \in Seq(D), NEW c \in D
  PROVE  Append(o, c) \in Seq(D) /\ G!Range(Append(o, c)) = G!Range(o) \cup {c}
<1>1. /\ Append(o, c) \in Seq(D) /\ DOMAIN Append(o, c) = 1..(Len(o) + 1) /\ DOMAIN o = 1..Len(o)
      /\ Len(o) \in Nat /\ Append(o, c)[Len(o) + 1] = c
      /\ \A i \in 1..Len(o) : Append(o, c)[i] = o[i]
  OBVIOUS
<1>2. \A i \in 1..(Len(o) + 1) : i \in 1..Len(o) \/ i = Len(o) + 1
  BY <1>1
<1>3. \A i \in 1..Len(o) : i \in 1..(Len(o) + 1)
  BY <1>1
<1>4. Len(o) + 1 \in 1..(Len(o) + 1)
  BY <1>1
<1> QED
  BY <1>1, <1>2, <1>3, <1>4 DEF G!Range

LEMMA PlacedAppend ==
  ASSUME NEW nb, IsSheet(nb), NEW o, Placed(nb, o), NEW c \in G!RunnableCells(nb), c \notin G!Range(o),
         c \in G!Upstream(nb, c) \/ G!Deps(nb, c) \subseteq G!Range(o)
  PROVE  Placed(nb, Append(o, c))
<1> DEFINE r == Append(o, c)
<1>1. /\ o \in Seq(G!RunnableCells(nb)) /\ r \in Seq(G!RunnableCells(nb))
      /\ DOMAIN o = 1..Len(o) /\ DOMAIN r = 1..(Len(o) + 1) /\ Len(o) \in Nat
      /\ r[Len(o) + 1] = c /\ \A i \in 1..Len(o) : r[i] = o[i]
  BY DEF Placed
<1>2. \A i \in DOMAIN r : i \in DOMAIN o \/ i = Len(o) + 1
  BY <1>1
<1>3. \A i \in DOMAIN o : i \in DOMAIN r /\ i < Len(o) + 1 /\ r[i] = o[i] /\ o[i] # c
  BY <1>1 DEF G!Range
<1>4. Len(o) + 1 \in DOMAIN r
  BY <1>1
<1> HIDE DEF r
<1>5. G!IsInjective(r)
  <2> SUFFICES ASSUME NEW i \in DOMAIN r, NEW j \in DOMAIN r, r[i] = r[j] PROVE i = j
    BY DEF G!IsInjective
  <2>1. \A x, y \in DOMAIN o : o[x] = o[y] => x = y
    BY DEF Placed, G!IsInjective
  <2> QED
    BY <2>1, <1>1, <1>2, <1>3
<1>6. Sorted(nb, r)
  <2> SUFFICES ASSUME NEW i \in DOMAIN r, r[i] \notin G!Upstream(nb, r[i]), NEW d \in G!Deps(nb, r[i])
               PROVE  \E j \in DOMAIN r : j < i /\ r[j] = d
    BY DEF Sorted
  <2>1. CASE i \in DOMAIN o
    <3>1. PICK j \in DOMAIN o : j < i /\ o[j] = d
      BY <2>1, <1>3 DEF Placed, Sorted
    <3> QED
      BY <3>1, <1>3
  <2>2. CASE i = Len(o) + 1
    <3>1. d \in G!Range(o)
      BY <2>2, <1>1
    <3>2. PICK j \in DOMAIN o : o[j] = d
      BY <3>1 DEF G!Range
    <3> QED
      BY <3>2, <2>2, <1>3
  <2> QED
    BY <2>1, <2>2, <1>2
<1>7. r \in Seq(G!RunnableCells(nb))
  BY <1>1
<1> QED
  BY <1>5, <1>6, <1>7 DEF Placed, r

LEMMA VisitPlaces ==
  ASSUME NEW nb, IsSheet(nb), NEW a \in VisitCalls(nb), Linked(nb, a)
  PROVE  Visited(nb, a, G!Visits(nb)[a])
<1> DEFINE A == VisitCalls(nb)
           m == [x \in A |-> Size(nb, x.path, x.todo)]
           T == {x \in A : Linked(nb, x) => Visited(nb, x, G!Visits(nb)[x])}
<1>1. m \in [A -> Nat]
  BY CallsBelow DEF VisitCalls
<1>2. ASSUME NEW x \in A, \A y \in A : m[y] < m[x] => y \in T, Linked(nb, x)
      PROVE  Visited(nb, x, G!Visits(nb)[x])
  <2>1. /\ x.path \in SUBSET DOMAIN nb /\ x.todo \in SUBSET DOMAIN nb
        /\ x.order \in Seq(DOMAIN nb)
    BY DEF VisitCalls
  <2>2. CASE x.todo = {}
    <3>1. G!Visits(nb)[x] = x.order
      BY <2>2, VisitsDefined
    <3>2. Placed(nb, x.order)
      BY <1>2 DEF Linked
    <3>3. Extends(x.order, x.order)
      BY <2>1 DEF Extends
    <3> QED
      BY <3>1, <3>2, <3>3, <2>2 DEF Visited
  <2>3. CASE x.todo # {}
    <3> DEFINE c == G!Min(x.todo)
               down == [path |-> x.path \cup {c}, todo |-> G!Deps(nb, c), order |-> x.order]
               rest(o) == [path |-> x.path, todo |-> x.todo \ {c}, order |-> o]
    <3>1. c \in x.todo /\ c \in DOMAIN nb
      BY <2>1, <2>3, SheetFinite, MinIn
    <3>2. G!Deps(nb, c) \in SUBSET DOMAIN nb
      BY ReadsIn DEF G!RunnableCells
    <3>3. G!Visits(nb)[x] = G!Visits(nb)[rest(IF c \in x.path \cup G!Range(x.order) THEN x.order
                                          ELSE Append(G!Visits(nb)[down], c))]
      BY <2>3, VisitsDefined DEF Visit
    <3> HIDE DEF c
    <3>4. \A o \in Seq(DOMAIN nb) : rest(o) \in A /\ m[rest(o)] < m[x]
      <4>1. \A o \in Seq(DOMAIN nb) : rest(o) \in A
        BY <2>1, <3>1 DEF VisitCalls
      <4>2. Size(nb, x.path, x.todo \ {c}) < Size(nb, x.path, x.todo)
        BY <2>1, <3>1, CallsBelow
      <4> QED
        BY <4>1, <4>2
    <3>5. CASE c \in x.path \cup G!Range(x.order)
      <4>1. G!Visits(nb)[x] = G!Visits(nb)[rest(x.order)]
        BY <3>3, <3>5
      <4>2. Linked(nb, rest(x.order))
        BY <1>2 DEF Linked
      <4>3. Visited(nb, rest(x.order), G!Visits(nb)[x])
        BY <2>1, <3>4, <4>1, <4>2, <1>2
      <4>4. Placed(nb, G!Visits(nb)[x]) /\ Extends(G!Visits(nb)[x], x.order)
        BY <4>3 DEF Visited
      <4>5. G!Range(x.order) \subseteq G!Range(G!Visits(nb)[x])
        BY <4>4, <1>2, ExtendsRange DEF Placed, Linked
      <4>6. (x.todo \ {c}) \ x.path \subseteq G!Range(G!Visits(nb)[x])
        BY <4>3 DEF Visited
      <4>7. G!Range(G!Visits(nb)[x]) \cap x.path \subseteq G!Range(x.order)
        BY <4>3 DEF Visited
      <4>8. x.todo \ x.path \subseteq G!Range(G!Visits(nb)[x])
        BY <4>5, <4>6, <3>5
      <4> QED
        BY <4>4, <4>7, <4>8 DEF Visited
    <3>6. CASE c \notin x.path \cup G!Range(x.order)
      <4> DEFINE b == G!Visits(nb)[down]
                 o == Append(b, c)
      <4>1. G!Visits(nb)[x] = G!Visits(nb)[rest(o)]
        BY <3>3, <3>6
      <4>2. down \in A /\ m[down] < m[x]
        <5>1. down \in A
          BY <2>1, <3>1, <3>2 DEF VisitCalls
        <5>2. Size(nb, x.path \cup {c}, G!Deps(nb, c)) < Size(nb, x.path, x.todo)
          BY <2>1, <3>1, <3>2, <3>6, CallsBelow
        <5> QED
          BY <5>1, <5>2
      <4>3. c \in G!RunnableCells(nb)
        BY <3>1, <1>2 DEF Linked
      <4>4. Linked(nb, down)
        <5>1. G!Deps(nb, c) \subseteq G!Reads(nb, c) /\ G!Deps(nb, c) \in SUBSET G!RunnableCells(nb)
          BY ReadsIn DEF G!Deps
        <5>2. ASSUME NEW p \in x.path \cup {c}, NEW y \in G!Deps(nb, c) PROVE y \in G!Upstream(nb, p)
          <6>1. CASE p = c
            BY <6>1, <5>1, UpstreamLeast
          <6>2. CASE p \in x.path
            <7>1. c \in G!Upstream(nb, p)
              BY <6>2, <3>1, <1>2 DEF Linked
            <7> QED
              BY <7>1, <5>1, UpstreamLeast
          <6> QED
            BY <6>1, <6>2
        <5> QED
          BY <5>1, <5>2, <4>3, <1>2 DEF Linked
      <4>5. Visited(nb, down, b)
        BY <4>2, <4>4, <1>2
      <4>6. /\ Placed(nb, b) /\ Extends(b, x.order)
            /\ G!Deps(nb, c) \ (x.path \cup {c}) \subseteq G!Range(b)
            /\ G!Range(b) \cap (x.path \cup {c}) \subseteq G!Range(x.order)
        BY <4>5 DEF Visited
      <4>7. c \notin G!Range(b)
        BY <4>6, <3>6
      <4>8. c \in G!Upstream(nb, c) \/ G!Deps(nb, c) \subseteq G!Range(b)
        <5>1. SUFFICES ASSUME NEW d \in G!Deps(nb, c), d \notin G!Range(b) PROVE c \in G!Upstream(nb, c)
          OBVIOUS
        <5>2. d \in x.path /\ d \in G!Reads(nb, c)
          BY <5>1, <4>6 DEF G!Deps
        <5>3. c \in G!Upstream(nb, d)
          BY <5>2, <3>1, <1>2 DEF Linked
        <5> QED
          BY <5>2, <5>3, UpstreamOfRead
      <4>9. Placed(nb, o)
        <5> HIDE DEF b
        <5> QED
          BY <4>3, <4>6, <4>7, <4>8, PlacedAppend
      <4>10. /\ b \in Seq(G!RunnableCells(nb)) /\ G!Range(o) = G!Range(b) \cup {c}
             /\ x.order \in Seq(G!RunnableCells(nb)) /\ o \in Seq(G!RunnableCells(nb))
        <5> HIDE DEF b
        <5> QED
          BY <4>3, <4>6, <1>2, AppendRange DEF Placed, Linked
      <4>11. Extends(o, x.order)
        <5> HIDE DEF b
        <5>1. Len(o) = Len(b) + 1 /\ Len(b) \in Nat /\ Len(x.order) \in Nat
              /\ \A i \in 1..Len(b) : o[i] = b[i]
          BY <4>10
        <5>2. \A i \in 1..Len(x.order) : i \in 1..Len(b)
          BY <4>6, <5>1 DEF Extends
        <5> QED
          BY <5>1, <5>2, <4>6 DEF Extends
      <4>12. o \in Seq(DOMAIN nb)
        BY <4>10, <4>9 DEF G!RunnableCells, Placed
      <4> HIDE DEF b, o
      <4>13. Linked(nb, rest(o))
        BY <4>9, <1>2 DEF Linked
      <4>14. Visited(nb, rest(o), G!Visits(nb)[x])
        BY <4>1, <4>12, <4>13, <3>4, <1>2
      <4> DEFINE r == G!Visits(nb)[x]
      <4>15. /\ Placed(nb, r) /\ Extends(r, o)
             /\ (x.todo \ {c}) \ x.path \subseteq G!Range(r)
             /\ G!Range(r) \cap x.path \subseteq G!Range(o)
        BY <4>14 DEF Visited
      <4> HIDE DEF r
      <4>16. G!Range(o) \subseteq G!Range(r)
        BY <4>15, <4>10, ExtendsRange DEF Placed
      <4>17. Extends(r, x.order)
        <5>1. r \in Seq(G!RunnableCells(nb))
          BY <4>15 DEF Placed
        <5>2. Len(o) \in Nat /\ Len(r) \in Nat /\ Len(x.order) \in Nat
          BY <5>1, <4>10
        <5>3. Len(x.order) <= Len(o) /\ Len(o) <= Len(r)
          BY <4>11, <4>15 DEF Extends
        <5>4. \A i \in 1..Len(x.order) : i \in 1..Len(o)
          BY <5>2, <5>3
        <5> QED
          BY <5>2, <5>3, <5>4, <4>11, <4>15 DEF Extends
      <4>18. x.todo \ x.path \subseteq G!Range(r)
        BY <4>10, <4>15, <4>16
      <4>19. G!Range(r) \cap x.path \subseteq G!Range(x.order)
        BY <4>10, <4>15, <4>6, <3>6
      <4> QED
        BY <4>15, <4>17, <4>18, <4>19 DEF Visited, r
    <3> QED
      BY <3>5, <3>6
  <2> QED
    BY <2>2, <2>3
<1>3. T \in SUBSET A /\ \A x \in A : (\A y \in A : m[y] < m[x] => y \in T) => x \in T
  <2> HIDE DEF A, m
  <2> QED
    BY <1>2
<1> HIDE DEF T, A, m
<1>4. T = A
  BY <1>1, <1>3, MeasureInduction
<1> QED
  BY <1>4 DEF T, A

LEMMA TopoOrdered ==
  ASSUME NEW nb, IsSheet(nb)
  PROVE  Placed(nb, G!TopoOrder(nb)) /\ G!Range(G!TopoOrder(nb)) = G!RunnableCells(nb)
<1> DEFINE a == [path |-> {}, todo |-> G!RunnableCells(nb), order |-> <<>>]
           r == G!TopoOrder(nb)
<1>1. r = G!Visits(nb)[a]
  BY DEF G!TopoOrder
<1>2. a \in VisitCalls(nb)
  BY DEF VisitCalls, G!RunnableCells
<1>3. Placed(nb, <<>>)
  BY DEF Placed, G!IsInjective, Sorted
<1>4. Linked(nb, a)
  BY <1>3 DEF Linked
<1>5. Visited(nb, a, r)
  BY <1>1, <1>2, <1>4, VisitPlaces
<1>6. Placed(nb, r) /\ G!RunnableCells(nb) \subseteq G!Range(r)
  BY <1>5 DEF Visited
<1> HIDE DEF r
<1>7. G!Range(r) \subseteq G!RunnableCells(nb)
  <2>1. r \in Seq(G!RunnableCells(nb))
    BY <1>6 DEF Placed
  <2>2. \A i \in DOMAIN r : r[i] \in G!RunnableCells(nb)
    BY <2>1
  <2> QED
    BY <2>2 DEF G!Range
<1> QED
  BY <1>6, <1>7 DEF r
-----------------------------------------------------------------------------
(* What an order keeps.                                                    *)

KeptTo(order, S, g, i) ==
    IF i = 0 THEN <<>>
    ELSE IF order[i] \in S THEN Append(g[i - 1], order[i]) ELSE g[i - 1]

LEMMA KeptDefined ==
  ASSUME NEW D, NEW order \in Seq(D), NEW S
  PROVE  \E g \in [0..Len(order) -> Seq(D)] :
            /\ G!Kept(order, S) = g[Len(order)]
            /\ \A i \in 0..Len(order) : g[i] = KeptTo(order, S, g, i)
<1> DEFINE A == 0..Len(order)
           B == Seq(D)
           m == [i \in A |-> i]
           Body(i, g) == KeptTo(order, S, g, i)
           F == [p \in A \X [A -> B] |-> Body(p[1], p[2])]
<1>1. Len(order) \in Nat /\ \A i \in 1..Len(order) : order[i] \in D
  OBVIOUS
<1>2. /\ m \in [A -> Nat] /\ \A i \in A : m[i] = i
      /\ \A i \in A : i # 0 => i \in 1..Len(order) /\ i - 1 \in A /\ m[i - 1] < m[i]
  BY <1>1
<1>3. <<>> \in B /\ \A o \in B, c \in D : Append(o, c) \in B
  <2>1. ASSUME NEW o \in Seq(D), NEW c \in D PROVE Append(o, c) \in Seq(D)
    OBVIOUS
  <2> QED
    BY <2>1
<1>4. ASSUME NEW i \in A, NEW g \in [A -> B] PROVE Body(i, g) \in B
  <2> HIDE DEF A, B, m
  <2>1. CASE i = 0
    BY <2>1, <1>3 DEF KeptTo
  <2>2. CASE i # 0
    <3>1. g[i - 1] \in B /\ order[i] \in D
      BY <2>2, <1>1, <1>2
    <3>2. Append(g[i - 1], order[i]) \in B
      BY <3>1, <1>3
    <3> QED
      BY <3>1, <3>2, <2>2 DEF KeptTo
  <2> QED
    BY <2>1, <2>2
<1>5. F \in [A \X [A -> B] -> B]
  <2> HIDE DEF Body, A, B
  <2> QED
    BY <1>4
<1>6. ASSUME NEW i \in A, NEW g, NEW h, \A x \in A : m[x] < m[i] => g[x] = h[x]
      PROVE  Body(i, g) = Body(i, h)
  <2> HIDE DEF A, B, m
  <2>1. CASE i = 0
    BY <2>1 DEF KeptTo
  <2>2. CASE i # 0
    <3>1. g[i - 1] = h[i - 1]
      BY <2>2, <1>2, <1>6
    <3> QED
      BY <3>1, <2>2 DEF KeptTo
  <2> QED
    BY <2>1, <2>2
<1>7. PICK f : Fixpoint(A, B, F, f)
  <2> HIDE DEF Body, m, A, B
  <2>1. \A i \in A, g, h \in [A -> B] :
          (\A x \in A : m[x] < m[i] => g[x] = h[x]) => F[<<i, g>>] = F[<<i, h>>]
    <3> TAKE i \in A, g, h \in [A -> B]
    <3> HAVE \A x \in A : m[x] < m[i] => g[x] = h[x]
    <3>1. Body(i, g) = Body(i, h)
      BY <1>6
    <3>2. F[<<i, g>>] = Body(i, g) /\ F[<<i, h>>] = Body(i, h)
      OBVIOUS
    <3> QED
      BY <3>1, <3>2
  <2> HIDE DEF F
  <2>2. Recursive(A, B, m, F)
    BY <1>2, <1>3, <1>5, <2>1 DEF Recursive
  <2> QED
    BY <2>2, Recursion
<1>8. f \in [A -> B] /\ \A i \in A : f[i] = Body(i, f)
  <2> HIDE DEF Body, A, B
  <2> QED
    BY <1>7 DEF Fixpoint
<1> DEFINE k == CHOOSE s : s = [i \in A |-> Body(i, s)]
<1>9. \E s : s = [i \in A |-> Body(i, s)]
  <2> HIDE DEF Body, A, B
  <2> QED
    BY <1>8
<1>10. k = [i \in A |-> Body(i, k)]
  <2> HIDE DEF Body, A, B
  <2> QED
    BY <1>9
<1>11. G!Kept(order, S) = k[Len(order)]
  BY Zenon DEF G!Kept, KeptTo
<1> HIDE DEF k
<1>12. ASSUME NEW i \in A, \A x \in A : m[x] < m[i] => f[x] = k[x]
       PROVE  f[i] = k[i]
  <2> HIDE DEF Body, m, A, B
  <2>1. Body(i, f) = Body(i, k)
    BY <1>6, <1>12
  <2> QED
    BY <2>1, <1>8, <1>10
<1>13. {i \in A : f[i] = k[i]} = A
  <2> DEFINE T == {i \in A : f[i] = k[i]}
  <2>1. T \in SUBSET A /\ \A i \in A : (\A x \in A : m[x] < m[i] => x \in T) => i \in T
    <3> HIDE DEF A, m
    <3> QED
      BY <1>12
  <2> HIDE DEF T, A, m
  <2>2. T = A
    BY <2>1, <1>2, MeasureInduction
  <2> QED
    BY <2>2 DEF T
<1>14. Len(order) \in A
  BY <1>1
<1>15. f[Len(order)] = k[Len(order)]
  BY <1>13, <1>14
<1> HIDE DEF A, B
<1> QED
  BY <1>8, <1>11, <1>15 DEF A, B

(* The filter keeps the cells of S, and each before those it was before.   *)
LEMMA KeptOrder ==
  ASSUME NEW D, NEW order \in Seq(D), NEW S
  PROVE  /\ G!Range(G!Kept(order, S)) = G!Range(order) \cap S
         /\ \A c, d \in S : G!Before(order, c, d) => G!Before(G!Kept(order, S), c, d)
<1>1. PICK g \in [0..Len(order) -> Seq(D)] :
            /\ G!Kept(order, S) = g[Len(order)]
            /\ \A i \in 0..Len(order) : g[i] = KeptTo(order, S, g, i)
  BY KeptDefined
<1>2. Len(order) \in Nat /\ DOMAIN order = 1..Len(order) /\ \A i \in 1..Len(order) : order[i] \in D
  OBVIOUS
<1> DEFINE A == 0..Len(order)
           m == [i \in A |-> i]
           Good(i) == /\ G!Range(g[i]) = {order[j] : j \in 1..i} \cap S
                      /\ \A j, k \in 1..i : j < k /\ order[j] \in S /\ order[k] \in S
                            => G!Before(g[i], order[j], order[k])
           T == {i \in A : Good(i)}
<1>3. ASSUME NEW i \in A, \A x \in A : m[x] < m[i] => x \in T
      PROVE  i \in T
  <2>1. i \in Nat /\ i <= Len(order)
    BY <1>2
  <2>2. CASE i = 0
    <3>1. g[0] = <<>>
      BY <2>2, <1>1, <1>2 DEF KeptTo
    <3> QED
      BY <3>1, <2>2 DEF G!Range
  <2>3. CASE i # 0
    <3>1. i - 1 \in A /\ i \in 1..Len(order) /\ m[i - 1] < m[i]
      BY <2>1, <2>3, <1>2
    <3>2. Good(i - 1)
      BY <3>1, <1>3
    <3>3. /\ \A j \in 1..i : j \in 1..(i - 1) \/ j = i
          /\ \A j \in 1..(i - 1) : j \in 1..i /\ ~(i < j)
          /\ i \in 1..i
      BY <2>1, <2>3
    <3>4. {order[j] : j \in 1..i} = {order[j] : j \in 1..(i - 1)} \cup {order[i]}
      BY <3>3
    <3>5. g[i - 1] \in Seq(D) /\ order[i] \in D
      BY <3>1, <1>2
    <3>6. g[i] = IF order[i] \in S THEN Append(g[i - 1], order[i]) ELSE g[i - 1]
      BY <2>3, <1>1 DEF KeptTo
    <3> HIDE DEF A, m
    <3>7. CASE order[i] \notin S
      <4>1. g[i] = g[i - 1]
        BY <3>6, <3>7
      <4>2. G!Range(g[i]) = {order[j] : j \in 1..i} \cap S
        BY <4>1, <3>2, <3>4, <3>7
      <4>3. ASSUME NEW j \in 1..i, NEW k \in 1..i, j < k, order[j] \in S, order[k] \in S
            PROVE  G!Before(g[i], order[j], order[k])
        BY <4>1, <4>3, <3>2, <3>3, <3>7
      <4> QED
        BY <4>2, <4>3
    <3>8. CASE order[i] \in S
      <4>1. g[i] = Append(g[i - 1], order[i])
        BY <3>6, <3>8
      <4>2. G!Range(g[i]) = G!Range(g[i - 1]) \cup {order[i]}
        BY <4>1, <3>5, AppendRange
      <4>3. G!Range(g[i]) = {order[j] : j \in 1..i} \cap S
        BY <4>2, <3>2, <3>4, <3>8
      <4>4. /\ DOMAIN g[i - 1] = 1..Len(g[i - 1]) /\ DOMAIN g[i] = 1..(Len(g[i - 1]) + 1)
            /\ Len(g[i - 1]) \in Nat /\ g[i][Len(g[i - 1]) + 1] = order[i]
            /\ \A j \in 1..Len(g[i - 1]) : g[i][j] = g[i - 1][j]
        BY <4>1, <3>5
      <4>5. \A j \in DOMAIN g[i - 1] :
              j \in DOMAIN g[i] /\ j < Len(g[i - 1]) + 1 /\ g[i][j] = g[i - 1][j]
        BY <4>4
      <4>6. Len(g[i - 1]) + 1 \in DOMAIN g[i]
        BY <4>4
      <4>7. ASSUME NEW j \in 1..i, NEW k \in 1..i, j < k, order[j] \in S, order[k] \in S
            PROVE  G!Before(g[i], order[j], order[k])
        <5>1. j \in 1..(i - 1)
          BY <4>7, <3>3, <2>1
        <5>2. CASE k \in 1..(i - 1)
          <6>1. G!Before(g[i - 1], order[j], order[k])
            BY <5>1, <5>2, <4>7, <3>2
          <6> QED
            BY <6>1, <4>5 DEF G!Before
        <5>3. CASE k = i
          <6>1. order[j] \in G!Range(g[i - 1])
            BY <5>1, <4>7, <3>2
          <6>2. PICK x \in DOMAIN g[i - 1] : g[i - 1][x] = order[j]
            BY <6>1 DEF G!Range
          <6> QED
            BY <6>2, <5>3, <4>4, <4>5, <4>6 DEF G!Before
        <5> QED
          BY <5>2, <5>3, <3>3
      <4> QED
        BY <4>3, <4>7
    <3> QED
      BY <3>7, <3>8
  <2> QED
    BY <2>2, <2>3
<1>4. m \in [A -> Nat] /\ T \in SUBSET A
  OBVIOUS
<1> HIDE DEF T, A, m
<1>5. T = A
  BY <1>3, <1>4, MeasureInduction
<1>6. Len(order) \in A
  BY <1>2 DEF A
<1>7. Good(Len(order))
  BY <1>5, <1>6 DEF T
<1>8. G!Range(order) = {order[j] : j \in 1..Len(order)}
  BY <1>2 DEF G!Range
<1>9. ASSUME NEW c \in S, NEW d \in S, G!Before(order, c, d)
      PROVE  G!Before(G!Kept(order, S), c, d)
  <2>1. PICK i \in DOMAIN order, j \in DOMAIN order : i < j /\ order[i] = c /\ order[j] = d
    BY <1>9 DEF G!Before
  <2> QED
    BY <2>1, <1>1, <1>2, <1>7
<1> QED
  BY <1>1, <1>7, <1>8, <1>9
-----------------------------------------------------------------------------
(* What an order says of a cell that is behind no cycle.                   *)

LEMMA SortedBefore ==
  ASSUME NEW nb, NEW o, Sorted(nb, o), NEW c \in G!Range(o), c \notin G!Upstream(nb, c),
         NEW d \in G!Deps(nb, c)
  PROVE  G!Before(o, d, c)
<1>1. PICK i \in DOMAIN o : o[i] = c
  BY DEF G!Range
<1>2. PICK j \in DOMAIN o : j < i /\ o[j] = d
  BY <1>1 DEF Sorted
<1> QED
  BY <1>1, <1>2 DEF G!Before

LEMMA BeforeTransitive ==
  ASSUME NEW nb, NEW o, Placed(nb, o), NEW b, NEW c, NEW d, G!Before(o, b, c), G!Before(o, c, d)
  PROVE  G!Before(o, b, d)
<1>1. PICK i \in DOMAIN o, j \in DOMAIN o : i < j /\ o[i] = b /\ o[j] = c
  BY DEF G!Before
<1>2. PICK k \in DOMAIN o, l \in DOMAIN o : k < l /\ o[k] = c /\ o[l] = d
  BY DEF G!Before
<1>3. j = k
  BY <1>1, <1>2 DEF Placed, G!IsInjective
<1>4. DOMAIN o \in SUBSET Nat
  BY DEF Placed
<1>5. i < l
  BY <1>1, <1>2, <1>3, <1>4
<1> QED
  BY <1>1, <1>2, <1>5 DEF G!Before

LEMMA UpstreamBefore ==
  ASSUME NEW nb, IsSheet(nb), NEW o, Placed(nb, o), G!Range(o) = G!RunnableCells(nb),
         NEW c \in G!RunnableCells(nb), \A d \in {c} \cup G!Upstream(nb, c) : d \notin G!Upstream(nb, d)
  PROVE  \A d \in G!Upstream(nb, c) : G!Before(o, d, c)
<1> DEFINE T == {d \in G!Upstream(nb, c) : G!Before(o, d, c)}
<1>1. Sorted(nb, o) /\ G!Upstream(nb, c) \in SUBSET G!RunnableCells(nb)
  BY UpstreamLeast DEF Placed
<1>2. G!Reads(nb, c) \subseteq T
  <2>1. ASSUME NEW d \in G!Reads(nb, c) PROVE d \in T
    <3>1. d \in G!Upstream(nb, c) /\ d # c
      BY UpstreamLeast
    <3>2. d \in G!Deps(nb, c)
      BY <3>1 DEF G!Deps
    <3> QED
      BY <3>1, <3>2, <1>1, SortedBefore
  <2> QED
    BY <2>1
<1>3. ASSUME NEW d \in T, NEW e \in G!Reads(nb, d) PROVE e \in T
  <2>1. e \in G!Upstream(nb, c) /\ e \in G!Upstream(nb, d)
    BY UpstreamLeast
  <2>2. d \in G!RunnableCells(nb) /\ d \notin G!Upstream(nb, d)
    BY <1>1
  <2>3. e \in G!Deps(nb, d)
    BY <2>1, <2>2 DEF G!Deps
  <2>4. G!Before(o, e, d)
    BY <2>2, <2>3, <1>1, SortedBefore
  <2> QED
    BY <2>1, <2>4, BeforeTransitive
<1>4. T \in SUBSET DOMAIN nb
  BY <1>1 DEF G!RunnableCells
<1> HIDE DEF T
<1>5. G!Upstream(nb, c) \subseteq T
  BY <1>2, <1>3, <1>4, UpstreamLeast
<1> QED
  BY <1>5 DEF T

-----------------------------------------------------------------------------
(* What a brush runs.                                                      *)

DependsOnFilter(nb) ==
    {c \in G!RunnableCells(nb) : \E d \in {c} \cup G!Upstream(nb, c) : nb[d].filter}

LEMMA DownstreamLeast ==
  ASSUME NEW nb, IsSheet(nb)
  PROVE  /\ G!Downstream(nb) \in SUBSET DOMAIN nb /\ G!Seeds(nb) \subseteq G!Downstream(nb)
         /\ \A x \in G!Downstream(nb) : G!Dependents(nb, x) \subseteq G!Downstream(nb)
         /\ \A T \in SUBSET DOMAIN nb :
              G!Seeds(nb) \subseteq T /\ (\A x \in T : G!Dependents(nb, x) \subseteq T)
                => G!Downstream(nb) \subseteq T
<1> DEFINE D == DOMAIN nb
           next == [c \in D |-> G!Dependents(nb, c)]
           S == G!Seeds(nb)
<1>1. next \in [D -> SUBSET D] /\ (\A d \in D : next[d] = G!Dependents(nb, d)) /\ S \in SUBSET D
  BY DEF G!Dependents, G!RunnableCells, G!Seeds
<1>2. G!Downstream(nb) = G!Closure(next, S)
  BY DEF G!Downstream
<1> HIDE DEF next, D, S
<1>3. /\ G!Closure(next, S) \in SUBSET D /\ S \subseteq G!Closure(next, S)
      /\ \A x \in G!Closure(next, S) : next[x] \subseteq G!Closure(next, S)
      /\ \A T \in SUBSET D :
           S \subseteq T /\ (\A x \in T : next[x] \subseteq T) => G!Closure(next, S) \subseteq T
  BY <1>1, ClosureLeast
<1> QED
  BY <1>1, <1>2, <1>3 DEF D, S

LEMMA UnrunLeast ==
  ASSUME NEW nb, IsSheet(nb)
  PROVE  /\ G!Downstream(nb) \subseteq G!Unrun(nb)
         /\ \A x \in G!Unrun(nb) : {d \in G!Deps(nb, x) : ~nb[d].ran} \subseteq G!Unrun(nb)
         /\ \A T \in SUBSET DOMAIN nb :
              /\ G!Downstream(nb) \subseteq T
              /\ \A x \in T : {d \in G!Deps(nb, x) : ~nb[d].ran} \subseteq T
              => G!Unrun(nb) \subseteq T
<1> DEFINE D == DOMAIN nb
           next == [c \in D |-> {d \in G!Deps(nb, c) : ~nb[d].ran}]
           S == G!Downstream(nb)
<1>1. S \in SUBSET D /\ \A d \in D : G!Deps(nb, d) \in SUBSET D
  BY DownstreamLeast, ReadsIn DEF G!RunnableCells
<1>2. next \in [D -> SUBSET D] /\ \A d \in D : next[d] = {x \in G!Deps(nb, d) : ~nb[x].ran}
  BY <1>1
<1>3. G!Unrun(nb) = G!Closure(next, S)
  BY DEF G!Unrun
<1> HIDE DEF next, D, S
<1>4. /\ G!Closure(next, S) \in SUBSET D /\ S \subseteq G!Closure(next, S)
      /\ \A x \in G!Closure(next, S) : next[x] \subseteq G!Closure(next, S)
      /\ \A T \in SUBSET D :
           S \subseteq T /\ (\A x \in T : next[x] \subseteq T) => G!Closure(next, S) \subseteq T
  BY <1>1, <1>2, ClosureLeast
<1> QED
  BY <1>2, <1>3, <1>4 DEF D, S

LEMMA DownstreamDepends ==
  ASSUME NEW nb, IsSheet(nb)
  PROVE  G!Downstream(nb) = DependsOnFilter(nb)
<1>1. G!RunnableCells(nb) \in SUBSET DOMAIN nb
  BY DEF G!RunnableCells
<1>2. G!Downstream(nb) \subseteq DependsOnFilter(nb)
  <2>1. G!Seeds(nb) \subseteq DependsOnFilter(nb)
    BY DEF G!Seeds, DependsOnFilter
  <2>2. ASSUME NEW c \in DependsOnFilter(nb), NEW e \in G!Dependents(nb, c)
        PROVE  e \in DependsOnFilter(nb)
    <3>1. PICK d \in {c} \cup G!Upstream(nb, c) : nb[d].filter
      BY DEF DependsOnFilter
    <3>2. c \in G!Reads(nb, e) /\ e \in G!RunnableCells(nb)
      BY DEF G!Dependents, G!Deps
    <3>3. d \in G!Upstream(nb, e)
      BY <3>1, <3>2, UpstreamOfRead
    <3> QED
      BY <3>1, <3>2, <3>3 DEF DependsOnFilter
  <2>3. DependsOnFilter(nb) \in SUBSET DOMAIN nb
    BY <1>1 DEF DependsOnFilter
  <2> QED
    BY <2>1, <2>2, <2>3, DownstreamLeast
<1>3. ASSUME NEW c \in DependsOnFilter(nb) PROVE c \in G!Downstream(nb)
  <2>1. c \in G!RunnableCells(nb)
    BY DEF DependsOnFilter
  <2>2. PICK d \in {c} \cup G!Upstream(nb, c) : nb[d].filter
    BY DEF DependsOnFilter
  <2>3. G!Upstream(nb, c) \in SUBSET G!RunnableCells(nb)
    BY UpstreamLeast
  <2>4. d \in G!Downstream(nb)
    BY <2>1, <2>2, <2>3, DownstreamLeast DEF G!Seeds
  <2> DEFINE T == {x \in G!RunnableCells(nb) : x \in G!Downstream(nb) => c \in G!Downstream(nb)}
  <2>5. G!Reads(nb, c) \subseteq T
    <3>1. ASSUME NEW x \in G!Reads(nb, c), x \in G!Downstream(nb), x # c PROVE c \in G!Downstream(nb)
      <4>1. c \in G!Dependents(nb, x)
        BY <3>1, <2>1 DEF G!Dependents, G!Deps
      <4> QED
        BY <4>1, <3>1, DownstreamLeast
    <3> QED
      BY <3>1, ReadsIn
  <2>6. ASSUME NEW x \in T, NEW y \in G!Reads(nb, x) PROVE y \in T
    <3>1. SUFFICES ASSUME y \in G!Downstream(nb) PROVE c \in G!Downstream(nb)
      BY ReadsIn
    <3>2. CASE y = x
      BY <3>1, <3>2
    <3>3. CASE y # x
      <4>1. x \in G!Dependents(nb, y)
        BY <3>3, <2>6 DEF G!Dependents, G!Deps
      <4> QED
        BY <4>1, <3>1, DownstreamLeast
    <3> QED
      BY <3>2, <3>3
  <2>7. T \in SUBSET DOMAIN nb
    BY <1>1
  <2>8. G!Upstream(nb, c) \subseteq T
    <3> HIDE DEF T
    <3> QED
      BY <2>5, <2>6, <2>7, UpstreamLeast
  <2> QED
    BY <2>2, <2>4, <2>8
<1> QED
  BY <1>2, <1>3

LEMMA UnrunDepends ==
  ASSUME NEW nb, IsSheet(nb), NEW c \in G!Unrun(nb)
  PROVE  c \in DependsOnFilter(nb) \/ ~nb[c].ran
<1> DEFINE T == {x \in DOMAIN nb : x \in DependsOnFilter(nb) \/ ~nb[x].ran}
<1>1. G!Downstream(nb) \subseteq T
  BY DownstreamLeast, DownstreamDepends
<1>2. ASSUME NEW x \in T, NEW d \in G!Deps(nb, x), ~nb[d].ran PROVE d \in T
  BY <1>2, ReadsIn DEF G!RunnableCells
<1>3. T \in SUBSET DOMAIN nb
  OBVIOUS
<1> HIDE DEF T
<1>4. G!Unrun(nb) \subseteq T
  BY <1>1, <1>2, <1>3, UnrunLeast
<1> QED
  BY <1>4 DEF T

-----------------------------------------------------------------------------
(* What the refresh of a report runs.                                      *)

Shown(nb, r) == UNION {G!Root(nb, c) : c \in nb[r].items}

LEMMA ReportCellsRun ==
  ASSUME NEW nb, IsSheet(nb), NEW r
  PROVE  G!RunnableCells(nb) \cap G!ReportCells(nb, r)
            = Shown(nb, r) \cup UNION {G!Upstream(nb, c) : c \in Shown(nb, r)}
<1> DEFINE D == DOMAIN nb
           next == [c \in D |-> IF G!Runnable(nb, c) THEN G!Range(G!Refs(nb, c)) \ {0, c} ELSE {}]
           S == Shown(nb, r)
           X == S \cup UNION {G!Upstream(nb, c) : c \in S}
<1>1. G!RunnableCells(nb) \in SUBSET D
  BY DEF G!RunnableCells
<1>2. S \in SUBSET G!RunnableCells(nb)
  BY DEF Shown, G!Root
<1>3. X \in SUBSET G!RunnableCells(nb)
  BY <1>2, UpstreamLeast
<1>4. \A c : G!Range(G!Refs(nb, c)) \ {0, c} \in SUBSET D
  <2>1. ASSUME NEW c, NEW d \in G!Range(G!Refs(nb, c)), d # 0 PROVE d \in D
    <3>1. PICK i \in DOMAIN nb[c].refs : d = G!CellNamed(nb, nb[c].refs[i])
      BY DEF G!Refs, G!Range
    <3> QED
      BY <3>1, <2>1, NamedIn
  <2> QED
    BY <2>1
<1>5. next \in [D -> SUBSET D]
  BY <1>4
<1>6. G!ReportCells(nb, r) = G!Closure(next, S)
  BY DEF G!ReportCells, Shown
<1>7. \A c \in D : next[c] = IF G!Runnable(nb, c) THEN G!Range(G!Refs(nb, c)) \ {0, c} ELSE {}
  OBVIOUS
<1> HIDE DEF next
<1>8. /\ G!Closure(next, S) \in SUBSET D /\ S \subseteq G!Closure(next, S)
      /\ \A x \in G!Closure(next, S) : next[x] \subseteq G!Closure(next, S)
      /\ \A T \in SUBSET D :
           S \subseteq T /\ (\A x \in T : next[x] \subseteq T) => G!Closure(next, S) \subseteq T
  <2> HIDE DEF D, S
  <2>1. S \in SUBSET D
    BY <1>1, <1>2
  <2> QED
    BY <2>1, <1>5, ClosureLeast
<1>9. G!RunnableCells(nb) \cap G!Closure(next, S) \subseteq X
  <2> DEFINE T == {x \in D : G!Runnable(nb, x) => x \in X}
  <2>1. S \subseteq T
    BY <1>1, <1>2
  <2>2. ASSUME NEW x \in T, NEW y \in next[x] PROVE y \in T
    <3>1. G!Runnable(nb, x) /\ y \in G!Range(G!Refs(nb, x)) \ {0, x} /\ y \in D
      BY <1>5, <1>7, <2>2
    <3>2. SUFFICES ASSUME G!Runnable(nb, y) PROVE y \in X
      BY <3>1
    <3>3. y \in G!Reads(nb, x) /\ x \in X
      BY <3>1, <3>2 DEF G!Reads
    <3>4. CASE x \in S
      <4>1. y \in G!Upstream(nb, x)
        BY <3>3, UpstreamLeast
      <4> QED
        BY <4>1, <3>4
    <3>5. CASE x \notin S
      <4>1. PICK c \in S : x \in G!Upstream(nb, c)
        BY <3>3, <3>5
      <4>2. y \in G!Upstream(nb, c)
        BY <4>1, <3>3, UpstreamLeast
      <4> QED
        BY <4>2
    <3> QED
      BY <3>4, <3>5
  <2>3. T \in SUBSET D
    OBVIOUS
  <2>4. G!Closure(next, S) \subseteq T
    <3> HIDE DEF T, D, S
    <3> QED
      BY <2>1, <2>2, <2>3, <1>8
  <2> QED
    BY <2>4 DEF G!RunnableCells
<1>10. X \subseteq G!Closure(next, S)
  <2>1. ASSUME NEW x \in G!RunnableCells(nb), x \in G!Closure(next, S), NEW y \in G!Reads(nb, x)
        PROVE  y \in G!Closure(next, S)
    <3>1. y = x \/ y \in next[x]
      BY <2>1, <1>7 DEF G!Reads, G!RunnableCells
    <3> QED
      BY <3>1, <2>1, <1>8
  <2>2. ASSUME NEW c \in S PROVE G!Upstream(nb, c) \subseteq G!Closure(next, S)
    <3> DEFINE T == G!RunnableCells(nb) \cap G!Closure(next, S)
    <3>1. c \in T
      BY <1>2, <1>8
    <3>2. \A x \in T : G!Reads(nb, x) \subseteq T
      BY <2>1, ReadsIn
    <3>3. T \in SUBSET DOMAIN nb
      BY <1>1
    <3> HIDE DEF T
    <3>4. G!Upstream(nb, c) \subseteq T
      BY <3>1, <3>2, <3>3, UpstreamLeast
    <3> QED
      BY <3>4 DEF T
  <2> QED
    BY <2>2, <1>8
<1> HIDE DEF S
<1> QED
  BY <1>3, <1>6, <1>9, <1>10 DEF S

-----------------------------------------------------------------------------
(* The statements of the worker, in the order in which they were posted.   *)

LEMMA RangeSame == \A o : Range(o) = G!Range(o) /\ (IsInjective(o) <=> G!IsInjective(o))
BY DEF Range, G!Range, IsInjective, G!IsInjective

LEMMA BeforeAppend ==
  ASSUME NEW D, NEW o \in Seq(D), NEW c \in D
  PROVE  /\ Append(o, c) \in Seq(D) /\ Range(Append(o, c)) = Range(o) \cup {c}
         /\ \A x, y : G!Before(Append(o, c), x, y) <=>
              G!Before(o, x, y) \/ (x \in Range(o) /\ y = c)
         /\ IsInjective(o) /\ c \notin Range(o) => IsInjective(Append(o, c))
<1> DEFINE r == Append(o, c)
<1>1. /\ r \in Seq(D) /\ DOMAIN r = 1..(Len(o) + 1) /\ DOMAIN o = 1..Len(o)
      /\ Len(o) \in Nat /\ r[Len(o) + 1] = c
      /\ \A i \in 1..Len(o) : r[i] = o[i]
  OBVIOUS
<1> HIDE DEF r
<1>2. \A i \in DOMAIN r : i \in DOMAIN o \/ i = Len(o) + 1
  BY <1>1
<1>3. \A i \in DOMAIN o : i \in DOMAIN r /\ i < Len(o) + 1 /\ r[i] = o[i]
  BY <1>1
<1>4. Len(o) + 1 \in DOMAIN r
  BY <1>1
<1>5. Range(r) = Range(o) \cup {c}
  BY <1>1, <1>2, <1>3, <1>4 DEF Range
<1>6. ASSUME NEW x, NEW y
      PROVE  G!Before(r, x, y) <=> G!Before(o, x, y) \/ (x \in Range(o) /\ y = c)
  <2>1. ASSUME G!Before(r, x, y) PROVE G!Before(o, x, y) \/ (x \in Range(o) /\ y = c)
    <3>1. PICK i \in DOMAIN r, j \in DOMAIN r : i < j /\ r[i] = x /\ r[j] = y
      BY <2>1 DEF G!Before
    <3>2. i \in DOMAIN o
      BY <3>1, <1>1, <1>2
    <3>3. CASE j \in DOMAIN o
      BY <3>1, <3>2, <3>3, <1>3 DEF G!Before
    <3>4. CASE j = Len(o) + 1
      BY <3>1, <3>2, <3>4, <1>1, <1>3 DEF Range
    <3> QED
      BY <3>3, <3>4, <1>2
  <2>2. ASSUME G!Before(o, x, y) PROVE G!Before(r, x, y)
    BY <2>2, <1>3 DEF G!Before
  <2>3. ASSUME x \in Range(o), y = c PROVE G!Before(r, x, y)
    <3>1. PICK i \in DOMAIN o : o[i] = x
      BY <2>3 DEF Range
    <3> QED
      BY <3>1, <2>3, <1>1, <1>3, <1>4 DEF G!Before
  <2> QED
    BY <2>1, <2>2, <2>3
<1>7. ASSUME IsInjective(o), c \notin Range(o) PROVE IsInjective(r)
  <2> SUFFICES ASSUME NEW i \in DOMAIN r, NEW j \in DOMAIN r, r[i] = r[j] PROVE i = j
    BY DEF IsInjective
  <2>1. \A x, y \in DOMAIN o : o[x] = o[y] => x = y
    BY <1>7 DEF IsInjective
  <2>2. \A x \in DOMAIN o : o[x] # c
    BY <1>7 DEF Range
  <2> QED
    BY <2>1, <2>2, <1>1, <1>2, <1>3
<1> QED
  BY <1>1, <1>5, <1>6, <1>7 DEF r

LEMMA BeforeTail ==
  ASSUME NEW D, NEW o \in Seq(D), o # <<>>, IsInjective(o)
  PROVE  /\ Head(o) \in D /\ Head(o) \in Range(o) /\ Tail(o) \in Seq(D)
         /\ Range(Tail(o)) = Range(o) \ {Head(o)} /\ IsInjective(Tail(o))
         /\ \A x, y : G!Before(Tail(o), x, y) <=> G!Before(o, x, y) /\ x # Head(o)
         /\ \A x \in Range(o) \ {Head(o)} : G!Before(o, Head(o), x)
         /\ \A x : ~G!Before(o, x, Head(o))
<1> DEFINE t == Tail(o)
<1>1. /\ t \in Seq(D) /\ DOMAIN o = 1..Len(o) /\ Len(o) \in Nat /\ Len(o) # 0
      /\ DOMAIN t = 1..(Len(o) - 1) /\ Head(o) = o[1]
      /\ \A i \in 1..(Len(o) - 1) : t[i] = o[i + 1]
  OBVIOUS
<1> HIDE DEF t
<1>2. 1 \in DOMAIN o /\ Head(o) = o[1] /\ Head(o) \in D
  BY <1>1
<1>3. \A i \in DOMAIN t : i + 1 \in DOMAIN o /\ i + 1 # 1 /\ 1 < i + 1 /\ t[i] = o[i + 1]
  BY <1>1
<1>4. \A i \in DOMAIN o : i # 1 => i - 1 \in DOMAIN t /\ (i - 1) + 1 = i /\ t[i - 1] = o[i] /\ 1 < i
  BY <1>1
<1>5. \A i, j \in DOMAIN o : o[i] = o[j] => i = j
  BY DEF IsInjective
<1>6. Range(t) = Range(o) \ {Head(o)}
  <2>1. ASSUME NEW x \in Range(t) PROVE x \in Range(o) \ {Head(o)}
    <3>1. PICK i \in DOMAIN t : t[i] = x
      BY DEF Range
    <3>2. x = o[i + 1] /\ i + 1 \in DOMAIN o /\ i + 1 # 1
      BY <3>1, <1>3
    <3> QED
      BY <3>2, <1>2, <1>5 DEF Range
  <2>2. ASSUME NEW x \in Range(o), x # Head(o) PROVE x \in Range(t)
    <3>1. PICK i \in DOMAIN o : o[i] = x
      BY DEF Range
    <3>2. i # 1
      BY <3>1, <2>2, <1>2
    <3> QED
      BY <3>1, <3>2, <1>4 DEF Range
  <2> QED
    BY <2>1, <2>2
<1>7. IsInjective(t)
  <2> SUFFICES ASSUME NEW i \in DOMAIN t, NEW j \in DOMAIN t, t[i] = t[j] PROVE i = j
    BY DEF IsInjective
  <2>1. i + 1 = j + 1
    BY <1>3, <1>5
  <2>2. i \in Int /\ j \in Int
    BY <1>1
  <2> QED
    BY <2>1, <2>2
<1>8. ASSUME NEW x, NEW y
      PROVE  G!Before(t, x, y) <=> G!Before(o, x, y) /\ x # Head(o)
  <2>1. ASSUME G!Before(t, x, y) PROVE G!Before(o, x, y) /\ x # Head(o)
    <3>1. PICK i \in DOMAIN t, j \in DOMAIN t : i < j /\ t[i] = x /\ t[j] = y
      BY <2>1 DEF G!Before
    <3>2. i + 1 < j + 1
      BY <3>1, <1>1
    <3>3. x # Head(o)
      BY <3>1, <1>6 DEF Range
    <3> QED
      BY <3>1, <3>2, <3>3, <1>3 DEF G!Before
  <2>2. ASSUME G!Before(o, x, y), x # Head(o) PROVE G!Before(t, x, y)
    <3>1. PICK i \in DOMAIN o, j \in DOMAIN o : i < j /\ o[i] = x /\ o[j] = y
      BY <2>2 DEF G!Before
    <3>2. i # 1 /\ j # 1 /\ i - 1 < j - 1
      BY <3>1, <2>2, <1>1, <1>2
    <3> QED
      BY <3>1, <3>2, <1>4 DEF G!Before
  <2> QED
    BY <2>1, <2>2
<1>9. ASSUME NEW x \in Range(o) \ {Head(o)} PROVE G!Before(o, Head(o), x)
  <2>1. PICK i \in DOMAIN o : o[i] = x
    BY DEF Range
  <2>2. i # 1
    BY <2>1, <1>2
  <2> QED
    BY <2>1, <2>2, <1>2, <1>4 DEF G!Before
<1>10. ASSUME NEW x, G!Before(o, x, Head(o)) PROVE FALSE
  <2>1. PICK i \in DOMAIN o, j \in DOMAIN o : i < j /\ o[i] = x /\ o[j] = Head(o)
    BY <1>10 DEF G!Before
  <2>2. j = 1
    BY <2>1, <1>2, <1>5
  <2> QED
    BY <2>1, <2>2, <1>1
<1>11. Head(o) \in Range(o)
  BY <1>2 DEF Range
<1> QED
  BY <1>1, <1>2, <1>6, <1>7, <1>8, <1>9, <1>10, <1>11 DEF t

LEMMA BeforeStrict ==
  ASSUME NEW D, NEW o \in Seq(D), IsInjective(o), NEW x, NEW y, G!Before(o, x, y)
  PROVE  x \in Range(o) /\ y \in Range(o) /\ x # y /\ ~G!Before(o, y, x)
<1>1. PICK i \in DOMAIN o, j \in DOMAIN o : i < j /\ o[i] = x /\ o[j] = y
  BY DEF G!Before
<1>2. \A a, b \in DOMAIN o : o[a] = o[b] => a = b
  BY DEF IsInjective
<1>3. DOMAIN o \in SUBSET Nat
  OBVIOUS
<1>4. x # y
  BY <1>1, <1>2, <1>3
<1>5. ASSUME G!Before(o, y, x) PROVE FALSE
  <2>1. PICK k \in DOMAIN o, l \in DOMAIN o : k < l /\ o[k] = y /\ o[l] = x
    BY <1>5 DEF G!Before
  <2>2. k = j /\ l = i
    BY <2>1, <1>1, <1>2
  <2> QED
    BY <2>1, <2>2, <1>1, <1>3
<1> QED
  BY <1>1, <1>4, <1>5 DEF Range

-----------------------------------------------------------------------------
(* p holds the jobs that have their answer, q those that wait for it.      *)

OneQueue(p, q) ==
    /\ p \in Seq(Jobs) /\ q \in Seq(Jobs) /\ IsInjective(p) /\ IsInjective(q)
    /\ Range(p) \cap Range(q) = {}

Queued(p, q) == Range(p) \cup Range(q)

Ahead(p, q, i, j) ==
    G!Before(p, i, j) \/ G!Before(q, i, j) \/ (i \in Range(p) /\ j \in Range(q))

LEMMA QueueExecutes ==
  ASSUME NEW p, NEW q, OneQueue(p, q), q # <<>>
  PROVE  /\ OneQueue(Append(p, Head(q)), Tail(q))
         /\ Head(q) \in Jobs /\ Head(q) \in Range(q)
         /\ Range(Append(p, Head(q))) = Range(p) \cup {Head(q)}
         /\ Range(Tail(q)) = Range(q) \ {Head(q)}
         /\ \A x, y : Ahead(Append(p, Head(q)), Tail(q), x, y) <=> Ahead(p, q, x, y)
         /\ \A x \in Range(q) : ~Ahead(p, q, x, Head(q))
<1> DEFINE h == Head(q)
<1>1. /\ h \in Jobs /\ h \in Range(q) /\ Tail(q) \in Seq(Jobs) /\ Range(Tail(q)) = Range(q) \ {h}
      /\ IsInjective(Tail(q))
      /\ \A x, y : G!Before(Tail(q), x, y) <=> G!Before(q, x, y) /\ x # h
      /\ \A x \in Range(q) \ {h} : G!Before(q, h, x)
      /\ \A x : ~G!Before(q, x, h)
  BY BeforeTail DEF OneQueue
<1>2. h \notin Range(p)
  BY <1>1 DEF OneQueue
<1> HIDE DEF h
<1>3. /\ Append(p, h) \in Seq(Jobs) /\ Range(Append(p, h)) = Range(p) \cup {h}
      /\ \A x, y : G!Before(Append(p, h), x, y) <=> G!Before(p, x, y) \/ (x \in Range(p) /\ y = h)
      /\ IsInjective(Append(p, h))
  BY <1>1, <1>2, BeforeAppend DEF OneQueue
<1>4. \A x, y : G!Before(p, x, y) => x \in Range(p) /\ y \in Range(p)
  BY BeforeStrict DEF OneQueue
<1>5. \A x, y : G!Before(q, x, y) => x \in Range(q) /\ y \in Range(q)
  BY BeforeStrict DEF OneQueue
<1>6. OneQueue(Append(p, h), Tail(q))
  BY <1>1, <1>2, <1>3 DEF OneQueue
<1>7. \A x, y : Ahead(Append(p, h), Tail(q), x, y) <=> Ahead(p, q, x, y)
  BY <1>1, <1>2, <1>3, <1>4, <1>5 DEF Ahead
<1>8. \A x \in Range(q) : ~Ahead(p, q, x, h)
  BY <1>1, <1>2, <1>4 DEF Ahead, OneQueue
<1> QED
  BY <1>1, <1>3, <1>6, <1>7, <1>8 DEF h

LEMMA QueueTakes ==
  ASSUME NEW p, NEW q, OneQueue(p, q), p # <<>>
  PROVE  /\ OneQueue(Tail(p), q) /\ Head(p) \in Jobs /\ Head(p) \in Range(p)
         /\ Range(Tail(p)) = Range(p) \ {Head(p)} /\ Head(p) \notin Range(q)
         /\ \A x, y : Ahead(Tail(p), q, x, y) <=> Ahead(p, q, x, y) /\ x # Head(p)
         /\ \A x : ~Ahead(p, q, x, Head(p))
         /\ \A x \in Queued(p, q) \ {Head(p)} : Ahead(p, q, Head(p), x)
<1> DEFINE h == Head(p)
<1>1. /\ h \in Jobs /\ h \in Range(p) /\ Tail(p) \in Seq(Jobs) /\ Range(Tail(p)) = Range(p) \ {h}
      /\ IsInjective(Tail(p))
      /\ \A x, y : G!Before(Tail(p), x, y) <=> G!Before(p, x, y) /\ x # h
      /\ \A x \in Range(p) \ {h} : G!Before(p, h, x)
      /\ \A x : ~G!Before(p, x, h)
  BY BeforeTail DEF OneQueue
<1>2. h \notin Range(q)
  BY <1>1 DEF OneQueue
<1> HIDE DEF h
<1>3. \A x, y : G!Before(q, x, y) => x \in Range(q) /\ y \in Range(q)
  BY BeforeStrict DEF OneQueue
<1>4. OneQueue(Tail(p), q)
  BY <1>1, <1>2 DEF OneQueue
<1>5. \A x, y : Ahead(Tail(p), q, x, y) <=> Ahead(p, q, x, y) /\ x # h
  BY <1>1, <1>2, <1>3 DEF Ahead
<1>6. \A x : ~Ahead(p, q, x, h)
  BY <1>1, <1>2, <1>3 DEF Ahead
<1>7. \A x \in Queued(p, q) \ {h} : Ahead(p, q, h, x)
  BY <1>1 DEF Ahead, Queued
<1> QED
  BY <1>1, <1>2, <1>4, <1>5, <1>6, <1>7 DEF h

LEMMA QueuePosts ==
  ASSUME NEW p, NEW q, OneQueue(p, q), NEW j \in Jobs, j \notin Queued(p, q)
  PROVE  /\ OneQueue(p, Append(q, j)) /\ Range(Append(q, j)) = Range(q) \cup {j}
         /\ \A x, y : Ahead(p, Append(q, j), x, y)
                        <=> Ahead(p, q, x, y) \/ (x \in Queued(p, q) /\ y = j)
<1>1. /\ Append(q, j) \in Seq(Jobs) /\ Range(Append(q, j)) = Range(q) \cup {j}
      /\ \A x, y : G!Before(Append(q, j), x, y) <=> G!Before(q, x, y) \/ (x \in Range(q) /\ y = j)
      /\ IsInjective(Append(q, j))
  BY BeforeAppend DEF OneQueue, Queued
<1>2. OneQueue(p, Append(q, j))
  BY <1>1 DEF OneQueue, Queued
<1>3. \A x, y : Ahead(p, Append(q, j), x, y)
                  <=> Ahead(p, q, x, y) \/ (x \in Queued(p, q) /\ y = j)
  BY <1>1 DEF Ahead, Queued
<1> QED
  BY <1>1, <1>2, <1>3

-----------------------------------------------------------------------------
(* What is kept of an order without repetitions has none either.           *)
LEMMA KeptInjective ==
  ASSUME NEW D, NEW order \in Seq(D), NEW S
  PROVE  /\ G!Kept(order, S) \in Seq(D) /\ Range(G!Kept(order, S)) = Range(order) \cap S
         /\ IsInjective(order) => IsInjective(G!Kept(order, S))
<1>1. PICK g \in [0..Len(order) -> Seq(D)] :
            /\ G!Kept(order, S) = g[Len(order)]
            /\ \A i \in 0..Len(order) : g[i] = KeptTo(order, S, g, i)
  BY KeptDefined
<1>2. Len(order) \in Nat /\ DOMAIN order = 1..Len(order) /\ \A i \in 1..Len(order) : order[i] \in D
  OBVIOUS
<1> DEFINE A == 0..Len(order)
           m == [i \in A |-> i]
           Good(i) == IsInjective(order) =>
                        IsInjective(g[i]) /\ \A x \in Range(g[i]) : \E j \in 1..i : order[j] = x
           T == {i \in A : Good(i)}
<1>3. ASSUME NEW i \in A, \A x \in A : m[x] < m[i] => x \in T
      PROVE  i \in T
  <2>1. i \in Nat /\ i <= Len(order)
    BY <1>2
  <2>2. CASE i = 0
    <3>1. g[0] = <<>>
      BY <2>2, <1>1, <1>2 DEF KeptTo
    <3> QED
      BY <3>1, <2>2 DEF Range, IsInjective
  <2>3. CASE i # 0
    <3>1. i - 1 \in A /\ i \in 1..Len(order) /\ m[i - 1] < m[i]
      BY <2>1, <2>3, <1>2
    <3>2. Good(i - 1)
      BY <3>1, <1>3
    <3>3. /\ \A j \in 1..(i - 1) : j \in 1..i /\ j # i
          /\ i \in 1..i
      BY <2>1, <2>3
    <3>5. g[i - 1] \in Seq(D) /\ order[i] \in D
      BY <3>1, <1>2
    <3>6. g[i] = IF order[i] \in S THEN Append(g[i - 1], order[i]) ELSE g[i - 1]
      BY <2>3, <1>1 DEF KeptTo
    <3>7. SUFFICES ASSUME IsInjective(order)
          PROVE  IsInjective(g[i]) /\ \A x \in Range(g[i]) : \E j \in 1..i : order[j] = x
      OBVIOUS
    <3> HIDE DEF A, m
    <3>8. \A j, k \in DOMAIN order : order[j] = order[k] => j = k
      BY <3>7 DEF IsInjective
    <3>9. order[i] \notin Range(g[i - 1])
      <4> SUFFICES ASSUME order[i] \in Range(g[i - 1]) PROVE FALSE
        OBVIOUS
      <4>1. PICK j \in 1..(i - 1) : order[j] = order[i]
        BY <3>2, <3>7
      <4>2. j \in DOMAIN order /\ i \in DOMAIN order
        BY <1>2, <2>1, <3>1
      <4> QED
        BY <4>1, <4>2, <3>3, <3>8
    <3>10. CASE order[i] \in S
      <4>1. IsInjective(g[i]) /\ Range(g[i]) = Range(g[i - 1]) \cup {order[i]}
        BY <3>10, <3>6, <3>5, <3>9, <3>2, <3>7, BeforeAppend
      <4> QED
        BY <4>1, <3>2, <3>3, <3>7
    <3>11. CASE order[i] \notin S
      BY <3>11, <3>6, <3>2, <3>3, <3>7
    <3> QED
      BY <3>10, <3>11
  <2> QED
    BY <2>2, <2>3
<1>4. m \in [A -> Nat] /\ T \in SUBSET A
  OBVIOUS
<1> HIDE DEF T, A, m
<1>5. T = A
  BY <1>3, <1>4, MeasureInduction
<1>6. Len(order) \in A
  BY <1>2 DEF A
<1>7. Good(Len(order))
  BY <1>5, <1>6 DEF T
<1>8. g[Len(order)] \in Seq(D)
  BY <1>2
<1> QED
  BY <1>1, <1>7, <1>8, KeptOrder, RangeSame

-----------------------------------------------------------------------------
(* What the variables hold.                                                *)

Relations == [table : BOOLEAN, code : Codes \cup {None}, sel : Nat, reads : SUBSET Cells]
RowSets == SUBSET (Cells \X Relations)

Kinds == {"free", "sql", "lang", "drop", "lineage", "leave"}
LangSteps == {"count", "copy", "fetch", "unlink", "load", "buffer", "table", "unfile",
              "preview", "total", "dropView", "dropTable"}
Steps == LangSteps \cup {"none", "create", "direct", "select", "explain", "known"}

JobRecords ==
    [kind : Kinds, cell : Cells \cup {None}, step : Steps, code : Codes \cup {None}, sel : Nat,
     gen : Nat, reads : SUBSET Cells, aborted : BOOLEAN, ok : BOOLEAN, rows : RowSets,
     batch : Batches \cup {0}]
ShownRecords == [code : Codes \cup {None}, sel : Nat, rows : RowSets, snapshot : BOOLEAN]
BatchRecords ==
    [state : {"none", "next", "await", "stopped", "success"}, todo : Seq(Cells),
     order : SUBSET Cells, brush : BOOLEAN, clean : BOOLEAN]

Typed ==
    /\ doc \in Seq(Cells) /\ IsInjective(doc)
    /\ DOMAIN inputs \subseteq Cells /\ inputs \in [DOMAIN inputs -> Cells]
    /\ code \in [Cells -> Codes] /\ sel \in Nat
    /\ status \in [Cells -> {"idle", "running", "success", "error"}]
    /\ shown \in [Cells -> ShownRecords] /\ gen \in [Cells -> Nat]
    /\ aborts \in [Cells -> Jobs \cup {None}] /\ jobs \in [Jobs -> JobRecords]
    /\ rel \in [Cells -> Relations] /\ lineage \in [Cells -> SUBSET Cells]
    /\ batches \in [Batches -> BatchRecords]

Asked(j) == j \in Range(asked)
Answered(j) == j \in Range(answered)
Prior(i, j) == Ahead(answered, asked, i, j)

(* A job that is not free waits for the worker, unless a runtime is loaded *)
(* for it.                                                                 *)
Queues ==
    /\ OneQueue(answered, asked)
    /\ \A j \in Jobs : Asked(j) \/ Answered(j) <=> jobs[j].kind # "free" /\ jobs[j].step # "load"

StepsOf(r) ==
    /\ r.kind = "free" => r.step = "none"
    /\ r.kind = "sql" => /\ r.step \in {"create", "direct", "select"}
                         /\ r.cell \in Cells \ DOMAIN inputs /\ r.code \in Codes
                         /\ r.step = "direct" <=> r.code \in Direct
    /\ r.kind = "lang" => /\ r.step \in LangSteps /\ r.cell \in DOMAIN inputs
                          /\ r.sel = 0 /\ r.code \in Codes
                          /\ r.step \in {"dropView", "dropTable"} => r.aborted
    /\ r.kind = "lineage" => /\ r.step \in {"explain", "known"}
                             /\ r.cell \in Cells \ DOMAIN inputs /\ r.code \in Codes
    /\ r.kind \in {"drop", "leave"} => r.step \in {"dropView", "dropTable"} /\ r.cell \in Cells

Stepped == \A j \in Jobs : StepsOf(jobs[j])

Basic == Typed /\ Queues /\ Stepped

-----------------------------------------------------------------------------
(* What a step does to the jobs and to the queue of the worker.            *)

Alike(r, s) ==
    /\ r.kind = s.kind /\ r.cell = s.cell /\ r.step = s.step /\ r.code = s.code /\ r.sel = s.sel
    /\ r.gen = s.gen /\ r.reads = s.reads /\ r.ok = s.ok /\ r.rows = s.rows /\ r.batch = s.batch

(* The jobs but j are what they were, those of S aborted.                  *)
Others(S, j) ==
    \A i \in Jobs \ {j} :
        /\ Alike(jobs'[i], jobs[i])
        /\ jobs'[i].aborted <=> jobs[i].aborted \/ i \in S

Posts(j) ==
    /\ j \in Jobs /\ ~Asked(j) /\ ~Answered(j)
    /\ OneQueue(answered', asked')
    /\ \A i \in Jobs : (Asked(i)' <=> Asked(i) \/ i = j) /\ (Answered(i)' <=> Answered(i))
    /\ \A x, y \in Jobs :
          Prior(x, y)' <=> Prior(x, y) \/ ((Asked(x) \/ Answered(x)) /\ y = j)

First(j) ==
    /\ j \in Jobs /\ Answered(j) /\ ~Asked(j)
    /\ \A x \in Jobs : ~Prior(x, j)
    /\ \A x \in Jobs \ {j} : Asked(x) \/ Answered(x) => Prior(j, x)

Takes(j) ==
    /\ First(j) /\ OneQueue(answered', asked')
    /\ \A i \in Jobs : (Asked(i)' <=> Asked(i)) /\ (Answered(i)' <=> Answered(i) /\ i # j)
    /\ \A x, y \in Jobs : Prior(x, y)' <=> Prior(x, y) /\ x # j

Reposts(j) ==
    /\ First(j) /\ OneQueue(answered', asked')
    /\ \A i \in Jobs : (Asked(i)' <=> Asked(i) \/ i = j) /\ (Answered(i)' <=> Answered(i) /\ i # j)
    /\ \A x, y \in Jobs :
          Prior(x, y)' <=> x # j /\ (Prior(x, y) \/ ((Asked(x) \/ Answered(x)) /\ y = j))

Executes(j) ==
    /\ j \in Jobs /\ Asked(j) /\ ~Answered(j) /\ OneQueue(answered', asked')
    /\ \A i \in Jobs : (Asked(i)' <=> Asked(i) /\ i # j) /\ (Answered(i)' <=> Answered(i) \/ i = j)
    /\ \A x, y \in Jobs : Prior(x, y)' <=> Prior(x, y)
    /\ \A x \in Jobs : Asked(x) => ~Prior(x, j)

Stays ==
    /\ OneQueue(answered', asked')
    /\ \A i \in Jobs : (Asked(i)' <=> Asked(i)) /\ (Answered(i)' <=> Answered(i))
    /\ \A x, y \in Jobs : Prior(x, y)' <=> Prior(x, y)

LEMMA PostsWhen ==
  ASSUME Queues, NEW j \in Jobs, ~Asked(j), ~Answered(j),
         answered' = answered, asked' = Append(asked, j)
  PROVE  Posts(j)
BY QueuePosts DEF Queues, Posts, Asked, Answered, Prior, Queued

LEMMA FirstWhen ==
  ASSUME Queues, answered # <<>>
  PROVE  First(Head(answered))
BY QueueTakes DEF Queues, First, Asked, Answered, Prior, Queued

LEMMA TakesWhen ==
  ASSUME Queues, answered # <<>>, answered' = Tail(answered), asked' = asked
  PROVE  Takes(Head(answered))
<1> DEFINE j == Head(answered)
           t == Tail(answered)
<1>1. First(j)
  BY FirstWhen
<1>2. /\ OneQueue(t, asked) /\ Range(t) = Range(answered) \ {j}
      /\ \A x, y : Ahead(t, asked, x, y) <=> Ahead(answered, asked, x, y) /\ x # j
  BY QueueTakes DEF Queues
<1>3. answered' = t /\ asked' = asked
  OBVIOUS
<1> HIDE DEF j, t
<1>4. Takes(j)
  BY <1>1, <1>2, <1>3 DEF Takes, Asked, Answered, Prior
<1> QED
  BY <1>4 DEF j

LEMMA RepostsWhen ==
  ASSUME Queues, answered # <<>>, answered' = Tail(answered),
         asked' = Append(asked, Head(answered))
  PROVE  Reposts(Head(answered))
<1> DEFINE j == Head(answered)
           t == Tail(answered)
<1>1. First(j) /\ j \in Jobs
  BY FirstWhen DEF First
<1>2. /\ OneQueue(t, asked) /\ Range(t) = Range(answered) \ {j} /\ j \notin Range(asked)
      /\ \A x, y : Ahead(t, asked, x, y) <=> Ahead(answered, asked, x, y) /\ x # j
  BY QueueTakes DEF Queues
<1> HIDE DEF j, t
<1>3. j \notin Queued(t, asked)
  BY <1>2 DEF Queued
<1>4. /\ OneQueue(t, Append(asked, j)) /\ Range(Append(asked, j)) = Range(asked) \cup {j}
      /\ \A x, y : Ahead(t, Append(asked, j), x, y)
                     <=> Ahead(t, asked, x, y) \/ (x \in Queued(t, asked) /\ y = j)
  BY <1>1, <1>2, <1>3, QueuePosts
<1>5. answered' = t /\ asked' = Append(asked, j)
  BY DEF j, t
<1>6. \A x, y : Ahead(t, Append(asked, j), x, y)
                 <=> (Ahead(answered, asked, x, y) /\ x # j)
                        \/ (x \in (Range(answered) \ {j}) \cup Range(asked) /\ y = j)
  BY <1>2, <1>4 DEF Queued
<1>7. \A i \in Jobs : (Asked(i)' <=> Asked(i) \/ i = j) /\ (Answered(i)' <=> Answered(i) /\ i # j)
  BY <1>2, <1>4, <1>5 DEF Asked, Answered
<1>8. \A x, y : Prior(x, y)' <=> Ahead(t, Append(asked, j), x, y)
  BY <1>5 DEF Prior
<1>9. \A x, y \in Jobs :
          Prior(x, y)' <=> x # j /\ (Prior(x, y) \/ ((Asked(x) \/ Answered(x)) /\ y = j))
  BY <1>2, <1>6, <1>8 DEF Asked, Answered, Prior
<1>10. OneQueue(answered', asked')
  BY <1>4, <1>5
<1>11. Reposts(j)
  BY <1>1, <1>7, <1>9, <1>10 DEF Reposts
<1> QED
  BY <1>11 DEF j

LEMMA ExecutesWhen ==
  ASSUME Queues, asked # <<>>, asked' = Tail(asked), answered' = Append(answered, Head(asked))
  PROVE  Executes(Head(asked))
BY QueueExecutes DEF Queues, Executes, Asked, Answered, Prior, OneQueue

LEMMA StaysWhen ==
  ASSUME Queues, answered' = answered, asked' = asked
  PROVE  Stays
BY DEF Queues, Stays, Asked, Answered, Prior

-----------------------------------------------------------------------------
(* The steps, by what they do to jobs, relations and cells.                *)

(* Only the user and the batches act here, and not while leaving.          *)
Apt == Settled => ~Leaving

Still ==
    Stays /\ UNCHANGED <<doc, inputs, status, shown, gen, aborts, jobs, rel, lineage>>

Idle == Still /\ UNCHANGED batches

Quiet == Apt /\ Still

Refuses(c) ==
    /\ Apt /\ Stays /\ Listed(c) /\ c \in Cells \ DOMAIN inputs
    /\ status' = [status EXCEPT ![c] = "error"] /\ shown' = [shown EXCEPT ![c] = NoRows]
    /\ UNCHANGED <<doc, inputs, gen, aborts, jobs, rel, lineage>>

Gives(c) ==
    /\ Apt /\ Stays /\ Listed(c) /\ c \in Cells \ DOMAIN inputs
    /\ Others(Controllers(c), None)
    /\ gen' = [gen EXCEPT ![c] = @ + 1] /\ aborts' = [aborts EXCEPT ![c] = None]
    /\ status' = [status EXCEPT ![c] = "error"] /\ shown' = [shown EXCEPT ![c] = NoRows]
    /\ UNCHANGED <<doc, inputs, rel, lineage>>

Starts(c, j) ==
    /\ Apt /\ Listed(c) /\ c \in Cells
    /\ jobs[j].kind = "free" /\ Posts(j) /\ Others(Controllers(c), j)
    /\ jobs'[j].kind = IF c \in DOMAIN inputs THEN "lang" ELSE "sql"
    /\ jobs'[j].step = IF c \in DOMAIN inputs THEN "count"
                       ELSE IF code[c] \in Direct THEN "direct" ELSE "create"
    /\ jobs'[j].cell = c /\ jobs'[j].code = code[c] /\ jobs'[j].gen = gen[c] + 1
    /\ jobs'[j].sel = IF c \in DOMAIN inputs THEN 0 ELSE Selected(code[c])
    /\ jobs'[j].reads = IF c \in DOMAIN inputs THEN {} ELSE Resolved(code[c])
    /\ jobs'[j].rows = {} /\ ~jobs'[j].aborted
    /\ gen' = [gen EXCEPT ![c] = @ + 1] /\ aborts' = [aborts EXCEPT ![c] = j]
    /\ status' = [status EXCEPT ![c] = "running"]
    /\ UNCHANGED <<doc, inputs, shown, rel, lineage>>

Escapes(S) ==
    /\ Apt /\ Settled /\ Stays /\ Others(S, None)
    /\ S \in SUBSET {aborts[c] : c \in Cells} /\ S \in SUBSET Jobs
    /\ status' = Silenced(S)
    /\ UNCHANGED <<doc, inputs, shown, gen, aborts, rel, lineage>>

Deletes(c, j) ==
    /\ Apt /\ Settled /\ Listed(c) /\ c \in Cells
    /\ jobs[j].kind = "free" /\ Posts(j) /\ Others(Controllers(c), j)
    /\ jobs'[j].kind = "drop" /\ jobs'[j].step = "dropView" /\ jobs'[j].cell = c
    /\ gen' = [gen EXCEPT ![c] = @ + 1] /\ aborts' = [aborts EXCEPT ![c] = None]
    /\ lineage' = [lineage EXCEPT ![c] = {}]
    /\ Range(doc') = Range(doc) \ {c}
    /\ UNCHANGED <<inputs, status, shown, rel>>

Leaves(j) ==
    /\ Apt /\ Settled /\ Settled' /\ 1 \in DOMAIN doc
    /\ LET S == UNION {Controllers(c) : c \in Cells}
       IN  /\ jobs[j].kind = "free" /\ Posts(j) /\ Others(S, j)
           /\ status' = Silenced(S)
    /\ jobs'[j].kind = "leave" /\ jobs'[j].step = "dropView" /\ jobs'[j].cell = doc[1]
    /\ gen' = [c \in Cells |-> IF aborts[c] = None THEN gen[c] ELSE gen[c] + 1]
    /\ aborts' = [c \in Cells |-> None]
    /\ UNCHANGED <<doc, inputs, shown, rel, lineage>>

(* The relation of the cell of job r once its statement has run.           *)
Effect(r, ok) ==
    CASE r.step = "create" /\ ok -> [table |-> FALSE, code |-> r.code, sel |-> r.sel,
                                     reads |-> r.reads]
      [] r.step = "table" /\ ok -> [table |-> TRUE, code |-> r.code, sel |-> 0, reads |-> {}]
      [] r.step = "dropView" /\ ~rel[r.cell].table -> NoRelation
      [] r.step = "dropTable" /\ rel[r.cell].table -> NoRelation
      [] OTHER -> rel[r.cell]

Ran(j) ==
    /\ Executes(j) /\ Others({}, j)
    /\ LET r == jobs[j]
           s == jobs'[j]
       IN  /\ s.kind = r.kind /\ s.cell = r.cell /\ s.step = r.step /\ s.code = r.code
           /\ s.sel = r.sel /\ s.gen = r.gen /\ s.reads = r.reads /\ s.aborted = r.aborted
           /\ s.batch = r.batch
           /\ s.ok => Can(j)
           /\ s.rows = IF ~s.ok THEN r.rows
                       ELSE IF r.step = "select" THEN Rows({r.cell})
                       ELSE IF r.step = "copy" THEN Rows({inputs[r.cell]}) ELSE r.rows
           /\ r.cell \in Cells /\ rel' = [rel EXCEPT ![r.cell] = Effect(r, s.ok)]
    /\ UNCHANGED <<doc, inputs, status, shown, gen, aborts, lineage, batches>>

(* The job asks for its next statement.                                    *)
Advances(j, step) ==
    /\ Others({}, j)
    /\ LET r == jobs[j]
           s == jobs'[j]
       IN  /\ s.step = step
           /\ s.kind = r.kind /\ s.cell = r.cell /\ s.code = r.code /\ s.sel = r.sel
           /\ s.gen = r.gen /\ s.reads = r.reads /\ s.aborted = r.aborted /\ s.ok = r.ok
           /\ s.rows = r.rows /\ s.batch = r.batch
    /\ UNCHANGED <<doc, inputs, status, shown, gen, aborts, rel, lineage, batches>>

Selects(j) ==
    /\ jobs[j].kind = "sql" /\ jobs[j].step = "create" /\ jobs[j].ok /\ ~jobs[j].aborted
    /\ Reposts(j) /\ Advances(j, "select")

Follows(j, step) ==
    /\ jobs[j].kind = "lang" /\ Reposts(j) /\ Advances(j, step)
    /\ \/ jobs[j].step = "unfile" /\ jobs[j].aborted /\ step = "dropView"
       \/ jobs[j].step = "dropView" /\ step = "dropTable"
       \/ /\ jobs[j].step \in {"count", "copy", "fetch", "buffer", "table", "unfile", "preview"}
          /\ jobs[j].step = "unfile" => ~jobs[j].aborted
          /\ jobs[j].ok /\ step = After[jobs[j].step]

Loads(j) ==
    /\ jobs[j].kind = "lang" /\ jobs[j].step = "unlink"
    /\ Takes(j) /\ Advances(j, "load")

Buffers(j) ==
    /\ jobs[j].kind = "lang" /\ jobs[j].step = "load" /\ ~jobs[j].aborted
    /\ Posts(j) /\ Advances(j, "buffer")

Drops(j) ==
    /\ jobs[j].kind \in {"drop", "leave"} /\ jobs[j].step = "dropView"
    /\ Reposts(j) /\ Advances(j, "dropTable")

Asks(j) ==
    /\ jobs[j].kind = "lineage" /\ jobs[j].step = "explain"
    /\ Reposts(j) /\ Advances(j, "known")

(* Leaving goes on to the next cell.                                       *)
Proceeds(j) ==
    /\ jobs[j].kind = "leave" /\ jobs[j].step = "dropTable"
    /\ Place(jobs[j].cell) < Len(doc)
    /\ Reposts(j) /\ Others({}, j)
    /\ jobs'[j].kind = "leave" /\ jobs'[j].step = "dropView"
    /\ jobs'[j].cell = doc[Place(jobs[j].cell) + 1]
    /\ UNCHANGED <<doc, inputs, status, shown, gen, aborts, rel, lineage, batches>>

Frees(j) == j \in Jobs /\ Others({}, j) /\ jobs'[j] = Free

Dropped(j) ==
    /\ jobs[j].kind = "drop" /\ jobs[j].step = "dropTable"
    /\ Takes(j) /\ Frees(j)
    /\ UNCHANGED <<doc, inputs, status, shown, gen, aborts, rel, lineage, batches>>

Recorded(j) ==
    /\ jobs[j].kind = "lineage" /\ jobs[j].step = "known"
    /\ Takes(j) /\ Frees(j)
    /\ lineage' = [lineage EXCEPT ![jobs[j].cell] = Names(jobs[j].code) \cap Range(doc)]
    /\ UNCHANGED <<doc, inputs, status, shown, gen, aborts, rel, batches>>

Departs(j) ==
    /\ jobs[j].kind = "leave" /\ jobs[j].step = "dropTable"
    /\ Place(jobs[j].cell) = Len(doc)
    /\ Takes(j) /\ Frees(j)
    /\ doc' = <<>> /\ lineage' = [c \in Cells |-> {}]
    /\ UNCHANGED <<inputs, status, shown, gen, aborts, rel, batches>>

Fails(j) ==
    /\ jobs[j].kind = "sql" /\ (~jobs[j].ok \/ jobs[j].aborted)
    /\ Takes(j) /\ Frees(j) /\ aborts' = Cleared(j)
    /\ Settled => Settled'
    /\ status' = IF IsLatest(j) THEN [status EXCEPT ![jobs[j].cell] = "error"] ELSE status
    /\ shown' = IF IsLatest(j) THEN [shown EXCEPT ![jobs[j].cell] = NoRows] ELSE shown
    /\ UNCHANGED <<doc, inputs, gen, rel, lineage>>

Succeeds(j) ==
    /\ jobs[j].kind = "sql" /\ jobs[j].ok /\ ~jobs[j].aborted /\ aborts' = Cleared(j)
    /\ Others({}, j)
    /\ \/ jobs[j].step = "direct" /\ Takes(j) /\ Frees(j)
       \/ /\ jobs[j].step = "select" /\ Reposts(j)
          /\ jobs'[j].kind = "lineage" /\ jobs'[j].step = "explain"
          /\ jobs'[j].cell = jobs[j].cell /\ jobs'[j].code = jobs[j].code
    /\ status' = IF IsLatest(j) THEN [status EXCEPT ![jobs[j].cell] = "success"] ELSE status
    /\ shown' = IF IsLatest(j) THEN [shown EXCEPT ![jobs[j].cell] = Result(j)] ELSE shown
    /\ UNCHANGED <<doc, inputs, gen, rel, lineage>>

Finishes(j, outcome) ==
    /\ jobs[j].kind = "lang" /\ outcome \in {"success", "error"}
    /\ outcome = "success" =>
         /\ jobs[j].ok
         /\ jobs[j].step = "total" \/ jobs[j].aborted
    /\ Takes(j) \/ (jobs[j].step = "load" /\ Stays)
    /\ Frees(j) /\ aborts' = Cleared(j)
    /\ LET heard == IsLatest(j) /\ ~jobs[j].aborted
       IN  /\ status' = IF heard THEN [status EXCEPT ![jobs[j].cell] = outcome] ELSE status
           /\ shown' = IF heard /\ outcome = "success"
                       THEN [shown EXCEPT ![jobs[j].cell] = Result(j)] ELSE shown
    /\ UNCHANGED <<doc, inputs, gen, rel, lineage, batches>>

(* Every step is one of these.                                             *)
UserSteps ==
    \/ Idle \/ Quiet
    \/ \E c \in Cells : Refuses(c) \/ Gives(c)
    \/ \E c \in Cells, j \in Jobs : Starts(c, j) \/ Deletes(c, j)
    \/ \E S \in SUBSET Jobs : Escapes(S)
    \/ \E j \in Jobs : Leaves(j)

JobSteps(j) ==
    \/ Ran(j) \/ Selects(j) \/ (\E s \in LangSteps : Follows(j, s)) \/ Loads(j) \/ Buffers(j)
    \/ Drops(j) \/ Asks(j) \/ Proceeds(j) \/ Dropped(j) \/ Recorded(j) \/ Departs(j)
    \/ Fails(j) \/ Succeeds(j) \/ (\E o \in {"success", "error"} : Finishes(j, o))

-----------------------------------------------------------------------------
(* The records that a step writes.                                         *)

LEMMA RecordsAre ==
  /\ Free \in JobRecords /\ NoRelation \in Relations /\ NoRows \in ShownRecords
  /\ \A j \in Jobs : j \in Nat /\ j # None
  /\ None \notin Cells /\ None \notin Codes
BY BoundsAssumption DEF Free, NoRelation, NoRows, JobRecords, Relations, ShownRecords, Kinds, Steps,
   LangSteps, RowSets, Batches, Jobs

LEMMA FreeJobIs ==
  ASSUME HasFreeJob
  PROVE  FreeJob \in Jobs /\ jobs[FreeJob].kind = "free"
<1> DEFINE D == {j \in Jobs : jobs[j].kind = "free"}
<1>1. D \in SUBSET Nat /\ D # {}
  BY RecordsAre DEF HasFreeJob
<1>2. PICK j \in D : \A i \in D : j <= i
  BY <1>1, LeastNatural
<1>3. \A i \in 1..(j - 1) : i \in Jobs /\ ~(j <= i)
  BY BoundsAssumption DEF Jobs
<1>4. \E i \in Jobs : jobs[i].kind = "free" /\ \A x \in 1..(i - 1) : jobs[x].kind # "free"
  BY <1>2, <1>3
<1> QED
  BY <1>4 DEF FreeJob

LEMMA AbortedFields ==
  ASSUME Typed, NEW S
  PROVE  /\ Aborted(jobs, S) \in [Jobs -> JobRecords]
         /\ \A i \in Jobs : /\ Alike(Aborted(jobs, S)[i], jobs[i])
                            /\ Aborted(jobs, S)[i].aborted <=> jobs[i].aborted \/ i \in S
<1>1. ASSUME NEW i \in Jobs
      PROVE  /\ [jobs[i] EXCEPT !.aborted = TRUE] \in JobRecords
             /\ Alike([jobs[i] EXCEPT !.aborted = TRUE], jobs[i])
             /\ [jobs[i] EXCEPT !.aborted = TRUE].aborted
  BY DEF Typed, JobRecords, Alike
<1>2. \A i \in Jobs : jobs[i] \in JobRecords /\ Alike(jobs[i], jobs[i])
  BY DEF Typed, Alike
<1>3. /\ Aborted(jobs, S) = [i \in Jobs |-> IF i \in S THEN [jobs[i] EXCEPT !.aborted = TRUE] ELSE jobs[i]]
  BY DEF Aborted
<1>4. \A i \in Jobs : jobs[i].aborted \in BOOLEAN
  BY DEF Typed, JobRecords
<1> QED
  BY <1>1, <1>2, <1>3, <1>4

LEMMA NewJob ==
  ASSUME Typed, HasFreeJob, NEW S, NEW r \in JobRecords,
         jobs' = [Aborted(jobs, S) EXCEPT ![FreeJob] = r]
  PROVE  jobs' \in [Jobs -> JobRecords] /\ jobs'[FreeJob] = r /\ Others(S, FreeJob)
BY AbortedFields, FreeJobIs DEF Others

LEMMA AbortsOnly ==
  ASSUME Typed, NEW S, jobs' = Aborted(jobs, S)
  PROVE  jobs' \in [Jobs -> JobRecords] /\ Others(S, None)
BY AbortedFields DEF Others

LEMMA SetJob ==
  ASSUME Typed, NEW j \in Jobs, NEW r \in JobRecords, jobs' = [jobs EXCEPT ![j] = r]
  PROVE  jobs' \in [Jobs -> JobRecords] /\ jobs'[j] = r /\ Others({}, j)
BY DEF Typed, Others, Alike, JobRecords

LEMMA SetStep ==
  ASSUME Typed, NEW j \in Jobs, NEW step \in Steps, jobs' = [jobs EXCEPT ![j].step = step],
         UNCHANGED <<screen, gen, aborts, rel, lineage, batches>>
  PROVE  jobs' \in [Jobs -> JobRecords] /\ Advances(j, step)
<1>1. jobs[j] \in JobRecords
  BY DEF Typed
<1>2. jobs' = [jobs EXCEPT ![j] = [jobs[j] EXCEPT !.step = step]]
  OBVIOUS
<1> DEFINE r == [jobs[j] EXCEPT !.step = step]
<1>3. /\ r \in JobRecords /\ r.step = step
      /\ r.kind = jobs[j].kind /\ r.cell = jobs[j].cell /\ r.code = jobs[j].code
      /\ r.sel = jobs[j].sel /\ r.gen = jobs[j].gen /\ r.reads = jobs[j].reads
      /\ r.aborted = jobs[j].aborted /\ r.ok = jobs[j].ok /\ r.rows = jobs[j].rows
      /\ r.batch = jobs[j].batch
  BY <1>1 DEF JobRecords
<1> HIDE DEF r
<1>4. jobs' \in [Jobs -> JobRecords] /\ jobs'[j] = r /\ Others({}, j)
  BY <1>2, <1>3, SetJob DEF r
<1> QED
  BY <1>3, <1>4 DEF Advances, screen

-----------------------------------------------------------------------------
(* Batches, rows and the selection.                                        *)

LEMMA OutcomeTyped ==
  ASSUME NEW bs \in [Batches -> BatchRecords], NEW b \in Batches \cup {0}, NEW success
  PROVE  /\ Outcome(bs, b, success) \in [Batches -> BatchRecords]
         /\ \A x \in Batches :
              LET s == Outcome(bs, b, success)[x]
              IN  /\ s.todo = bs[x].todo /\ s.order = bs[x].order /\ s.brush = bs[x].brush
                  /\ s.clean = bs[x].clean
                  /\ s.state = IF x = b /\ bs[x].state = "await"
                               THEN IF success THEN "next" ELSE "stopped" ELSE bs[x].state
<1>1. \A s \in {"next", "stopped"}, x \in Batches :
        LET r == [bs[x] EXCEPT !.state = s]
        IN  /\ r \in BatchRecords /\ r.state = s /\ r.todo = bs[x].todo /\ r.order = bs[x].order
            /\ r.brush = bs[x].brush /\ r.clean = bs[x].clean
  BY DEF BatchRecords
<1>2. 0 \notin Batches
  BY DEF Batches
<1>3. CASE b = 0 \/ bs[b].state # "await"
  BY <1>2, <1>3 DEF Outcome
<1>4. CASE b # 0 /\ bs[b].state = "await"
  <2> DEFINE s == IF success THEN "next" ELSE "stopped"
  <2>1. Outcome(bs, b, success) = [bs EXCEPT ![b] = [bs[b] EXCEPT !.state = s]]
    BY <1>4 DEF Outcome
  <2>2. s \in {"next", "stopped"} /\ b \in Batches
    BY <1>4
  <2>3. s = IF success THEN "next" ELSE "stopped"
    OBVIOUS
  <2> HIDE DEF s
  <2> QED
    BY <2>1, <2>2, <2>3, <1>1, <1>4
<1> QED
  BY <1>3, <1>4

LEMMA SoiledTyped ==
  ASSUME Typed
  PROVE  /\ Soiled \in [Batches -> BatchRecords]
         /\ \A b \in Batches :
              /\ Soiled[b].state = batches[b].state /\ Soiled[b].todo = batches[b].todo
              /\ Soiled[b].order = batches[b].order /\ Soiled[b].brush = batches[b].brush
              /\ ~Soiled[b].clean
<1>1. \A b \in Batches :
        LET r == [batches[b] EXCEPT !.clean = FALSE]
        IN  /\ r \in BatchRecords /\ r.state = batches[b].state /\ r.todo = batches[b].todo
            /\ r.order = batches[b].order /\ r.brush = batches[b].brush /\ ~r.clean
  BY DEF Typed, BatchRecords
<1> QED
  BY <1>1 DEF Soiled

LEMMA NextTyped ==
  ASSUME Typed, NEW b \in Batches, batches[b].todo # <<>>
  PROVE  LET bs == [batches EXCEPT ![b].todo = Tail(@), ![b].state = "await"]
         IN  /\ bs \in [Batches -> BatchRecords] /\ Head(batches[b].todo) \in Cells
             /\ \A x \in Batches :
                  /\ bs[x].order = batches[x].order
                  /\ bs[x].brush = batches[x].brush /\ bs[x].clean = batches[x].clean
                  /\ bs[x].state = IF x = b THEN "await" ELSE batches[x].state
                  /\ bs[x].todo = IF x = b THEN Tail(batches[x].todo) ELSE batches[x].todo
<1> DEFINE r == [[batches[b] EXCEPT !.todo = Tail(batches[b].todo)] EXCEPT !.state = "await"]
           bs == [batches EXCEPT ![b].todo = Tail(@), ![b].state = "await"]
<1>1. batches[b].todo \in Seq(Cells) /\ batches \in [Batches -> BatchRecords]
      /\ batches[b] \in BatchRecords
  BY DEF Typed, BatchRecords
<1>2. Tail(batches[b].todo) \in Seq(Cells) /\ Head(batches[b].todo) \in Cells
  BY <1>1
<1>3. bs = [batches EXCEPT ![b] = r]
  BY <1>1
<1>4. /\ r \in BatchRecords /\ r.state = "await" /\ r.todo = Tail(batches[b].todo)
      /\ r.order = batches[b].order /\ r.brush = batches[b].brush /\ r.clean = batches[b].clean
  BY <1>1, <1>2 DEF BatchRecords
<1> HIDE DEF r
<1> QED
  BY <1>1, <1>2, <1>3, <1>4

LEMMA SheetOfDoc ==
  ASSUME Typed
  PROVE  IsSheet(Notebook) /\ DOMAIN Notebook = DOMAIN doc /\ DOMAIN doc = 1..Len(doc)
<1>1. DOMAIN doc = 1..Len(doc) /\ Len(doc) \in Nat
  BY DEF Typed
<1> QED
  BY <1>1 DEF IsSheet, Notebook

LEMMA NamedTyped ==
  ASSUME Typed, NEW order \in Seq(DOMAIN doc)
  PROVE  /\ Named(order) \in Seq(Cells) /\ Len(Named(order)) = Len(order)
         /\ \A i \in DOMAIN order : Named(order)[i] = doc[order[i]]
<1>1. \A i \in DOMAIN doc : doc[i] \in Cells
  BY DEF Typed
<1>2. \A i \in 1..Len(order) : doc[order[i]] \in Cells
  BY <1>1
<1> QED
  BY <1>2 DEF Named

LEMMA StartTyped ==
  ASSUME NEW bs \in [Batches -> BatchRecords], NEW order \in Seq(Cells), NEW brush \in BOOLEAN,
         StartBatch(order, brush, bs)
  PROVE  \E b \in Batches :
           /\ batches[b].state \in {"none", "stopped", "success"}
           /\ batches' = [bs EXCEPT ![b] =
                [state |-> "next", todo |-> G!Kept(order, {c \in Cells : code[c] \notin Empty}),
                 order |-> {c \in Range(order) : code[c] \notin Empty},
                 brush |-> brush, clean |-> TRUE]]
           /\ batches' \in [Batches -> BatchRecords]
<1>1. FreeBatches \in SUBSET Nat /\ FreeBatches # {} /\ FreeBatches \in SUBSET Batches
  BY DEF StartBatch, FreeBatches, Batches
<1> DEFINE b == CHOOSE x \in FreeBatches : \A y \in FreeBatches : x <= y
<1>2. b \in FreeBatches
  BY <1>1, LeastNatural
<1>3. b \in Batches /\ batches[b].state \in {"none", "stopped", "success"}
  BY <1>2 DEF FreeBatches
<1>4. batches' = [bs EXCEPT ![b] =
                [state |-> "next", todo |-> G!Kept(order, {c \in Cells : code[c] \notin Empty}),
                 order |-> {c \in Range(order) : code[c] \notin Empty},
                 brush |-> brush, clean |-> TRUE]]
  BY DEF StartBatch
<1>5. G!Kept(order, {c \in Cells : code[c] \notin Empty}) \in Seq(Cells)
  BY KeptInjective
<1>6. Range(order) \in SUBSET Cells
  BY DEF Range
<1> HIDE DEF b
<1> QED
  BY <1>3, <1>4, <1>5, <1>6 DEF BatchRecords

LEMMA RowsTyped ==
  ASSUME Typed, NEW S \in SUBSET Cells
  PROVE  Reached(S) \in SUBSET Cells /\ Rows(S) \in RowSets
<1>1. [d \in Cells |-> rel[d].reads] \in [Cells -> SUBSET Cells]
  BY DEF Typed, Relations
<1>2. Reached(S) \in SUBSET Cells
  BY <1>1, ClosureLeast DEF Reached
<1>3. \A d \in Cells : rel[d] \in Relations
  BY DEF Typed
<1> QED
  BY <1>2, <1>3 DEF Rows, RowSets

LEMMA SelectedTyped ==
  ASSUME Typed, NEW c \in Cells
  PROVE  Selected(code[c]) \in Nat /\ Resolved(code[c]) \in SUBSET Cells /\ code[c] \in Codes
<1>1. code[c] \in Codes
  BY DEF Typed
<1>2. RefsOf[code[c]] \in Seq(Cells)
  BY <1>1, CodesAssumption
<1>3. Range(RefsOf[code[c]]) \in SUBSET Cells
  BY <1>2 DEF Range
<1> QED
  BY <1>1, <1>3 DEF Selected, Resolved, Names, Typed

-----------------------------------------------------------------------------
(* What the user and the batches do.                                       *)

LEMMA RunCellStep ==
  ASSUME Basic, Apt, NEW c \in Cells, NEW b \in Batches \cup {0},
         NEW bs \in [Batches -> BatchRecords], RunCell(c, b, bs)
  PROVE  Typed' /\ (Quiet \/ Refuses(c) \/ Gives(c) \/ \E j \in Jobs : Starts(c, j))
<1>1. Typed /\ Queues /\ Stepped
  BY DEF Basic
<1> USE <1>1
<1>2. /\ \A s : Outcome(bs, b, s) \in [Batches -> BatchRecords]
      /\ NoRows \in ShownRecords
  BY OutcomeTyped, RecordsAre
<1>3. CASE NotRunnable(c, b, bs)
  <2>1. Stays
    BY <1>3, StaysWhen DEF NotRunnable, worker
  <2>2. Quiet
    BY <1>3, <2>1 DEF NotRunnable, Quiet, Still, screen, worker
  <2>3. Typed'
    BY <1>3, <1>2 DEF NotRunnable, Typed, screen, worker
  <2> QED
    BY <2>2, <2>3
<1>4. CASE Refused(c, b, bs)
  <2>1. Stays
    BY <1>4, StaysWhen DEF Refused, worker
  <2>2. Refuses(c)
    BY <1>4, <2>1 DEF Refused, Refuses, worker
  <2>3. Typed'
    BY <1>4, <1>2 DEF Refused, Typed, worker
  <2> QED
    BY <2>2, <2>3
<1>5. CASE Unexpandable(c, b, bs)
  <2>1. Stays
    BY <1>5, StaysWhen DEF Unexpandable, worker
  <2>2. jobs' \in [Jobs -> JobRecords] /\ Others(Controllers(c), None)
    BY <1>5, AbortsOnly DEF Unexpandable
  <2>3. Gives(c)
    BY <1>5, <2>1, <2>2 DEF Unexpandable, Claims, Gives, worker
  <2>4. gen' \in [Cells -> Nat]
    BY <1>5 DEF Unexpandable, Claims, Typed
  <2>5. aborts' \in [Cells -> Jobs \cup {None}] /\ shown' \in [Cells -> ShownRecords]
        /\ status' \in [Cells -> {"idle", "running", "success", "error"}]
    BY <1>5, <1>2 DEF Unexpandable, Typed
  <2>6. Typed'
    BY <1>5, <1>2, <2>2, <2>4, <2>5 DEF Unexpandable, Typed, worker
  <2> QED
    BY <2>3, <2>6
<1>6. CASE Begin(c, b, bs)
  <2> DEFINE j == FreeJob
             r == [Free EXCEPT !.kind = "sql", !.cell = c, !.code = code[c], !.batch = b,
                               !.sel = Selected(code[c]), !.gen = gen'[c],
                               !.reads = Resolved(code[c]),
                               !.step = IF code[c] \in Direct THEN "direct" ELSE "create"]
  <2>1. HasFreeJob /\ j \in Jobs /\ jobs[j].kind = "free"
    BY <1>6, FreeJobIs DEF Begin
  <2>2. ~Asked(j) /\ ~Answered(j)
    BY <2>1 DEF Queues
  <2>3. Posts(j)
    BY <1>6, <2>1, <2>2, PostsWhen DEF Begin
  <2>4. gen' = [gen EXCEPT ![c] = @ + 1] /\ gen \in [Cells -> Nat]
    BY <1>6 DEF Begin, Claims, Typed
  <2>5. gen'[c] \in Nat /\ gen'[c] = gen[c] + 1
    BY <2>4
  <2>6. /\ r \in JobRecords /\ r.kind = "sql" /\ r.cell = c /\ r.code = code[c] /\ r.batch = b
        /\ r.sel = Selected(code[c]) /\ r.gen = gen[c] + 1 /\ r.reads = Resolved(code[c])
        /\ r.step = (IF code[c] \in Direct THEN "direct" ELSE "create") /\ r.rows = {} /\ ~r.aborted
    <3>1. /\ "sql" \in Kinds /\ {"direct", "create"} \subseteq Steps /\ Free \in JobRecords
          /\ Free.rows = {} /\ ~Free.aborted
      BY RecordsAre DEF Free, Kinds, Steps
    <3> QED
      BY <2>5, <3>1, SelectedTyped DEF JobRecords
  <2>7. jobs' = [Aborted(jobs, Controllers(c)) EXCEPT ![j] = r]
    BY <1>6 DEF Begin
  <2> HIDE DEF r
  <2>8. jobs' \in [Jobs -> JobRecords] /\ jobs'[j] = r /\ Others(Controllers(c), j)
    BY <2>1, <2>6, <2>7, NewJob
  <2>9. c \notin DOMAIN inputs
    BY <1>6 DEF Begin, Claims
  <2>10. Starts(c, j)
    <3> HIDE DEF j
    <3>1. aborts' = [aborts EXCEPT ![c] = j]
      BY <1>6 DEF Begin, j
    <3> QED
      BY <1>6, <2>1, <2>3, <2>4, <2>6, <2>8, <2>9, <3>1 DEF Begin, Claims, Starts
  <2>11. Typed'
    BY <1>6, <2>1, <2>4, <2>8 DEF Begin, Typed
  <2> QED
    BY <2>1, <2>10, <2>11
<1> QED
  BY <1>3, <1>4, <1>5, <1>6 DEF RunCell

LEMMA NextCellStep ==
  ASSUME Basic, NEW b \in Batches, NextCell(b)
  PROVE  Typed' /\ (Quiet \/ \E c \in Cells : Refuses(c) \/ Gives(c) \/ \E j \in Jobs : Starts(c, j))
<1>1. Typed /\ Queues /\ Apt
  BY DEF Basic, NextCell, Apt, Settled
<1>2. CASE batches[b].todo = <<>>
  <2>1. batches' = [batches EXCEPT ![b].state = "success"] /\ Stays
        /\ UNCHANGED <<screen, gen, aborts, jobs, worker, lineage>>
    BY <1>1, <1>2, StaysWhen DEF NextCell, worker
  <2>2. batches' \in [Batches -> BatchRecords]
    BY <1>1, <2>1 DEF Typed, BatchRecords
  <2>3. Typed'
    BY <1>1, <2>1, <2>2 DEF Typed, screen, worker
  <2> QED
    BY <1>1, <2>1, <2>3 DEF Quiet, Still, screen, worker
<1>3. CASE batches[b].todo # <<>>
  <2> DEFINE bs == [batches EXCEPT ![b].todo = Tail(@), ![b].state = "await"]
             c == Head(batches[b].todo)
  <2>1. bs \in [Batches -> BatchRecords] /\ c \in Cells
    BY <1>1, <1>3, NextTyped
  <2>2. RunCell(c, b, bs)
    BY <1>3 DEF NextCell
  <2> HIDE DEF bs, c
  <2> QED
    BY <1>1, <2>1, <2>2, RunCellStep
<1> QED
  BY <1>2, <1>3

LEMMA ActApt ==
  ASSUME NEW wish, Act(wish)
  PROVE  Apt /\ Settled /\ ~Leaving
BY DEF Act, Apt, Leaving

LEMMA TypeStep ==
  ASSUME Basic, NEW c \in Cells, NEW k \in Codes, Type(c, k)
  PROVE  Typed' /\ Quiet
<1>1. Stays /\ Apt /\ Soiled \in [Batches -> BatchRecords]
  BY StaysWhen, ActApt, SoiledTyped DEF Basic, Type, worker
<1> QED
  BY <1>1 DEF Basic, Type, Typed, Quiet, Still, worker

LEMMA RunAllStep ==
  ASSUME Basic, RunAll
  PROVE  Typed' /\ Quiet
<1> DEFINE order == Named(G!TopoOrder(Notebook))
<1>1. Stays /\ Apt
  BY StaysWhen, ActApt DEF Basic, RunAll, worker
<1>2. G!TopoOrder(Notebook) \in Seq(G!RunnableCells(Notebook)) /\ Typed
  BY SheetOfDoc, TopoOrdered DEF Basic, Placed
<1>3. G!TopoOrder(Notebook) \in Seq(DOMAIN doc)
  <2>1. G!RunnableCells(Notebook) \in SUBSET DOMAIN doc
    BY <1>2, SheetOfDoc DEF G!RunnableCells
  <2> QED
    BY <1>2, <2>1
<1>4. order \in Seq(Cells)
  BY <1>2, <1>3, NamedTyped
<1>5. StartBatch(order, FALSE, batches)
  BY DEF RunAll
<1> HIDE DEF order
<1>6. batches \in [Batches -> BatchRecords]
  BY <1>2 DEF Typed
<1>7. batches' \in [Batches -> BatchRecords]
  BY <1>4, <1>5, <1>6, StartTyped
<1> QED
  BY <1>1, <1>7 DEF Basic, RunAll, Typed, Quiet, Still, worker, screen

LEMMA BrushStep ==
  ASSUME Basic, Brush
  PROVE  Typed' /\ Quiet
<1> DEFINE order == Named(G!BrushOrder(Notebook))
<1>1. Stays /\ Apt /\ Soiled \in [Batches -> BatchRecords]
  BY StaysWhen, ActApt, SoiledTyped DEF Basic, Brush, worker
<1>2. G!TopoOrder(Notebook) \in Seq(G!RunnableCells(Notebook)) /\ Typed
  BY SheetOfDoc, TopoOrdered DEF Basic, Placed
<1>3. G!TopoOrder(Notebook) \in Seq(DOMAIN doc)
  <2>1. G!RunnableCells(Notebook) \in SUBSET DOMAIN doc
    BY <1>2, SheetOfDoc DEF G!RunnableCells
  <2> QED
    BY <1>2, <2>1
<1>4. G!BrushOrder(Notebook) \in Seq(DOMAIN doc)
  BY <1>3, KeptInjective DEF G!BrushOrder
<1>5. order \in Seq(Cells)
  BY <1>2, <1>4, NamedTyped
<1>6. IF order = <<>> THEN batches' = Soiled ELSE StartBatch(order, TRUE, Soiled)
  BY DEF Brush
<1> HIDE DEF order
<1>7. batches' \in [Batches -> BatchRecords]
  BY <1>1, <1>5, <1>6, StartTyped
<1>8. sel' = sel + 1
  BY DEF Brush
<1> QED
  BY <1>1, <1>7, <1>8 DEF Basic, Brush, Typed, Quiet, Still, worker

LEMMA ControllersAre ==
  ASSUME Typed, NEW C \in SUBSET Cells
  PROVE  /\ UNION {Controllers(c) : c \in C} \in SUBSET Jobs
         /\ UNION {Controllers(c) : c \in C} \in SUBSET {aborts[c] : c \in C}
         /\ \A c \in C : aborts[c] # None => aborts[c] \in UNION {Controllers(x) : x \in C}
<1>1. \A c \in Cells : Controllers(c) \in SUBSET Jobs /\ Controllers(c) \subseteq {aborts[c]}
  BY DEF Typed, Controllers
<1>2. \A c \in C : aborts[c] # None => aborts[c] \in Controllers(c)
  BY DEF Controllers
<1> QED
  BY <1>1, <1>2

LEMMA SilencedTyped ==
  ASSUME Typed, NEW S
  PROVE  Silenced(S) \in [Cells -> {"idle", "running", "success", "error"}]
BY DEF Typed, Silenced

LEMMA EscapeStep ==
  ASSUME Basic, Escape
  PROVE  Typed' /\ \E S \in SUBSET Jobs : Escapes(S)
<1>1. Stays /\ Apt /\ Settled /\ Typed
  BY StaysWhen, ActApt DEF Basic, Escape, worker
<1>2. PICK C \in {Cells} \cup {{c} : c \in Cells} :
        /\ jobs' = Aborted(jobs, UNION {Controllers(c) : c \in C})
        /\ status' = Silenced(UNION {Controllers(c) : c \in C})
  BY DEF Escape
<1> DEFINE S == UNION {Controllers(c) : c \in C}
<1>3. C \in SUBSET Cells
  OBVIOUS
<1>4. S \in SUBSET Jobs /\ S \in SUBSET {aborts[c] : c \in C}
  BY <1>1, <1>3, ControllersAre
<1>5. S \in SUBSET {aborts[c] : c \in Cells} /\ jobs' = Aborted(jobs, S) /\ status' = Silenced(S)
  BY <1>2, <1>3, <1>4
<1> HIDE DEF S
<1>6. jobs' \in [Jobs -> JobRecords] /\ Others(S, None)
  BY <1>1, <1>5, AbortsOnly
<1>7. Escapes(S)
  BY <1>1, <1>4, <1>5, <1>6 DEF Escape, Escapes, worker
<1>8. Typed'
  BY <1>1, <1>5, <1>6, SilencedTyped DEF Escape, Typed, worker
<1> QED
  BY <1>4, <1>7, <1>8

LEMMA DeleteStep ==
  ASSUME Basic, NEW c \in Cells, DeleteCell(c)
  PROVE  Typed' /\ \E j \in Jobs : Deletes(c, j)
<1> DEFINE j == FreeJob
           r == [Free EXCEPT !.kind = "drop", !.cell = c, !.step = "dropView"]
<1>1. Typed /\ Queues /\ Apt /\ Settled
  BY ActApt DEF Basic, DeleteCell
<1>2. HasFreeJob /\ j \in Jobs /\ jobs[j].kind = "free"
  BY FreeJobIs DEF DeleteCell
<1>3. Posts(j)
  BY <1>1, <1>2, PostsWhen DEF DeleteCell, Queues
<1>4. r \in JobRecords /\ r.kind = "drop" /\ r.cell = c /\ r.step = "dropView"
  BY RecordsAre DEF Free, JobRecords, Kinds, Steps, LangSteps
<1>5. jobs' = [Aborted(jobs, Controllers(c)) EXCEPT ![j] = r]
  BY DEF DeleteCell
<1> HIDE DEF r
<1>6. jobs' \in [Jobs -> JobRecords] /\ jobs'[j] = r /\ Others(Controllers(c), j)
  BY <1>1, <1>2, <1>4, <1>5, NewJob
<1>7. doc' \in Seq(Cells) /\ Range(doc') = Range(doc) \cap (Cells \ {c}) /\ IsInjective(doc')
  BY <1>1, KeptInjective DEF DeleteCell, Typed
<1>8. Range(doc) \in SUBSET Cells
  BY <1>1 DEF Typed, Range
<1> HIDE DEF j
<1>9. Deletes(c, j)
  BY <1>1, <1>2, <1>3, <1>4, <1>6, <1>7, <1>8 DEF DeleteCell, Deletes
<1>10. gen' \in [Cells -> Nat] /\ aborts' \in [Cells -> Jobs \cup {None}]
       /\ lineage' \in [Cells -> SUBSET Cells]
  BY <1>1 DEF DeleteCell, Typed
<1>11. batches' \in [Batches -> BatchRecords]
  BY <1>1, SoiledTyped DEF DeleteCell
<1>12. Typed'
  BY <1>1, <1>6, <1>7, <1>10, <1>11 DEF DeleteCell, Typed
<1> QED
  BY <1>2, <1>9, <1>12

LEMMA LanguageStep ==
  ASSUME Basic, NEW c \in Cells, RunLanguage(c)
  PROVE  Typed' /\ \E j \in Jobs : Starts(c, j)
<1> DEFINE j == FreeJob
           r == [Free EXCEPT !.kind = "lang", !.cell = c, !.code = code[c], !.gen = gen'[c],
                             !.step = "count"]
<1>1. Typed /\ Queues /\ Apt
  BY ActApt DEF Basic, RunLanguage
<1>2. HasFreeJob /\ j \in Jobs /\ jobs[j].kind = "free"
  BY FreeJobIs DEF RunLanguage
<1>3. Posts(j)
  BY <1>1, <1>2, PostsWhen DEF RunLanguage, Queues
<1>4. gen' = [gen EXCEPT ![c] = @ + 1] /\ gen \in [Cells -> Nat]
  BY <1>1 DEF RunLanguage, Typed
<1>5. gen'[c] \in Nat /\ gen'[c] = gen[c] + 1
  BY <1>4
<1>6. /\ r \in JobRecords /\ r.kind = "lang" /\ r.cell = c /\ r.step = "count" /\ r.code = code[c]
      /\ r.gen = gen[c] + 1 /\ r.sel = 0 /\ r.reads = {} /\ r.rows = {} /\ ~r.aborted
  BY <1>1, <1>5, SelectedTyped, RecordsAre DEF Free, JobRecords, Kinds, Steps, LangSteps, RowSets
<1>7. jobs' = [Aborted(jobs, Controllers(c)) EXCEPT ![j] = r]
  BY DEF RunLanguage
<1> HIDE DEF r
<1>8. jobs' \in [Jobs -> JobRecords] /\ jobs'[j] = r /\ Others(Controllers(c), j)
  BY <1>1, <1>2, <1>6, <1>7, NewJob
<1>9. aborts' = [aborts EXCEPT ![c] = j]
  BY DEF RunLanguage
<1> HIDE DEF j
<1>10. Starts(c, j)
  <2>1. c \in DOMAIN inputs /\ Listed(c) /\ status' = [status EXCEPT ![c] = "running"]
        /\ UNCHANGED <<doc, inputs, shown, rel, lineage>>
    BY DEF RunLanguage
  <2>2. /\ jobs'[j].kind = "lang" /\ jobs'[j].cell = c /\ jobs'[j].step = "count"
        /\ jobs'[j].code = code[c] /\ jobs'[j].gen = gen[c] + 1 /\ jobs'[j].sel = 0
        /\ jobs'[j].reads = {} /\ jobs'[j].rows = {} /\ ~jobs'[j].aborted
    BY <1>6, <1>8
  <2> QED
    BY <1>1, <1>2, <1>3, <1>4, <1>8, <1>9, <2>1, <2>2 DEF Starts
<1>11. Typed'
  BY <1>1, <1>2, <1>4, <1>8, <1>9 DEF RunLanguage, Typed
<1> QED
  BY <1>2, <1>10, <1>11

LEMMA LeaveBegins ==
  ASSUME Basic, Leave
  PROVE  Typed' /\ \E j \in Jobs : Leaves(j)
<1> DEFINE j == FreeJob
           r == [Free EXCEPT !.kind = "leave", !.cell = doc[1], !.step = "dropView"]
           S == UNION {Controllers(c) : c \in Cells}
<1>1. Typed /\ Queues /\ Apt /\ Settled
  BY ActApt DEF Basic, Leave
<1>2. HasFreeJob /\ j \in Jobs /\ jobs[j].kind = "free"
  BY FreeJobIs DEF Leave
<1>3. Posts(j)
  BY <1>1, <1>2, PostsWhen DEF Leave, Queues
<1>4. 1 \in DOMAIN doc /\ doc[1] \in Cells
  BY <1>1 DEF Leave, Typed
<1>5. r \in JobRecords /\ r.kind = "leave" /\ r.cell = doc[1] /\ r.step = "dropView"
  BY <1>4, RecordsAre DEF Free, JobRecords, Kinds, Steps, LangSteps
<1>6. jobs' = [Aborted(jobs, S) EXCEPT ![j] = r] /\ status' = Silenced(S)
  BY DEF Leave
<1> HIDE DEF r
<1>7. jobs' \in [Jobs -> JobRecords] /\ jobs'[j] = r /\ Others(S, j)
  BY <1>1, <1>2, <1>5, <1>6, NewJob
<1>8. batches' \in [Batches -> BatchRecords] /\ Settled'
  BY <1>1, SoiledTyped DEF Leave, Settled
<1>9. status' \in [Cells -> {"idle", "running", "success", "error"}]
  BY <1>1, <1>6, SilencedTyped
<1> HIDE DEF j
<1>10. Leaves(j)
  BY <1>1, <1>2, <1>3, <1>4, <1>5, <1>6, <1>7, <1>8 DEF Leave, Leaves
<1>11. gen' \in [Cells -> Nat] /\ aborts' \in [Cells -> Jobs \cup {None}]
  BY <1>1 DEF Leave, Typed
<1>12. Typed'
  BY <1>1, <1>7, <1>8, <1>9, <1>11 DEF Leave, Typed
<1> QED
  BY <1>2, <1>10, <1>12

-----------------------------------------------------------------------------
(* What the worker does. *)

LEMMA CellOfJob ==
  ASSUME Basic, NEW j \in Jobs, jobs[j].kind # "free"
  PROVE  /\ jobs[j].cell \in Cells
         /\ jobs[j].kind = "lang" => inputs[jobs[j].cell] \in Cells
BY DEF Basic, Stepped, StepsOf, Typed, JobRecords, Kinds

LEMMA ExecuteStep ==
  ASSUME Basic, Execute
  PROVE  Typed' /\ \E j \in Jobs : Ran(j)
<1> DEFINE j == Head(asked)
           r == jobs[j]
<1>1. Typed /\ Queues
  BY DEF Basic
<1>2. PICK ok \in {TRUE} \cup (IF Sure(j) THEN {} ELSE {FALSE}) :
         /\ ok => Can(j)
         /\ jobs' = [jobs EXCEPT ![j].ok = ok,
                       ![j].rows = IF ~ok THEN @
                                   ELSE IF r.step = "select" THEN Rows({r.cell})
                                   ELSE IF r.step = "copy" THEN Rows({inputs[r.cell]})
                                   ELSE @]
         /\ rel' = IF ~ok THEN rel
                   ELSE CASE r.step = "create" ->
                               [rel EXCEPT ![r.cell] = [table |-> FALSE, code |-> r.code,
                                                        sel |-> r.sel, reads |-> r.reads]]
                          [] r.step = "table" ->
                               [rel EXCEPT ![r.cell] = [table |-> TRUE, code |-> r.code,
                                                        sel |-> 0, reads |-> {}]]
                          [] r.step = "dropView" /\ ~rel[r.cell].table ->
                               [rel EXCEPT ![r.cell] = NoRelation]
                          [] r.step = "dropTable" /\ rel[r.cell].table ->
                               [rel EXCEPT ![r.cell] = NoRelation]
                          [] OTHER -> rel
         /\ answered' = Append(answered, j)
  BY DEF Execute
<1>3. asked' = Tail(asked) /\ asked # <<>>
      /\ UNCHANGED <<screen, gen, aborts, lineage, batches, acts>>
  BY DEF Execute
<1>4. Executes(j)
  BY <1>1, <1>2, <1>3, ExecutesWhen
<1> HIDE DEF j
<1>5. j \in Jobs /\ Asked(j) /\ jobs[j].kind # "free"
  BY <1>1, <1>4 DEF Executes, Queues
<1>6. r.cell \in Cells /\ r \in JobRecords /\ ok \in BOOLEAN
      /\ (r.kind = "lang" => inputs[r.cell] \in Cells)
  BY <1>1, <1>2, <1>5, CellOfJob DEF Typed
<1>7. r.step = "copy" => r.kind = "lang"
  <2>1. r.kind \in Kinds
    BY <1>6 DEF JobRecords
  <2> QED
    BY <2>1, <1>5 DEF Basic, Stepped, StepsOf, Kinds
<1> DEFINE rows == IF ~ok THEN r.rows ELSE IF r.step = "select" THEN Rows({r.cell})
                   ELSE IF r.step = "copy" THEN Rows({inputs[r.cell]}) ELSE r.rows
<1>8. rows \in RowSets
  <2>1. r.rows \in RowSets
    BY <1>6 DEF JobRecords
  <2>2. Rows({r.cell}) \in RowSets
    BY <1>1, <1>6, RowsTyped
  <2>3. r.step = "copy" => Rows({inputs[r.cell]}) \in RowSets
    BY <1>1, <1>6, <1>7, RowsTyped
  <2> HIDE DEF r
  <2> QED
    BY <2>1, <2>2, <2>3
<1> DEFINE s == [[r EXCEPT !.ok = ok] EXCEPT !.rows = rows]
<1>9. jobs' = [jobs EXCEPT ![j] = s]
  <2>1. jobs \in [Jobs -> JobRecords]
    BY <1>1 DEF Typed
  <2>2. [r EXCEPT !.ok = ok].rows = r.rows
    BY <1>6 DEF JobRecords
  <2>3. jobs' = [[jobs EXCEPT ![j] = [r EXCEPT !.ok = ok]] EXCEPT ![j].rows = rows]
    BY <1>2, <1>5, <2>1, <2>2
  <2> HIDE DEF r, rows
  <2> QED
    BY <2>1, <2>3, <1>5
<1>10. /\ s \in JobRecords /\ s.ok = ok /\ s.rows = rows
       /\ s.kind = r.kind /\ s.cell = r.cell /\ s.step = r.step /\ s.code = r.code
       /\ s.sel = r.sel /\ s.gen = r.gen /\ s.reads = r.reads /\ s.aborted = r.aborted
       /\ s.batch = r.batch
  <2> HIDE DEF r, rows
  <2> QED
    BY <1>6, <1>8 DEF JobRecords
<1> HIDE DEF s
<1>11. jobs' \in [Jobs -> JobRecords] /\ jobs'[j] = s /\ Others({}, j)
  BY <1>1, <1>5, <1>9, <1>10, SetJob
<1>12. rel' = [rel EXCEPT ![r.cell] = Effect(r, ok)]
  <2>1. rel \in [Cells -> Relations]
    BY <1>1 DEF Typed
  <2>2. rel = [rel EXCEPT ![r.cell] = rel[r.cell]]
    BY <1>6, <2>1
  <2>3. ok = FALSE => r.step \notin {"dropView", "dropTable"}
    BY <1>2 DEF Sure
  <2> HIDE DEF r
  <2>4. CASE r.step = "create" /\ ok
    BY <2>4, <1>2 DEF Effect
  <2>5. CASE r.step = "table" /\ ok
    BY <2>5, <1>2 DEF Effect
  <2>6. CASE r.step = "dropView"
    BY <2>6, <2>2, <2>3, <1>2, <1>6 DEF Effect
  <2>7. CASE r.step = "dropTable"
    BY <2>7, <2>2, <2>3, <1>2, <1>6 DEF Effect
  <2>8. CASE ~(r.step = "create" /\ ok) /\ ~(r.step = "table" /\ ok)
             /\ r.step \notin {"dropView", "dropTable"}
    BY <2>8, <2>2, <1>2, <1>6 DEF Effect
  <2> QED
    BY <2>4, <2>5, <2>6, <2>7, <2>8
<1>13. rel' \in [Cells -> Relations]
  <2>1. Effect(r, ok) \in Relations
    <3>1. rel[r.cell] \in Relations
      BY <1>1, <1>6 DEF Typed
    <3> QED
      BY <1>6, <3>1, RecordsAre DEF Effect, Relations, JobRecords
  <2> QED
    BY <1>1, <1>12, <2>1 DEF Typed
<1>14. Typed'
  BY <1>1, <1>3, <1>11, <1>13 DEF Typed, screen
<1>15. Ran(j)
  BY <1>2, <1>3, <1>4, <1>6, <1>10, <1>11, <1>12 DEF Ran, screen
<1> QED
  BY <1>5, <1>14, <1>15

-----------------------------------------------------------------------------
(* What the main thread does with an answer. *)

Answers(j) == answered # <<>> /\ j = Head(answered)

LEMMA AnswerIs ==
  ASSUME Basic, NEW j, Answers(j)
  PROVE  j \in Jobs /\ jobs[j].kind # "free" /\ jobs[j].step # "load" /\ jobs[j].cell \in Cells
         /\ jobs[j] \in JobRecords
<1>1. First(j)
  BY FirstWhen DEF Basic, Answers
<1>2. j \in Jobs /\ jobs[j].kind # "free" /\ jobs[j].step # "load"
  BY <1>1 DEF First, Basic, Queues
<1> QED
  BY <1>2, CellOfJob DEF Basic, Typed

LEMMA GoesOn ==
  ASSUME Basic, NEW j, Answers(j), NEW step \in Steps, Goes(j, step)
  PROVE  Typed' /\ Reposts(j) /\ Advances(j, step)
<1>1. Typed /\ Queues /\ j \in Jobs
  BY AnswerIs DEF Basic
<1>2. Reposts(j)
  BY <1>1, RepostsWhen DEF Goes, Answers
<1>3. jobs' \in [Jobs -> JobRecords] /\ Advances(j, step)
  BY <1>1, SetStep DEF Goes
<1>4. Typed'
  BY <1>1, <1>3 DEF Goes, Typed, screen
<1> QED
  BY <1>2, <1>3, <1>4

LEMMA ClearedTyped ==
  ASSUME Typed, NEW j \in Jobs, jobs[j].cell \in Cells
  PROVE  Cleared(j) \in [Cells -> Jobs \cup {None}]
BY DEF Typed, Cleared

LEMMA ResultTyped ==
  ASSUME Typed, NEW j \in Jobs
  PROVE  Result(j) \in ShownRecords
BY DEF Typed, Result, ShownRecords, JobRecords

LEMMA OutcomeSettles ==
  ASSUME Typed, NEW b \in Batches \cup {0}, batches' = Outcome(batches, b, FALSE)
  PROVE  batches' \in [Batches -> BatchRecords] /\ (Settled => Settled')
<1>1. batches \in [Batches -> BatchRecords]
  BY DEF Typed
<1>2. batches' \in [Batches -> BatchRecords]
  BY <1>1, OutcomeTyped
<1>3. \A x \in Batches :
        batches'[x].state = IF x = b /\ batches[x].state = "await" THEN "stopped" ELSE batches[x].state
  BY <1>1 DEF Outcome, Batches, BatchRecords
<1> QED
  BY <1>2, <1>3 DEF Settled

LEMMA SqlContinues ==
  ASSUME Basic, NEW j, Answers(j), SqlStep(j)
  PROVE  Typed' /\ (Selects(j) \/ Fails(j) \/ Succeeds(j))
<1>1. /\ Typed /\ Queues /\ j \in Jobs /\ jobs[j].cell \in Cells /\ jobs[j] \in JobRecords
      /\ jobs[j].kind = "sql" /\ Stepped /\ batches \in [Batches -> BatchRecords]
      /\ jobs[j].batch \in Batches \cup {0}
  BY AnswerIs DEF Basic, SqlStep, Typed, JobRecords
<1>2. jobs[j].step \in {"create", "direct", "select"}
  BY <1>1 DEF Stepped, StepsOf
<1>3. Cleared(j) \in [Cells -> Jobs \cup {None}] /\ Result(j) \in ShownRecords
  BY <1>1, ClearedTyped, ResultTyped
<1>4. CASE (~jobs[j].ok \/ jobs[j].aborted) /\ SqlFails(j)
  <2>1. jobs' \in [Jobs -> JobRecords] /\ Frees(j)
    BY <1>1, <1>4, SetJob, RecordsAre DEF SqlFails, Frees
  <2>2. Takes(j)
    BY <1>1, <1>4, TakesWhen DEF SqlFails, Ends, Answers
  <2>3. batches' \in [Batches -> BatchRecords] /\ (Settled => Settled')
    BY <1>1, <1>4, OutcomeSettles DEF SqlFails
  <2>4. Fails(j)
    BY <1>1, <1>4, <2>1, <2>2, <2>3 DEF SqlFails, Ends, Fails
  <2>5. status' \in [Cells -> {"idle", "running", "success", "error"}] /\ shown' \in [Cells -> ShownRecords]
    BY <1>1, <1>4, RecordsAre DEF SqlFails, Typed
  <2>6. Typed'
    BY <1>1, <1>3, <1>4, <2>1, <2>3, <2>5 DEF SqlFails, Ends, Typed
  <2> QED
    BY <2>4, <2>6
<1>5. CASE jobs[j].ok /\ ~jobs[j].aborted /\ jobs[j].step = "create" /\ Goes(j, "select")
  <2>1. Typed' /\ Reposts(j) /\ Advances(j, "select")
    BY <1>5, GoesOn DEF Steps
  <2> QED
    BY <2>1, <1>1, <1>5 DEF Selects
<1>6. ASSUME NEW record \in BOOLEAN, SqlSucceeds(j, record), jobs[j].ok, ~jobs[j].aborted,
             jobs[j].step = IF record THEN "select" ELSE "direct"
      PROVE  Typed' /\ Succeeds(j)
  <2> DEFINE r == [Free EXCEPT !.kind = "lineage", !.cell = jobs[j].cell,
                               !.code = jobs[j].code, !.step = "explain"]
             s == IF record THEN r ELSE Free
  <2>1. /\ r \in JobRecords /\ r.kind = "lineage" /\ r.cell = jobs[j].cell
        /\ r.code = jobs[j].code /\ r.step = "explain"
    BY <1>1, RecordsAre DEF Free, JobRecords, Kinds, Steps, LangSteps
  <2>2. jobs' = [jobs EXCEPT ![j] = s]
    BY <1>6 DEF SqlSucceeds
  <2> HIDE DEF r
  <2>3. s \in JobRecords /\ (record => s = r) /\ (~record => s = Free)
    BY <2>1, RecordsAre
  <2> HIDE DEF s
  <2>4. jobs' \in [Jobs -> JobRecords] /\ jobs'[j] = s /\ Others({}, j)
    BY <1>1, <2>2, <2>3, SetJob
  <2>5. IF record THEN Reposts(j) ELSE Takes(j)
    BY <1>1, <1>6, TakesWhen, RepostsWhen DEF SqlSucceeds, Ends, Answers
  <2>6. Succeeds(j)
    BY <1>1, <1>6, <2>1, <2>3, <2>4, <2>5 DEF SqlSucceeds, Ends, Succeeds, Frees
  <2>7. status' \in [Cells -> {"idle", "running", "success", "error"}] /\ shown' \in [Cells -> ShownRecords]
    BY <1>1, <1>3, <1>6 DEF SqlSucceeds, Typed
  <2>8. batches' \in [Batches -> BatchRecords]
    BY <1>1, <1>6, OutcomeTyped DEF SqlSucceeds
  <2>9. Typed'
    BY <1>1, <1>3, <1>6, <2>4, <2>7, <2>8 DEF SqlSucceeds, Ends, Typed
  <2> QED
    BY <2>6, <2>9
<1> QED
  BY <1>2, <1>4, <1>5, <1>6 DEF SqlStep

LEMMA FinishesWhen ==
  ASSUME Basic, NEW j \in Jobs, NEW outcome \in {"success", "error"}, LangEnds(j, outcome),
         jobs[j].kind = "lang",
         outcome = "success" => jobs[j].ok /\ (jobs[j].step = "total" \/ jobs[j].aborted),
         Takes(j) \/ (jobs[j].step = "load" /\ Stays)
  PROVE  Typed' /\ Finishes(j, outcome)
<1>1. Typed /\ jobs[j].cell \in Cells /\ Result(j) \in ShownRecords
  BY CellOfJob, ResultTyped DEF Basic
<1>2. Cleared(j) \in [Cells -> Jobs \cup {None}]
  BY <1>1, ClearedTyped
<1>3. jobs' \in [Jobs -> JobRecords] /\ Frees(j)
  BY <1>1, SetJob, RecordsAre DEF LangEnds, Frees
<1>4. Finishes(j, outcome)
  BY <1>3 DEF LangEnds, Finishes
<1>5. status' \in [Cells -> {"idle", "running", "success", "error"}] /\ shown' \in [Cells -> ShownRecords]
  BY <1>1 DEF LangEnds, Typed
<1>6. Typed'
  BY <1>1, <1>2, <1>3, <1>5 DEF LangEnds, Typed
<1> QED
  BY <1>4, <1>6

LEMMA LangContinues ==
  ASSUME Basic, NEW j, Answers(j), LangStep(j)
  PROVE  Typed' /\ ((\E s \in LangSteps : Follows(j, s)) \/ Loads(j)
                     \/ \E o \in {"success", "error"} : Finishes(j, o))
<1>1. /\ Typed /\ Queues /\ j \in Jobs /\ jobs[j].kind = "lang" /\ jobs[j].step # "load"
  BY AnswerIs DEF Basic, LangStep
<1>2. /\ jobs[j].step \in LangSteps
      /\ jobs[j].step \in {"dropView", "dropTable"} => jobs[j].aborted
  BY <1>1 DEF Basic, Stepped, StepsOf
<1>3. ASSUME NEW s \in LangSteps, Goes(j, s)
      PROVE  Typed' /\ Reposts(j) /\ Advances(j, s)
  BY <1>3, GoesOn DEF Steps
<1>4. CASE Unregister(j) /\ Goes(j, "dropView")
  <2>2. Typed' /\ Reposts(j) /\ Advances(j, "dropView")
    BY <1>3, <1>4 DEF LangSteps
  <2>3. Follows(j, "dropView")
    BY <2>2, <1>1, <1>4 DEF Follows, Unregister
  <2> QED
    BY <2>2, <2>3 DEF LangSteps
<1>5. CASE jobs[j].step = "dropView" /\ Goes(j, "dropTable")
  <2>1. Typed' /\ Reposts(j) /\ Advances(j, "dropTable")
    BY <1>3, <1>5 DEF LangSteps
  <2>2. Follows(j, "dropTable")
    BY <2>1, <1>1, <1>5 DEF Follows
  <2> QED
    BY <2>1, <2>2 DEF LangSteps
<1>6. CASE /\ ~Unregister(j) /\ Over(j)
           /\ answered' = Tail(answered)
           /\ LangEnds(j, IF jobs[j].ok THEN "success" ELSE "error")
  <2>1. asked' = asked
    BY <1>6 DEF LangEnds
  <2>2. Takes(j)
    BY <1>1, <1>6, <2>1, TakesWhen DEF Answers
  <2>3. jobs[j].ok => jobs[j].step = "total" \/ jobs[j].aborted
    BY <1>2, <1>6 DEF Over
  <2> QED
    BY <1>6, <2>2, <2>3, <1>1, FinishesWhen
<1>7. CASE /\ ~Over(j) /\ jobs[j].step = "unlink"
           /\ answered' = Tail(answered)
           /\ jobs' = [jobs EXCEPT ![j].step = "load"]
           /\ UNCHANGED <<screen, gen, aborts, asked, rel, lineage, batches, acts>>
  <2>1. Takes(j)
    BY <1>1, <1>7, TakesWhen DEF Answers
  <2>2. jobs' \in [Jobs -> JobRecords] /\ Advances(j, "load")
    BY <1>1, <1>7, SetStep DEF Steps, LangSteps
  <2>3. Loads(j)
    BY <1>1, <1>7, <2>1, <2>2 DEF Loads
  <2>4. Typed'
    BY <1>1, <1>7, <2>2 DEF Typed, screen
  <2> QED
    BY <2>3, <2>4
<1>8. CASE /\ ~Unregister(j) /\ ~Over(j) /\ jobs[j].step \notin {"unlink", "dropView"}
           /\ Goes(j, After[jobs[j].step])
  <2>1. jobs[j].step \in {"count", "copy", "fetch", "buffer", "table", "unfile", "preview"}
    BY <1>1, <1>2, <1>8 DEF LangSteps, Over
  <2>2. After[jobs[j].step] \in LangSteps
    BY <2>1 DEF After, LangSteps
  <2>3. Typed' /\ Reposts(j) /\ Advances(j, After[jobs[j].step])
    BY <2>2, <1>3, <1>8
  <2>4. Follows(j, After[jobs[j].step])
    BY <2>1, <2>3, <1>1, <1>8 DEF Follows, Unregister, Over
  <2> QED
    BY <2>2, <2>3, <2>4
<1> QED
  BY <1>4, <1>5, <1>6, <1>7, <1>8 DEF LangStep

LEMMA LineageContinues ==
  ASSUME Basic, NEW j, Answers(j), LineageStep(j)
  PROVE  Typed' /\ (Asks(j) \/ Recorded(j))
<1>1. Typed /\ Queues /\ j \in Jobs /\ jobs[j].kind = "lineage" /\ jobs[j].cell \in Cells
  BY AnswerIs DEF Basic, LineageStep
<1>2. CASE jobs[j].step = "explain" /\ Goes(j, "known")
  <2>1. Typed' /\ Reposts(j) /\ Advances(j, "known")
    BY <1>2, GoesOn DEF Steps
  <2> QED
    BY <1>1, <1>2, <2>1 DEF Asks
<1>3. CASE /\ jobs[j].step = "known"
           /\ answered' = Tail(answered)
           /\ jobs' = [jobs EXCEPT ![j] = Free]
           /\ lineage' = [lineage EXCEPT ![jobs[j].cell] = Names(jobs[j].code) \cap Range(doc)]
           /\ UNCHANGED <<screen, gen, aborts, asked, rel, batches, acts>>
  <2>1. Takes(j)
    BY <1>1, <1>3, TakesWhen DEF Answers
  <2>2. jobs' \in [Jobs -> JobRecords] /\ Frees(j)
    BY <1>1, <1>3, SetJob, RecordsAre DEF Frees
  <2>3. Range(doc) \in SUBSET Cells
    BY <1>1 DEF Typed, Range
  <2>4. lineage' \in [Cells -> SUBSET Cells]
    BY <1>1, <1>3, <2>3 DEF Typed
  <2>5. Typed'
    BY <1>1, <1>3, <2>2, <2>4 DEF Typed, screen
  <2>6. Recorded(j)
    BY <1>1, <1>3, <2>1, <2>2 DEF Recorded, screen
  <2> QED
    BY <2>5, <2>6
<1> QED
  BY <1>2, <1>3 DEF LineageStep

LEMMA DropContinues ==
  ASSUME Basic, NEW j, Answers(j), DropStep(j)
  PROVE  Typed' /\ (Drops(j) \/ Dropped(j))
<1>1. Typed /\ Queues /\ j \in Jobs /\ jobs[j].kind = "drop"
  BY AnswerIs DEF Basic, DropStep
<1>2. CASE jobs[j].step = "dropView" /\ Goes(j, "dropTable")
  <2>1. Typed' /\ Reposts(j) /\ Advances(j, "dropTable")
    BY <1>2, GoesOn DEF Steps, LangSteps
  <2> QED
    BY <1>1, <1>2, <2>1 DEF Drops
<1>3. CASE /\ jobs[j].step = "dropTable"
           /\ answered' = Tail(answered)
           /\ jobs' = [jobs EXCEPT ![j] = Free]
           /\ UNCHANGED <<screen, gen, aborts, asked, rel, lineage, batches, acts>>
  <2>1. Takes(j)
    BY <1>1, <1>3, TakesWhen DEF Answers
  <2>2. jobs' \in [Jobs -> JobRecords] /\ Frees(j)
    BY <1>1, <1>3, SetJob, RecordsAre DEF Frees
  <2>3. Typed'
    BY <1>1, <1>3, <2>2 DEF Typed, screen
  <2>4. Dropped(j)
    BY <1>1, <1>3, <2>1, <2>2 DEF Dropped, screen
  <2> QED
    BY <2>3, <2>4
<1> QED
  BY <1>2, <1>3 DEF DropStep

LEMMA PlaceOf ==
  ASSUME Typed, NEW c, Listed(c)
  PROVE  Place(c) \in 1..Len(doc) /\ doc[Place(c)] = c
         /\ \A i \in 1..Len(doc) : doc[i] = c => i = Place(c)
<1>1. DOMAIN doc = 1..Len(doc) /\ \A i, j \in DOMAIN doc : doc[i] = doc[j] => i = j
  BY DEF Typed, IsInjective
<1>2. \E i \in DOMAIN doc : doc[i] = c
  BY DEF Listed, Range
<1> QED
  BY <1>1, <1>2 DEF Place

LEMMA LeaveContinues ==
  ASSUME Basic, NEW j, Answers(j), LeaveStep(j), Listed(jobs[j].cell)
  PROVE  Typed' /\ (Drops(j) \/ Proceeds(j) \/ Departs(j))
<1>1. /\ Typed /\ Queues /\ j \in Jobs /\ jobs[j].kind = "leave" /\ jobs[j].cell \in Cells
      /\ jobs[j] \in JobRecords
  BY AnswerIs DEF Basic, LeaveStep
<1>2. CASE jobs[j].step = "dropView" /\ Goes(j, "dropTable")
  <2>1. Typed' /\ Reposts(j) /\ Advances(j, "dropTable")
    BY <1>2, GoesOn DEF Steps, LangSteps
  <2> QED
    BY <1>1, <1>2, <2>1 DEF Drops
<1>3. CASE /\ jobs[j].step = "dropTable"
           /\ Place(jobs[j].cell) < Len(doc)
           /\ answered' = Tail(answered)
           /\ asked' = Append(asked, j)
           /\ jobs' = [jobs EXCEPT ![j].step = "dropView",
                                   ![j].cell = doc[Place(jobs[j].cell) + 1]]
           /\ UNCHANGED <<screen, gen, aborts, rel, lineage, batches, acts>>
  <2> DEFINE next == doc[Place(jobs[j].cell) + 1]
             r == [[jobs[j] EXCEPT !.step = "dropView"] EXCEPT !.cell = next]
  <2>1. Reposts(j)
    BY <1>1, <1>3, RepostsWhen DEF Answers
  <2>2. Place(jobs[j].cell) \in 1..Len(doc)
    BY <1>1, PlaceOf
  <2>3. next \in Cells
    BY <1>1, <1>3, <2>2 DEF Typed
  <2>4. jobs' = [jobs EXCEPT ![j] = r]
    <3>1. jobs \in [Jobs -> JobRecords]
      BY <1>1 DEF Typed
    <3> HIDE DEF next
    <3>2. jobs' = [[jobs EXCEPT ![j] = [jobs[j] EXCEPT !.step = "dropView"]] EXCEPT ![j].cell = next]
      BY <1>1, <1>3, <3>1 DEF next
    <3> QED
      BY <1>1, <3>1, <3>2
  <2> HIDE DEF next
  <2>5. /\ r \in JobRecords /\ r.kind = "leave" /\ r.step = "dropView" /\ r.cell = next
    BY <1>1, <2>3 DEF JobRecords, Steps, LangSteps
  <2> HIDE DEF r
  <2>6. jobs' \in [Jobs -> JobRecords] /\ jobs'[j] = r /\ Others({}, j)
    BY <1>1, <2>4, <2>5, SetJob
  <2>7. Typed'
    BY <1>1, <1>3, <2>6 DEF Typed, screen
  <2>8. Proceeds(j)
    BY <1>1, <1>3, <2>1, <2>5, <2>6 DEF Proceeds, screen, next
  <2> QED
    BY <2>7, <2>8
<1>4. CASE /\ jobs[j].step = "dropTable"
           /\ Place(jobs[j].cell) = Len(doc)
           /\ answered' = Tail(answered)
           /\ jobs' = [jobs EXCEPT ![j] = Free]
           /\ doc' = <<>>
           /\ lineage' = [c \in Cells |-> {}]
           /\ UNCHANGED <<inputs, code, sel, status, shown, gen, aborts, asked, rel, batches, acts>>
  <2>1. Takes(j)
    BY <1>1, <1>4, TakesWhen DEF Answers
  <2>2. jobs' \in [Jobs -> JobRecords] /\ Frees(j)
    BY <1>1, <1>4, SetJob, RecordsAre DEF Frees
  <2>3. doc' \in Seq(Cells) /\ IsInjective(doc') /\ lineage' \in [Cells -> SUBSET Cells]
    BY <1>4 DEF IsInjective
  <2>4. Typed'
    BY <1>1, <1>4, <2>2, <2>3 DEF Typed
  <2>5. Departs(j)
    BY <1>1, <1>4, <2>1, <2>2 DEF Departs
  <2> QED
    BY <2>4, <2>5
<1> QED
  BY <1>2, <1>3, <1>4 DEF LeaveStep

LEMMA ComputedStep ==
  ASSUME Basic, NEW j \in Jobs, Computed(j)
  PROVE  Typed' /\ (Buffers(j) \/ Finishes(j, "error"))
<1>1. Typed /\ Queues /\ jobs[j].kind = "lang" /\ jobs[j].step = "load" /\ answered' = answered
  BY DEF Basic, Computed
<1>2. CASE LangEnds(j, "error")
  <2>1. Stays
    BY <1>1, <1>2, StaysWhen DEF LangEnds
  <2> QED
    BY <1>1, <1>2, <2>1, FinishesWhen
<1>3. CASE /\ ~jobs[j].aborted
           /\ asked' = Append(asked, j)
           /\ jobs' = [jobs EXCEPT ![j].step = "buffer"]
           /\ UNCHANGED <<screen, gen, aborts, rel, lineage, batches, acts>>
  <2>1. ~Asked(j) /\ ~Answered(j)
    BY <1>1 DEF Queues
  <2>2. Posts(j)
    BY <1>1, <1>3, <2>1, PostsWhen
  <2>3. jobs' \in [Jobs -> JobRecords] /\ Advances(j, "buffer")
    BY <1>1, <1>3, SetStep DEF Steps, LangSteps
  <2>4. Typed'
    BY <1>1, <1>3, <2>3 DEF Typed, screen
  <2> QED
    BY <1>1, <1>3, <2>2, <2>3, <2>4 DEF Buffers
<1> QED
  BY <1>2, <1>3 DEF Computed

(* The cell that is being dropped while leaving is one of the notebook.    *)
LeavesListed == \A j \in Jobs : jobs[j].kind = "leave" => Listed(jobs[j].cell)

LEMMA EveryStep ==
  ASSUME Basic, LeavesListed, [Next]_vars
  PROVE  Typed' /\ (UserSteps \/ \E j \in Jobs : JobSteps(j))
<1>1. CASE \E e \in Edits : Type(e[1], e[2])
  <2>1. PICK e \in Edits : Type(e[1], e[2])
    BY <1>1
  <2>2. e[1] \in Cells /\ e[2] \in Codes
    BY CodesAssumption
  <2> QED
    BY <2>1, <2>2, TypeStep DEF UserSteps
<1>2. ASSUME NEW c \in Cells, Run(c) PROVE Typed' /\ UserSteps
  <2>1. Apt /\ RunCell(c, 0, batches) /\ batches \in [Batches -> BatchRecords]
    BY <1>2, ActApt DEF Run, Basic, Typed
  <2> QED
    BY <2>1, RunCellStep DEF UserSteps
<1>3. ASSUME NEW c \in Cells, DeleteCell(c) \/ RunLanguage(c) PROVE Typed' /\ UserSteps
  BY <1>3, DeleteStep, LanguageStep DEF UserSteps
<1>4. CASE RunAll \/ Brush \/ Escape \/ Leave
  BY <1>4, RunAllStep, BrushStep, EscapeStep, LeaveBegins DEF UserSteps
<1>5. CASE Execute
  BY <1>5, ExecuteStep DEF JobSteps
<1>6. CASE Continue
  <2> DEFINE j == Head(answered)
  <2>1. Answers(j) /\ (SqlStep(j) \/ LangStep(j) \/ LineageStep(j) \/ DropStep(j) \/ LeaveStep(j))
    BY <1>6 DEF Continue, Answers
  <2> HIDE DEF j
  <2>2. j \in Jobs
    BY <2>1, AnswerIs
  <2>3. LeaveStep(j) => Listed(jobs[j].cell)
    BY <2>2 DEF LeavesListed, LeaveStep
  <2>4. Typed' /\ JobSteps(j)
    BY <2>1, <2>3, SqlContinues, LangContinues, LineageContinues, DropContinues, LeaveContinues
       DEF JobSteps
  <2> QED
    BY <2>2, <2>4
<1>7. ASSUME NEW b \in Batches, NextCell(b) PROVE Typed' /\ UserSteps
  BY <1>7, NextCellStep DEF UserSteps
<1>8. ASSUME NEW j \in Jobs, Computed(j) PROVE Typed' /\ JobSteps(j)
  BY <1>8, ComputedStep DEF JobSteps
<1>9. CASE UNCHANGED vars
  <2>1. UNCHANGED <<doc, inputs, code, sel, status, shown, gen, aborts, jobs, asked, answered, rel,
                    lineage, batches, acts>>
    BY <1>9 DEF vars, screen, worker
  <2>2. Idle
    BY <2>1, StaysWhen DEF Basic, Idle, Still
  <2>3. Typed'
    BY <2>1 DEF Basic, Typed
  <2> QED
    BY <2>2, <2>3 DEF UserSteps
<1> QED
  BY <1>1, <1>2, <1>3, <1>4, <1>5, <1>6, <1>7, <1>8, <1>9 DEF Next, User, System

-----------------------------------------------------------------------------
(* The jobs and the queue stay in step.                                    *)

LEMMA KeptSteps ==
  ASSUME Basic, UNCHANGED inputs, NEW S, NEW j, Others(S, j)
  PROVE  \A i \in Jobs \ {j} :
            /\ jobs'[i].kind # "free" /\ jobs'[i].step # "load"
                 <=> jobs[i].kind # "free" /\ jobs[i].step # "load"
            /\ StepsOf(jobs[i])'
<1> TAKE i \in Jobs \ {j}
<1>1. Alike(jobs'[i], jobs[i]) /\ (jobs[i].aborted => jobs'[i].aborted)
  BY DEF Others
<1>2. StepsOf(jobs[i])
  BY DEF Basic, Stepped
<1> QED
  BY <1>1, <1>2 DEF StepsOf, Alike

LEMMA BasicAfterUser ==
  ASSUME Basic, UserSteps, Typed'
  PROVE  Basic'
<1>1. Typed /\ Queues /\ Stepped
  BY DEF Basic
<1>2. CASE Idle \/ Quiet \/ \E c \in Cells : Refuses(c)
  <2>1. Stays /\ UNCHANGED <<inputs, jobs>>
    BY <1>2 DEF Idle, Quiet, Still, Refuses
  <2>2. Queues'
    BY <1>1, <2>1 DEF Queues, Stays
  <2>3. Stepped'
    BY <1>1, <2>1 DEF Stepped, StepsOf
  <2> QED
    BY <2>2, <2>3 DEF Basic
<1>3. ASSUME NEW S, Others(S, None), Stays, UNCHANGED inputs PROVE Basic'
  <2>1. \A j \in Jobs : j \in Jobs \ {None}
    BY RecordsAre
  <2>2. Queues'
    BY <1>1, <1>3, <2>1, KeptSteps DEF Queues, Stays
  <2>3. Stepped'
    BY <1>1, <1>3, <2>1, KeptSteps DEF Stepped
  <2> QED
    BY <2>2, <2>3 DEF Basic
<1>4. ASSUME NEW S, NEW j \in Jobs, Posts(j), Others(S, j), UNCHANGED inputs,
             jobs'[j].kind # "free", jobs'[j].step # "load", StepsOf(jobs[j])'
      PROVE  Basic'
  <2>1. Queues'
    BY <1>1, <1>4, KeptSteps DEF Queues, Posts
  <2>2. Stepped'
    BY <1>1, <1>4, KeptSteps DEF Stepped
  <2> QED
    BY <2>1, <2>2 DEF Basic
<1>5. ASSUME NEW c \in Cells, Gives(c) PROVE Basic'
  BY <1>3, <1>5 DEF Gives
<1>6. ASSUME NEW S \in SUBSET Jobs, Escapes(S) PROVE Basic'
  BY <1>3, <1>6 DEF Escapes
<1>7. ASSUME NEW c \in Cells, NEW j \in Jobs, Starts(c, j) PROVE Basic'
  <2>1. UNCHANGED inputs /\ code[c] \in Codes
    BY <1>1, <1>7, SelectedTyped DEF Starts
  <2>2. jobs'[j].kind # "free" /\ jobs'[j].step # "load" /\ StepsOf(jobs[j])'
    BY <1>7, <2>1 DEF Starts, StepsOf, LangSteps
  <2>3. Posts(j) /\ Others(Controllers(c), j)
    BY <1>7 DEF Starts
  <2> QED
    BY <1>4, <2>1, <2>2, <2>3
<1>8. ASSUME NEW c \in Cells, NEW j \in Jobs, Deletes(c, j) PROVE Basic'
  <2>1. jobs'[j].kind # "free" /\ jobs'[j].step # "load" /\ StepsOf(jobs[j])'
    BY <1>8 DEF Deletes, StepsOf
  <2>2. Posts(j) /\ Others(Controllers(c), j) /\ UNCHANGED inputs
    BY <1>8 DEF Deletes
  <2> QED
    BY <1>4, <2>1, <2>2
<1>9. ASSUME NEW j \in Jobs, Leaves(j) PROVE Basic'
  <2>1. doc[1] \in Cells
    BY <1>1, <1>9 DEF Leaves, Typed
  <2>2. jobs'[j].kind # "free" /\ jobs'[j].step # "load" /\ StepsOf(jobs[j])'
    BY <1>9, <2>1 DEF Leaves, StepsOf
  <2>3. Posts(j) /\ Others(UNION {Controllers(c) : c \in Cells}, j) /\ UNCHANGED inputs
    BY <1>9 DEF Leaves
  <2> QED
    BY <1>4, <2>2, <2>3
<1> QED
  BY <1>2, <1>5, <1>6, <1>7, <1>8, <1>9 DEF UserSteps

LEMMA BasicAfterJob ==
  ASSUME Basic, LeavesListed, NEW j \in Jobs, JobSteps(j), Typed'
  PROVE  Basic'
<1>1. Typed /\ Queues /\ Stepped
  BY DEF Basic
<1>2. Others({}, j) /\ UNCHANGED inputs
  BY DEF JobSteps, Ran, Selects, Follows, Loads, Buffers, Drops, Asks, Proceeds, Dropped, Recorded,
     Departs, Fails, Succeeds, Finishes, Advances, Frees
<1>3. /\ \A i \in Jobs \ {j} : /\ jobs'[i].kind # "free" /\ jobs'[i].step # "load"
                                   <=> jobs[i].kind # "free" /\ jobs[i].step # "load"
                               /\ StepsOf(jobs[i])'
  BY <1>2, KeptSteps
<1>4. StepsOf(jobs[j]) /\ ((Asked(j) \/ Answered(j)) <=> jobs[j].kind # "free" /\ jobs[j].step # "load")
  BY <1>1 DEF Stepped, Queues
<1>5. SUFFICES /\ StepsOf(jobs[j])' /\ OneQueue(answered', asked')
               /\ \A i \in Jobs \ {j} : Asked(i)' \/ Answered(i)' <=> Asked(i) \/ Answered(i)
               /\ (Asked(j)' \/ Answered(j)') <=> jobs'[j].kind # "free" /\ jobs'[j].step # "load"
  <2>1. Queues'
    BY <1>1, <1>3, <1>5 DEF Queues
  <2>2. Stepped'
    BY <1>3, <1>5 DEF Stepped
  <2> QED
    BY <2>1, <2>2 DEF Basic
<1>6. CASE Ran(j)
  BY <1>4, <1>6 DEF Ran, Executes, StepsOf
<1>7. CASE Selects(j) \/ Drops(j) \/ Asks(j)
  BY <1>4, <1>7 DEF Selects, Drops, Asks, Advances, Reposts, First, StepsOf
<1>8. ASSUME NEW s \in LangSteps, Follows(j, s)
      PROVE  /\ StepsOf(jobs[j])' /\ OneQueue(answered', asked')
             /\ \A i \in Jobs \ {j} : Asked(i)' \/ Answered(i)' <=> Asked(i) \/ Answered(i)
             /\ (Asked(j)' \/ Answered(j)') <=> jobs'[j].kind # "free" /\ jobs'[j].step # "load"
  <2>1. s # "load" /\ (s \in {"dropView", "dropTable"} => jobs[j].aborted)
    BY <1>4, <1>8 DEF Follows, After, StepsOf
  <2> QED
    BY <1>4, <1>8, <2>1 DEF Follows, Advances, Reposts, First, StepsOf
<1>9. CASE Loads(j)
  BY <1>4, <1>9 DEF Loads, Advances, Takes, First, StepsOf, LangSteps
<1>10. CASE Buffers(j)
  BY <1>4, <1>10 DEF Buffers, Advances, Posts, StepsOf, LangSteps
<1>11. CASE Proceeds(j)
  <2>1. jobs[j].cell \in Cells /\ jobs'[j].cell \in Cells
    <3>1. Listed(jobs[j].cell)
      BY <1>11 DEF LeavesListed, Proceeds
    <3>2. Place(jobs[j].cell) \in 1..Len(doc)
      BY <1>1, <3>1, PlaceOf
    <3>3. Place(jobs[j].cell) + 1 \in 1..Len(doc) /\ doc \in Seq(Cells)
      BY <1>1, <1>11, <3>2 DEF Proceeds, Typed
    <3>4. doc[Place(jobs[j].cell) + 1] \in Cells
      BY <3>3
    <3>5. jobs[j].cell \in Cells
      BY <1>11, CellOfJob DEF Proceeds
    <3> QED
      BY <1>11, <3>4, <3>5 DEF Proceeds
  <2> QED
    BY <1>4, <1>11, <2>1 DEF Proceeds, Reposts, First, StepsOf
<1>12. CASE Dropped(j) \/ Recorded(j) \/ Departs(j) \/ Fails(j)
  BY <1>4, <1>12 DEF Dropped, Recorded, Departs, Fails, Frees, Takes, First, StepsOf, Free
<1>13. CASE Succeeds(j)
  <2>1. jobs[j].kind = "sql"
    BY <1>13 DEF Succeeds
  <2>2. CASE jobs[j].step = "direct" /\ Takes(j) /\ Frees(j)
    BY <1>4, <2>2 DEF Frees, Takes, First, StepsOf, Free
  <2>3. CASE /\ jobs[j].step = "select" /\ Reposts(j)
             /\ jobs'[j].kind = "lineage" /\ jobs'[j].step = "explain"
             /\ jobs'[j].cell = jobs[j].cell /\ jobs'[j].code = jobs[j].code
    BY <1>2, <1>4, <2>1, <2>3 DEF Reposts, First, StepsOf
  <2> QED
    BY <1>13, <2>2, <2>3 DEF Succeeds
<1>14. ASSUME NEW o \in {"success", "error"}, Finishes(j, o)
       PROVE  /\ StepsOf(jobs[j])' /\ OneQueue(answered', asked')
              /\ \A i \in Jobs \ {j} : Asked(i)' \/ Answered(i)' <=> Asked(i) \/ Answered(i)
              /\ (Asked(j)' \/ Answered(j)') <=> jobs'[j].kind # "free" /\ jobs'[j].step # "load"
  <2>1. CASE Takes(j)
    BY <1>14, <2>1 DEF Finishes, Frees, Takes, First, StepsOf, Free
  <2>2. CASE jobs[j].step = "load" /\ Stays
    BY <1>4, <1>14, <2>2 DEF Finishes, Frees, Stays, StepsOf, Free
  <2> QED
    BY <1>14, <2>1, <2>2 DEF Finishes
<1> QED
  BY <1>6, <1>7, <1>8, <1>9, <1>10, <1>11, <1>12, <1>13, <1>14 DEF JobSteps

LEMMA BasicInitially ==
  ASSUME Init
  PROVE  Basic
<1>1. PICK nb \in Notebooks :
        /\ doc = nb.doc /\ code = nb.code /\ inputs = nb.inputs
        /\ shown = [c \in Cells |-> IF c \in nb.saved
                                   THEN [code |-> nb.code[c], sel |-> 0, rows |-> {},
                                         snapshot |-> TRUE]
                                   ELSE NoRows]
        /\ status = [c \in Cells |-> IF c \in nb.saved THEN "success" ELSE "idle"]
  BY DEF Init
<1>2. /\ nb.doc \in Seq(Cells) /\ IsInjective(nb.doc) /\ nb.code \in [Cells -> Codes]
      /\ DOMAIN nb.inputs \subseteq Cells /\ nb.inputs \in [DOMAIN nb.inputs -> Cells]
  BY NotebooksAssumption
<1>3. \A c \in Cells : [code |-> nb.code[c], sel |-> 0, rows |-> {}, snapshot |-> TRUE] \in ShownRecords
  BY <1>2 DEF ShownRecords, RowSets
<1>4. shown \in [Cells -> ShownRecords]
  BY <1>1, <1>3, RecordsAre
<1>5. NoBatch \in BatchRecords
  BY DEF NoBatch, BatchRecords
<1>6. Typed
  BY <1>1, <1>2, <1>4, <1>5, RecordsAre DEF Init, Typed
<1>7. Queues
  BY DEF Init, Queues, OneQueue, IsInjective, Asked, Answered, Range, Free
<1>8. Stepped
  BY DEF Init, Stepped, StepsOf, Free
<1> QED
  BY <1>6, <1>7, <1>8 DEF Basic

-----------------------------------------------------------------------------
(* Controllers: who is registered for a cell, and who is not.              *)

Registered ==
    \A c \in Cells : aborts[c] # None =>
        /\ Running(aborts[c]) /\ jobs[aborts[c]].cell = c /\ IsLatest(aborts[c]) /\ Listed(c)
        /\ jobs[aborts[c]].kind = "lang" /\ jobs[aborts[c]].aborted => status[c] # "running"

Watched == \A c \in Cells : Listed(c) /\ status[c] = "running" /\ ~Leaving => aborts[c] # None

Tracked == \A j \in Jobs : Running(j) /\ ~jobs[j].aborted => aborts[jobs[j].cell] = j

Numbered ==
    /\ \A j \in Jobs : Running(j) => jobs[j].gen <= gen[jobs[j].cell]
    /\ \A i, j \in Jobs :
          Running(i) /\ Running(j) /\ jobs[i].cell = jobs[j].cell /\ jobs[i].gen = jobs[j].gen
             => i = j

Undecided == \A j \in Jobs : Running(j) /\ IsLatest(j) => status[jobs[j].cell] # "success"

Parting ==
    /\ Leaving => Settled /\ \A c \in Cells : aborts[c] = None
    /\ \A i, j \in Jobs : jobs[i].kind = "leave" /\ jobs[j].kind = "leave" => i = j
    /\ LeavesListed
    /\ \A j \in Jobs : jobs[j].kind = "drop" => ~Listed(jobs[j].cell)

Controls == Registered /\ Watched /\ Tracked /\ Numbered /\ Undecided /\ Parting

LEMMA RunningCell ==
  ASSUME Basic
  PROVE  /\ \A i \in Jobs : /\ Running(i) => jobs[i].cell \in Cells
                            /\ jobs[i].kind \in {"drop", "leave"} => jobs[i].cell \in Cells
                            /\ jobs[i].gen \in Nat
         /\ \A c \in Cells : gen[c] \in Nat /\ (aborts[c] # None => aborts[c] \in Jobs)
BY CellOfJob DEF Basic, Typed, JobRecords, Running

LEMMA ControlsSame ==
  ASSUME Basic, Controls, UNCHANGED <<doc, status, gen, aborts>>,
         \A i \in Jobs : /\ jobs'[i].kind = jobs[i].kind /\ jobs'[i].cell = jobs[i].cell
                         /\ jobs'[i].gen = jobs[i].gen /\ (jobs'[i].aborted <=> jobs[i].aborted),
         Leaving => Settled'
  PROVE  Controls'
<1>1. /\ \A i \in Jobs : (Running(i)' <=> Running(i)) /\ (Running(i) => (IsLatest(i)' <=> IsLatest(i)))
      /\ Leaving' <=> Leaving
      /\ \A c \in Cells : Listed(c)' <=> Listed(c)
  BY DEF Running, IsLatest, Leaving, Listed
<1>2. Registered'
  BY <1>1, RunningCell DEF Controls, Registered
<1>3. Watched' /\ Tracked' /\ Undecided'
  BY <1>1 DEF Controls, Watched, Tracked, Undecided
<1>4. Numbered'
  BY <1>1 DEF Controls, Numbered
<1>5. Parting'
  BY <1>1, RunningCell DEF Controls, Parting, LeavesListed
<1> QED
  BY <1>2, <1>3, <1>4, <1>5 DEF Controls

LEMMA ControlsAfterUser ==
  ASSUME Basic, Controls, UserSteps
  PROVE  Controls'
<1>1. Typed /\ Registered /\ Watched /\ Tracked /\ Numbered /\ Undecided /\ Parting
  BY DEF Basic, Controls
<1>2. /\ \A i \in Jobs : /\ Running(i) => jobs[i].cell \in Cells
                         /\ jobs[i].kind \in {"drop", "leave"} => jobs[i].cell \in Cells
                         /\ jobs[i].gen \in Nat
      /\ \A c \in Cells : gen[c] \in Nat /\ (aborts[c] # None => aborts[c] \in Jobs)
      /\ Apt => ~Leaving
  BY <1>1, RunningCell DEF Parting, Apt
<1>3. CASE Idle \/ Quiet
  <2>1. UNCHANGED <<doc, status, gen, aborts, jobs>> /\ (Leaving => Settled')
    BY <1>1, <1>2, <1>3 DEF Idle, Quiet, Still, Parting, Settled
  <2> QED
    BY <2>1, ControlsSame
<1>4. ASSUME NEW c \in Cells, Refuses(c) PROVE Controls'
  <2>1. /\ \A i \in Jobs : (Running(i)' <=> Running(i)) /\ (Running(i) => (IsLatest(i)' <=> IsLatest(i)))
        /\ ~Leaving /\ ~Leaving'
        /\ \A d \in Cells : /\ Listed(d)' <=> Listed(d)
                            /\ status'[d] = IF d = c THEN "error" ELSE status[d]
    BY <1>1, <1>2, <1>4 DEF Refuses, Running, IsLatest, Leaving, Listed, Typed
  <2>2. Registered'
    BY <1>1, <1>2, <1>4, <2>1 DEF Refuses, Registered
  <2>3. Watched' /\ Tracked' /\ Undecided' /\ Numbered'
    BY <1>1, <1>2, <1>4, <2>1 DEF Refuses, Watched, Tracked, Undecided, Numbered
  <2>4. Parting'
    BY <1>1, <1>2, <1>4, <2>1 DEF Refuses, Parting, LeavesListed, Leaving
  <2> QED
    BY <2>2, <2>3, <2>4 DEF Controls
<1>5. ASSUME NEW c \in Cells, Gives(c) PROVE Controls'
  <2>1. /\ \A i \in Jobs : /\ Running(i)' <=> Running(i)
                           /\ jobs'[i].kind = jobs[i].kind /\ jobs'[i].cell = jobs[i].cell
                           /\ jobs'[i].gen = jobs[i].gen
                           /\ jobs'[i].aborted <=> jobs[i].aborted \/ (aborts[c] # None /\ i = aborts[c])
        /\ ~Leaving /\ ~Leaving'
        /\ \A d \in Cells : /\ Listed(d)' <=> Listed(d)
                            /\ status'[d] = IF d = c THEN "error" ELSE status[d]
                            /\ gen'[d] = IF d = c THEN gen[c] + 1 ELSE gen[d]
                            /\ aborts'[d] = IF d = c THEN None ELSE aborts[d]
    <3>1. \A i \in Jobs : i # None /\ (i \in Controllers(c) <=> aborts[c] # None /\ i = aborts[c])
      BY RecordsAre DEF Controllers
    <3> QED
      BY <1>1, <1>2, <1>5, <3>1 DEF Gives, Others, Alike, Running, Leaving, Listed, Typed
  <2>2. \A i \in Jobs : Running(i) => (IsLatest(i)' <=> IsLatest(i) /\ jobs[i].cell # c)
    BY <1>1, <1>2, <2>1 DEF IsLatest, Numbered
  <2>3. Registered'
    BY <1>1, <1>2, <2>1, <2>2 DEF Registered
  <2>4. Watched' /\ Tracked' /\ Undecided'
    BY <1>1, <1>2, <1>5, <2>1, <2>2 DEF Watched, Tracked, Undecided
  <2>5. Numbered'
    BY <1>1, <1>2, <2>1 DEF Numbered
  <2>6. Parting'
    BY <1>1, <1>2, <2>1 DEF Parting, LeavesListed, Leaving
  <2> QED
    BY <2>3, <2>4, <2>5, <2>6 DEF Controls
<1>6. ASSUME NEW c \in Cells, NEW j \in Jobs, Starts(c, j) PROVE Controls'
  <2>1. /\ \A i \in Jobs \ {j} :
              /\ Running(i)' <=> Running(i)
              /\ jobs'[i].kind = jobs[i].kind /\ jobs'[i].cell = jobs[i].cell
              /\ jobs'[i].gen = jobs[i].gen
              /\ jobs'[i].aborted <=> jobs[i].aborted \/ (aborts[c] # None /\ i = aborts[c])
        /\ Running(j)' /\ ~Running(j) /\ ~jobs'[j].aborted /\ jobs'[j].cell = c
        /\ jobs'[j].gen = gen[c] + 1 /\ jobs'[j].kind \in {"sql", "lang"}
        /\ ~Leaving /\ ~Leaving'
        /\ \A d \in Cells : /\ Listed(d)' <=> Listed(d)
                            /\ status'[d] = IF d = c THEN "running" ELSE status[d]
                            /\ gen'[d] = IF d = c THEN gen[c] + 1 ELSE gen[d]
                            /\ aborts'[d] = IF d = c THEN j ELSE aborts[d]
        /\ Listed(c)
    <3>1. /\ jobs'[j].kind \in {"sql", "lang"} /\ ~jobs'[j].aborted /\ jobs'[j].cell = c
          /\ jobs'[j].gen = gen[c] + 1 /\ jobs[j].kind = "free" /\ Listed(c) /\ ~Leaving
      BY <1>2, <1>6 DEF Starts
    <3>2. \A i \in Jobs \ {j} :
              /\ jobs'[i].kind = jobs[i].kind /\ jobs'[i].cell = jobs[i].cell
              /\ jobs'[i].gen = jobs[i].gen
              /\ jobs'[i].aborted <=> jobs[i].aborted \/ (aborts[c] # None /\ i = aborts[c])
      BY <1>6 DEF Starts, Others, Alike, Controllers
    <3>3. \A d \in Cells :
                            /\ Listed(d)' <=> Listed(d)
                            /\ status'[d] = IF d = c THEN "running" ELSE status[d]
                            /\ gen'[d] = IF d = c THEN gen[c] + 1 ELSE gen[d]
                            /\ aborts'[d] = IF d = c THEN j ELSE aborts[d]
      <4>1. /\ gen' = [gen EXCEPT ![c] = @ + 1] /\ aborts' = [aborts EXCEPT ![c] = j]
            /\ status' = [status EXCEPT ![c] = "running"] /\ UNCHANGED doc
        BY <1>6 DEF Starts
      <4>2. /\ gen \in [Cells -> Nat] /\ DOMAIN aborts = Cells /\ DOMAIN status = Cells
        BY <1>1 DEF Typed
      <4> QED
        BY <4>1, <4>2 DEF Listed
    <3>4. \A i \in Jobs \ {j} : Running(i)' <=> Running(i)
      BY <3>2 DEF Running
    <3>5. Running(j)' /\ ~Running(j)
      BY <3>1 DEF Running
    <3>6. ~Leaving'
      BY <3>1, <3>2 DEF Leaving
    <3> QED
      BY <3>1, <3>2, <3>3, <3>4, <3>5, <3>6
  <2>2. /\ \A i \in Jobs \ {j} : Running(i) => (IsLatest(i)' <=> IsLatest(i) /\ jobs[i].cell # c)
        /\ IsLatest(j)'
    BY <1>1, <1>2, <2>1 DEF IsLatest, Numbered
  <2>3. \A d \in Cells : aborts[d] # j
    BY <1>1, <2>1, RecordsAre DEF Registered
  <2>4. Registered'
    BY <1>1, <1>2, <2>1, <2>2, <2>3, RecordsAre DEF Registered
  <2>5. Watched' /\ Tracked'
    BY <1>1, <1>2, <2>1, <2>2, <2>3, RecordsAre DEF Watched, Tracked
  <2>6. Undecided'
    BY <1>1, <1>2, <2>1, <2>2 DEF Undecided
  <2>7. Numbered'
    BY <1>1, <1>2, <2>1 DEF Numbered
  <2>8. Parting'
    BY <1>1, <1>2, <2>1 DEF Parting, LeavesListed, Leaving
  <2> QED
    BY <2>4, <2>5, <2>6, <2>7, <2>8 DEF Controls
<1>7. ASSUME NEW S \in SUBSET Jobs, Escapes(S) PROVE Controls'
  <2>1. /\ \A i \in Jobs :
              /\ Running(i)' <=> Running(i)
              /\ jobs'[i].kind = jobs[i].kind /\ jobs'[i].cell = jobs[i].cell
              /\ jobs'[i].gen = jobs[i].gen
              /\ jobs'[i].aborted <=> jobs[i].aborted \/ i \in S
              /\ IsLatest(i)' <=> IsLatest(i)
        /\ ~Leaving /\ ~Leaving' /\ UNCHANGED <<gen, aborts>>
        /\ \A d \in Cells : /\ Listed(d)' <=> Listed(d)
                            /\ status'[d] \in {status[d], "idle"}
                            /\ \A i \in S : jobs[i].kind = "lang" /\ jobs[i].cell = d
                                  /\ ~jobs[i].aborted /\ IsLatest(i) => status'[d] = "idle"
    BY <1>1, <1>2, <1>7, RecordsAre
       DEF Escapes, Others, Alike, Running, Leaving, Listed, IsLatest, Silenced
  <2>2. S \in SUBSET {aborts[d] : d \in Cells}
    BY <1>7 DEF Escapes
  <2>3. Registered'
    <3> SUFFICES ASSUME NEW d \in Cells, aborts[d] # None
                 PROVE  /\ Running(aborts[d])' /\ jobs'[aborts[d]].cell = d /\ IsLatest(aborts[d])'
                        /\ Listed(d)'
                        /\ jobs'[aborts[d]].kind = "lang" /\ jobs'[aborts[d]].aborted
                              => status'[d] # "running"
      BY <2>1 DEF Registered
    <3>0. PICK i \in Jobs : i = aborts[d]
      BY <1>2
    <3>1. /\ i \in Jobs /\ Running(i) /\ jobs[i].cell = d /\ IsLatest(i) /\ Listed(d)
          /\ jobs[i].kind = "lang" /\ jobs[i].aborted => status[d] # "running"
      BY <1>1, <3>0 DEF Registered
    <3>2. jobs[i].kind = "lang" /\ (jobs[i].aborted \/ i \in S) => status'[d] # "running"
      BY <2>1, <3>1
    <3>3. Running(i)' /\ jobs'[i].cell = d /\ IsLatest(i)' /\ Listed(d)'
          /\ (jobs'[i].kind = "lang" /\ jobs'[i].aborted => status'[d] # "running")
      BY <2>1, <3>1, <3>2
    <3> QED
      BY <3>0, <3>3, <2>1 DEF Running, IsLatest
  <2>4. Watched'
    BY <1>1, <1>2, <2>1 DEF Watched
  <2>5. Tracked' /\ Undecided'
    BY <1>1, <1>2, <2>1 DEF Tracked, Undecided
  <2>6. Numbered'
    BY <1>1, <1>2, <2>1 DEF Numbered
  <2>7. Parting'
    BY <1>1, <1>2, <2>1 DEF Parting, LeavesListed, Leaving
  <2> QED
    BY <2>3, <2>4, <2>5, <2>6, <2>7 DEF Controls
<1>8. ASSUME NEW c \in Cells, NEW j \in Jobs, Deletes(c, j) PROVE Controls'
  <2>1. /\ \A i \in Jobs \ {j} :
              /\ Running(i)' <=> Running(i)
              /\ jobs'[i].kind = jobs[i].kind /\ jobs'[i].cell = jobs[i].cell
              /\ jobs'[i].gen = jobs[i].gen
              /\ jobs'[i].aborted <=> jobs[i].aborted \/ (aborts[c] # None /\ i = aborts[c])
        /\ ~Running(j)' /\ ~Running(j) /\ jobs'[j].cell = c /\ jobs'[j].kind = "drop"
        /\ ~Leaving /\ ~Leaving' /\ UNCHANGED status
        /\ \A d \in Cells : /\ Listed(d)' <=> Listed(d) /\ d # c
                            /\ gen'[d] = IF d = c THEN gen[c] + 1 ELSE gen[d]
                            /\ aborts'[d] = IF d = c THEN None ELSE aborts[d]
    <3>1. /\ jobs'[j].kind = "drop" /\ jobs'[j].cell = c /\ jobs[j].kind = "free" /\ ~Leaving
          /\ UNCHANGED status
      BY <1>2, <1>8 DEF Deletes
    <3>2. \A i \in Jobs \ {j} :
              /\ jobs'[i].kind = jobs[i].kind /\ jobs'[i].cell = jobs[i].cell
              /\ jobs'[i].gen = jobs[i].gen
              /\ jobs'[i].aborted <=> jobs[i].aborted \/ (aborts[c] # None /\ i = aborts[c])
      BY <1>8 DEF Deletes, Others, Alike, Controllers
    <3>3. \A d \in Cells :
                            /\ Listed(d)' <=> Listed(d) /\ d # c
                            /\ gen'[d] = IF d = c THEN gen[c] + 1 ELSE gen[d]
                            /\ aborts'[d] = IF d = c THEN None ELSE aborts[d]
      <4>1. /\ gen' = [gen EXCEPT ![c] = @ + 1] /\ aborts' = [aborts EXCEPT ![c] = None]
            /\ Range(doc') = Range(doc) \ {c}
        BY <1>8 DEF Deletes
      <4>2. /\ gen \in [Cells -> Nat] /\ DOMAIN aborts = Cells
        BY <1>1 DEF Typed
      <4> QED
        BY <4>1, <4>2 DEF Listed
    <3>4. \A i \in Jobs \ {j} : Running(i)' <=> Running(i)
      BY <3>2 DEF Running
    <3>5. ~Running(j)' /\ ~Running(j)
      BY <3>1 DEF Running
    <3>6. ~Leaving'
      BY <3>1, <3>2 DEF Leaving
    <3> QED
      BY <3>1, <3>2, <3>3, <3>4, <3>5, <3>6
  <2>2. \A i \in Jobs \ {j} : Running(i) => (IsLatest(i)' <=> IsLatest(i) /\ jobs[i].cell # c)
    BY <1>1, <1>2, <2>1 DEF IsLatest, Numbered
  <2>3. \A d \in Cells : aborts[d] # j
    BY <1>1, <2>1, RecordsAre DEF Registered
  <2>4. Registered'
    BY <1>1, <1>2, <2>1, <2>2, <2>3 DEF Registered
  <2>5. Watched' /\ Tracked' /\ Undecided'
    BY <1>1, <1>2, <2>1, <2>2, <2>3 DEF Watched, Tracked, Undecided
  <2>6. Numbered'
    BY <1>1, <1>2, <2>1 DEF Numbered
  <2>7. Parting'
    BY <1>1, <1>2, <2>1 DEF Parting, LeavesListed, Leaving
  <2> QED
    BY <2>4, <2>5, <2>6, <2>7 DEF Controls
<1>9. ASSUME NEW j \in Jobs, Leaves(j) PROVE Controls'
  <2> DEFINE S == UNION {Controllers(c) : c \in Cells}
  <2>0. \A i \in Jobs : i \in S <=> \E d \in Cells : aborts[d] = i
    BY <1>1, RecordsAre DEF Controllers
  <2> HIDE DEF S
  <2>1. /\ \A i \in Jobs \ {j} :
              /\ Running(i)' <=> Running(i)
              /\ jobs'[i].kind = jobs[i].kind /\ jobs'[i].cell = jobs[i].cell
              /\ jobs'[i].gen = jobs[i].gen
              /\ jobs'[i].aborted <=> jobs[i].aborted \/ i \in S
        /\ ~Running(j)' /\ ~Running(j) /\ jobs'[j].cell = doc[1] /\ jobs'[j].kind = "leave"
        /\ ~Leaving /\ Leaving' /\ Listed(doc[1]) /\ doc[1] \in Cells /\ Settled'
        /\ \A d \in Cells : /\ Listed(d)' <=> Listed(d)
                            /\ gen'[d] = IF aborts[d] = None THEN gen[d] ELSE gen[d] + 1
                            /\ aborts'[d] = None
                            /\ status'[d] \in {status[d], "idle"}
    <3>1. /\ jobs'[j].kind = "leave" /\ jobs'[j].cell = doc[1] /\ jobs[j].kind = "free"
          /\ ~Leaving /\ Settled' /\ 1 \in DOMAIN doc
      BY <1>2, <1>9 DEF Leaves
    <3>2. \A i \in Jobs \ {j} :
              /\ jobs'[i].kind = jobs[i].kind /\ jobs'[i].cell = jobs[i].cell
              /\ jobs'[i].gen = jobs[i].gen
              /\ jobs'[i].aborted <=> jobs[i].aborted \/ i \in S
      BY <1>9 DEF Leaves, Others, Alike, S
    <3>3. \A d \in Cells :
                            /\ Listed(d)' <=> Listed(d)
                            /\ gen'[d] = IF aborts[d] = None THEN gen[d] ELSE gen[d] + 1
                            /\ aborts'[d] = None
                            /\ status'[d] \in {status[d], "idle"}
      <4>1. /\ gen' = [d \in Cells |-> IF aborts[d] = None THEN gen[d] ELSE gen[d] + 1]
            /\ aborts' = [d \in Cells |-> None] /\ UNCHANGED doc
            /\ \E T : status' = Silenced(T)
        BY <1>9 DEF Leaves
      <4> QED
        BY <4>1 DEF Listed, Silenced
    <3>4. Listed(doc[1]) /\ doc[1] \in Cells
      BY <1>1, <3>1 DEF Listed, Range, Typed
    <3>5. \A i \in Jobs \ {j} : Running(i)' <=> Running(i)
      BY <3>2 DEF Running
    <3>6. ~Running(j)' /\ ~Running(j) /\ Leaving'
      BY <3>1 DEF Running, Leaving
    <3> QED
      BY <3>1, <3>2, <3>3, <3>4, <3>5, <3>6
  <2>2. \A i \in Jobs \ {j} : Running(i) => (IsLatest(i)' => IsLatest(i))
    BY <1>1, <1>2, <2>1 DEF IsLatest, Numbered
  <2>3. Registered' /\ Watched'
    BY <2>1 DEF Registered, Watched
  <2>4. \A i \in Jobs : Running(i)' => jobs'[i].aborted
    BY <1>1, <1>2, <2>0, <2>1 DEF Tracked
  <2>5. Tracked' /\ Undecided'
    BY <1>1, <1>2, <2>1, <2>2, <2>4 DEF Tracked, Undecided
  <2>6. Numbered'
    BY <1>1, <1>2, <2>1 DEF Numbered
  <2>7. Parting'
    BY <1>1, <1>2, <2>1 DEF Parting, LeavesListed, Leaving
  <2> QED
    BY <2>3, <2>5, <2>6, <2>7 DEF Controls
<1> QED
  BY <1>3, <1>4, <1>5, <1>6, <1>7, <1>8, <1>9 DEF UserSteps

LEMMA SettledSame ==
  ASSUME UNCHANGED batches
  PROVE  Settled' <=> Settled
BY DEF Settled

(* A run is over.                                                          *)
LEMMA ControlsEnd ==
  ASSUME Basic, Controls, NEW j \in Jobs, Running(j), Others({}, j), ~Running(j)',
         jobs'[j].kind \notin {"leave", "drop"}, aborts' = Cleared(j), UNCHANGED <<doc, gen>>,
         Leaving => Settled',
         \A c \in Cells : status'[c] # status[c] => c = jobs[j].cell /\ IsLatest(j),
         \A c \in Cells : status'[c] = "running" => status[c] = "running",
         aborts[jobs[j].cell] = j => status'[jobs[j].cell] # "running"
  PROVE  Controls'
<1>1. Typed /\ Registered /\ Watched /\ Tracked /\ Numbered /\ Undecided /\ Parting
  BY DEF Basic, Controls
<1>2. /\ \A i \in Jobs : /\ Running(i) => jobs[i].cell \in Cells
                         /\ jobs[i].kind \in {"drop", "leave"} => jobs[i].cell \in Cells
                         /\ jobs[i].gen \in Nat
      /\ \A c \in Cells : gen[c] \in Nat /\ (aborts[c] # None => aborts[c] \in Jobs)
  BY RunningCell
<1>3. \A i \in Jobs \ {j} :
          /\ jobs'[i].kind = jobs[i].kind /\ jobs'[i].cell = jobs[i].cell
          /\ jobs'[i].gen = jobs[i].gen /\ (jobs'[i].aborted <=> jobs[i].aborted)
  BY DEF Others, Alike
<1>4. \A i \in Jobs \ {j} :
          (Running(i)' <=> Running(i)) /\ (Running(i) => (IsLatest(i)' <=> IsLatest(i)))
  BY <1>3 DEF Running, IsLatest
<1>5. (Leaving' <=> Leaving) /\ \A c \in Cells : Listed(c)' <=> Listed(c)
  BY <1>3 DEF Leaving, Running, Listed
<1>6. \A c \in Cells : aborts'[c] = IF aborts[c] = j THEN None ELSE aborts[c]
  <2>1. \A c \in Cells : aborts[c] = j => jobs[j].cell = c
    BY <1>1, RecordsAre DEF Registered
  <2> QED
    BY <1>1, <1>2, <2>1, RecordsAre DEF Cleared, Typed
<1>7. \A i \in Jobs \ {j} :
        Running(i) /\ IsLatest(i) => status'[jobs[i].cell] = status[jobs[i].cell]
  BY <1>1, <1>2 DEF Numbered, IsLatest
<1>8. Registered'
  <2> SUFFICES ASSUME NEW c \in Cells, aborts'[c] # None
               PROVE  /\ Running(aborts[c])' /\ jobs'[aborts'[c]].cell = c /\ IsLatest(aborts[c])'
                      /\ Listed(c)'
                      /\ jobs'[aborts'[c]].kind = "lang" /\ jobs'[aborts'[c]].aborted
                            => status'[c] # "running"
    BY DEF Registered
  <2>1. PICK i \in Jobs \ {j} : i = aborts[c] /\ i = aborts'[c]
    BY <1>2, <1>6
  <2>2. /\ Running(i) /\ jobs[i].cell = c /\ IsLatest(i) /\ Listed(c)
        /\ jobs[i].kind = "lang" /\ jobs[i].aborted => status[c] # "running"
    BY <1>1, <2>1, RecordsAre DEF Registered
  <2>3. Running(i)' /\ IsLatest(i)' /\ Listed(c)' /\ jobs'[i].cell = c /\ status'[c] = status[c]
    BY <1>3, <1>4, <1>5, <1>7, <2>2
  <2> QED
    BY <1>3, <2>1, <2>2, <2>3 DEF Running, IsLatest
<1>9. Watched'
  BY <1>1, <1>2, <1>5, <1>6, RecordsAre DEF Watched, Registered
<1>10. Tracked'
  BY <1>1, <1>2, <1>3, <1>4, <1>6 DEF Tracked
<1>11. Undecided'
  <2> SUFFICES ASSUME NEW i \in Jobs, Running(i)', IsLatest(i)'
               PROVE  status'[jobs'[i].cell] # "success"
    BY DEF Undecided
  <2>1. i \in Jobs \ {j} /\ Running(i) /\ IsLatest(i)
    BY <1>4
  <2>2. status[jobs[i].cell] # "success"
    BY <1>1, <2>1 DEF Undecided
  <2>3. status'[jobs[i].cell] = status[jobs[i].cell]
    BY <1>7, <2>1
  <2>4. jobs'[i].cell = jobs[i].cell
    BY <1>3, <2>1
  <2> QED
    BY <2>2, <2>3, <2>4
<1>12. Numbered'
  <2>1. \A i \in Jobs : Running(i)' => i # j /\ Running(i)
    BY <1>4
  <2>2. \A i \in Jobs \ {j} : jobs'[i].cell = jobs[i].cell /\ jobs'[i].gen = jobs[i].gen
    BY <1>3
  <2>3. \A i \in Jobs : Running(i)' => jobs'[i].gen <= gen'[jobs'[i].cell]
    BY <1>1, <2>1, <2>2 DEF Numbered
  <2>4. \A i, k \in Jobs :
          Running(i)' /\ Running(k)' /\ jobs'[i].cell = jobs'[k].cell /\ jobs'[i].gen = jobs'[k].gen
             => i = k
    BY <1>1, <2>1, <2>2 DEF Numbered
  <2> QED
    BY <2>3, <2>4 DEF Numbered, Running
<1>13. Parting'
  BY <1>1, <1>2, <1>3, <1>5, <1>6 DEF Parting, LeavesListed
<1> QED
  BY <1>8, <1>9, <1>10, <1>11, <1>12, <1>13 DEF Controls

(* A job that is no run is over, or goes on.                               *)
LEMMA ControlsBeside ==
  ASSUME Basic, Controls, NEW j \in Jobs, ~Running(j), Others({}, j), ~Running(j)',
         UNCHANGED <<status, gen, aborts>>, Settled => Settled',
         jobs'[j].kind # "drop",
         jobs'[j].kind = "leave" => jobs[j].kind = "leave" /\ Listed(jobs[j].cell)' /\ doc' = doc,
         (UNCHANGED doc /\ (Leaving' <=> Leaving)) \/ (doc' = <<>> /\ jobs[j].kind = "leave" /\ jobs'[j].kind # "leave")
  PROVE  Controls'
<1>1. Typed /\ Registered /\ Watched /\ Tracked /\ Numbered /\ Undecided /\ Parting
  BY DEF Basic, Controls
<1>2. /\ \A i \in Jobs : /\ Running(i) => jobs[i].cell \in Cells
                         /\ jobs[i].kind \in {"drop", "leave"} => jobs[i].cell \in Cells
                         /\ jobs[i].gen \in Nat
      /\ \A c \in Cells : gen[c] \in Nat /\ (aborts[c] # None => aborts[c] \in Jobs)
  BY RunningCell
<1>3. \A i \in Jobs \ {j} :
          /\ jobs'[i].kind = jobs[i].kind /\ jobs'[i].cell = jobs[i].cell
          /\ jobs'[i].gen = jobs[i].gen /\ (jobs'[i].aborted <=> jobs[i].aborted)
  BY DEF Others, Alike
<1>4. \A i \in Jobs : Running(i)' <=> Running(i)
  BY <1>3 DEF Running
<1>5. \A i \in Jobs : Running(i) => i # j /\ (IsLatest(i)' <=> IsLatest(i))
  BY <1>3 DEF IsLatest
<1>6. Leaving' => Leaving
  BY <1>3 DEF Leaving
<1>11. \A c \in Cells :
          /\ Listed(c)' => Listed(c) /\ (Leaving' <=> Leaving)
          /\ Listed(c) /\ ~Leaving => Listed(c)'
  <2>1. \A c \in Cells : doc' = <<>> => ~Listed(c)'
    BY DEF Listed, Range
  <2>2. \A c \in Cells : UNCHANGED doc => (Listed(c)' <=> Listed(c))
    BY DEF Listed
  <2>3. jobs[j].kind = "leave" => Leaving
    BY DEF Leaving
  <2> QED
    BY <2>1, <2>2, <2>3
<1>7. Registered'
  <2> SUFFICES ASSUME NEW c \in Cells, aborts[c] # None
               PROVE  /\ Running(aborts[c])' /\ jobs'[aborts'[c]].cell = c /\ IsLatest(aborts[c])'
                      /\ Listed(c)'
                      /\ jobs'[aborts'[c]].kind = "lang" /\ jobs'[aborts'[c]].aborted
                            => status'[c] # "running"
    BY DEF Registered
  <2>1. PICK i \in Jobs : i = aborts[c] /\ i = aborts'[c]
    BY <1>2
  <2>2. /\ Running(i) /\ jobs[i].cell = c /\ IsLatest(i) /\ Listed(c)
        /\ jobs[i].kind = "lang" /\ jobs[i].aborted => status[c] # "running"
    BY <1>1, <2>1, RecordsAre DEF Registered
  <2>3. Listed(c)'
    <3>1. ~Leaving
      BY <1>1, <2>1, RecordsAre DEF Parting
    <3> QED
      BY <1>11, <2>2, <3>1
  <2>4. Running(i)' /\ IsLatest(i)' /\ jobs'[i].cell = c /\ i # j
    BY <1>3, <1>4, <1>5, <2>2
  <2> QED
    BY <1>3, <2>1, <2>2, <2>3, <2>4 DEF Running, IsLatest
<1>8. Watched'
  BY <1>1, <1>2, <1>6, <1>11 DEF Watched
<1>9. Tracked' /\ Numbered'
  BY <1>1, <1>2, <1>3, <1>4, <1>5 DEF Tracked, Numbered
<1>12. Undecided'
  <2> SUFFICES ASSUME NEW i \in Jobs, Running(i)', IsLatest(i)'
               PROVE  status'[jobs'[i].cell] # "success"
    BY DEF Undecided
  <2>1. i \in Jobs \ {j} /\ Running(i) /\ IsLatest(i)
    BY <1>4, <1>5
  <2>2. status[jobs[i].cell] # "success"
    BY <1>1, <2>1 DEF Undecided
  <2>3. jobs'[i].cell = jobs[i].cell
    BY <1>3, <2>1
  <2> QED
    BY <2>2, <2>3
<1>10. Parting'
  <2>1. Leaving' => Settled' /\ \A c \in Cells : aborts'[c] = None
    BY <1>1, <1>6 DEF Parting
  <2>2. \A i, k \in Jobs : jobs'[i].kind = "leave" /\ jobs'[k].kind = "leave" => i = k
    BY <1>1, <1>3 DEF Parting
  <2>3. ASSUME NEW i \in Jobs, jobs'[i].kind = "leave" PROVE Listed(jobs[i].cell)'
    <3>1. CASE i = j
      BY <2>3, <3>1
    <3>2. CASE i # j
      <4>1. jobs[i].kind = "leave" /\ jobs'[i].cell = jobs[i].cell /\ jobs[j].kind # "leave"
        BY <1>1, <1>3, <2>3, <3>2 DEF Parting
      <4>2. UNCHANGED doc /\ Listed(jobs[i].cell)
        BY <1>1, <4>1 DEF Parting, LeavesListed
      <4> QED
        BY <4>1, <4>2 DEF Listed
    <3> QED
      BY <3>1, <3>2
  <2>4. ASSUME NEW i \in Jobs, jobs'[i].kind = "drop" PROVE ~Listed(jobs[i].cell)'
    <3>1. i # j
      BY <2>4
    <3>2. /\ jobs[i].kind = "drop" /\ jobs'[i].cell = jobs[i].cell /\ jobs[i].cell \in Cells
          /\ ~Listed(jobs[i].cell)
      BY <1>1, <1>2, <1>3, <2>4, <3>1 DEF Parting
    <3>3. PICK c \in Cells : c = jobs[i].cell /\ c = jobs'[i].cell
      BY <3>2
    <3>4. ~Listed(c)'
      BY <1>11, <3>2, <3>3
    <3> QED
      BY <3>3, <3>4 DEF Listed
  <2> QED
    BY <2>1, <2>2, <2>3, <2>4 DEF Parting, LeavesListed
<1> QED
  BY <1>7, <1>8, <1>9, <1>10, <1>12 DEF Controls


LEMMA ControlsAfterJob ==
  ASSUME Basic, Controls, NEW j \in Jobs, JobSteps(j)
  PROVE  Controls'
<1>1. Typed /\ Registered /\ Watched /\ Tracked /\ Numbered /\ Undecided /\ Parting
  BY DEF Basic, Controls
<1>2. /\ \A i \in Jobs : Running(i) => jobs[i].cell \in Cells
      /\ \A c \in Cells : aborts[c] # None => aborts[c] \in Jobs
  BY RunningCell
<1>3. ASSUME UNCHANGED <<doc, status, gen, aborts, batches>>, Others({}, j),
             jobs'[j].kind = jobs[j].kind, jobs'[j].cell = jobs[j].cell,
             jobs'[j].gen = jobs[j].gen, jobs'[j].aborted = jobs[j].aborted
      PROVE  Controls'
  <2>1. \A i \in Jobs :
           /\ jobs'[i].kind = jobs[i].kind /\ jobs'[i].cell = jobs[i].cell
           /\ jobs'[i].gen = jobs[i].gen /\ (jobs'[i].aborted <=> jobs[i].aborted)
    BY <1>3 DEF Others, Alike
  <2>2. Leaving => Settled'
    BY <1>1, <1>3, SettledSame DEF Parting
  <2> QED
    BY <1>3, <2>1, <2>2, ControlsSame
<1>4. CASE Ran(j) \/ Selects(j) \/ Loads(j) \/ Buffers(j) \/ Drops(j) \/ Asks(j)
  BY <1>3, <1>4 DEF Ran, Selects, Loads, Buffers, Drops, Asks, Advances
<1>5. ASSUME NEW s \in LangSteps, Follows(j, s) PROVE Controls'
  BY <1>3, <1>5 DEF Follows, Advances
<1>6. CASE Proceeds(j)
  <2>1. Listed(jobs[j].cell)
    BY <1>1, <1>6 DEF Parting, LeavesListed, Proceeds
  <2>2. Place(jobs[j].cell) + 1 \in DOMAIN doc
    <3>1. Place(jobs[j].cell) \in 1..Len(doc)
      BY <1>1, <2>1, PlaceOf
    <3> QED
      BY <1>1, <1>6, <3>1 DEF Proceeds, Typed
  <2>3. Listed(jobs[j].cell)'
    BY <1>6, <2>2 DEF Proceeds, Listed, Range
  <2>4. ~Running(j) /\ ~Running(j)' /\ (Leaving' <=> Leaving)
    BY <1>6 DEF Proceeds, Running, Leaving
  <2>5. /\ UNCHANGED <<status, gen, aborts>> /\ UNCHANGED doc /\ Others({}, j)
        /\ jobs'[j].kind # "drop" /\ jobs[j].kind = "leave"
    BY <1>6 DEF Proceeds
  <2>6. Settled => Settled'
    BY <1>6, SettledSame DEF Proceeds
  <2> QED
    BY <2>3, <2>4, <2>5, <2>6, ControlsBeside
<1>7. CASE Dropped(j) \/ Recorded(j)
  <2>1. /\ jobs[j].kind \in {"drop", "lineage"} /\ jobs'[j].kind = "free" /\ Others({}, j)
        /\ UNCHANGED <<doc, status, gen, aborts, batches>>
    BY <1>7 DEF Dropped, Recorded, Frees, Free
  <2>2. ~Running(j) /\ ~Running(j)' /\ (Leaving' <=> Leaving)
    BY <2>1 DEF Running, Leaving, Others, Alike
  <2> QED
    BY <2>1, <2>2, SettledSame, ControlsBeside
<1>8. CASE Departs(j)
  <2>1. /\ jobs[j].kind = "leave" /\ jobs'[j].kind = "free" /\ Others({}, j) /\ doc' = <<>>
        /\ UNCHANGED <<status, gen, aborts, batches>>
    BY <1>8 DEF Departs, Frees, Free
  <2>2. ~Running(j) /\ ~Running(j)'
    BY <2>1 DEF Running
  <2> QED
    BY <2>1, <2>2, SettledSame, ControlsBeside
<1>9. CASE Fails(j) \/ Succeeds(j)
  <2>1. /\ jobs[j].kind = "sql" /\ Others({}, j) /\ jobs'[j].kind \in {"free", "lineage"}
        /\ aborts' = Cleared(j) /\ UNCHANGED <<doc, gen>>
        /\ Leaving => Settled'
    <3>1. CASE Fails(j)
      <4>1. Leaving => Settled
        BY <1>1 DEF Parting
      <4> QED
        BY <3>1, <4>1 DEF Fails, Frees, Free
    <3>2. CASE Succeeds(j)
      <4>1. ~Leaving
        <5>1. Running(j) /\ ~jobs[j].aborted
          BY <3>2 DEF Succeeds, Running
        <5>2. aborts[jobs[j].cell] = j
          BY <1>1, <5>1 DEF Tracked
        <5> QED
          BY <1>1, <1>2, <5>1, <5>2, RecordsAre DEF Parting
      <4> QED
        BY <3>2, <4>1 DEF Succeeds, Frees, Free
    <3> QED
      BY <1>9, <3>1, <3>2
  <2>2. PICK outcome \in {"success", "error"} :
          status' = IF IsLatest(j) THEN [status EXCEPT ![jobs[j].cell] = outcome] ELSE status
    BY <1>9 DEF Fails, Succeeds
  <2>3. Running(j) /\ ~Running(j)' /\ jobs[j].cell \in Cells
    BY <1>2, <2>1 DEF Running
  <2>4. /\ \A c \in Cells : status'[c] # status[c] => c = jobs[j].cell /\ IsLatest(j)
        /\ \A c \in Cells : status'[c] = "running" => status[c] = "running"
        /\ IsLatest(j) => status'[jobs[j].cell] # "running"
    BY <1>1, <2>2, <2>3 DEF Typed
  <2>5. aborts[jobs[j].cell] = j => IsLatest(j)
    BY <1>1, <2>3, RecordsAre DEF Registered
  <2> QED
    BY <2>1, <2>3, <2>4, <2>5, ControlsEnd
<1>10. ASSUME NEW outcome \in {"success", "error"}, Finishes(j, outcome) PROVE Controls'
  <2>1. /\ jobs[j].kind = "lang" /\ Others({}, j) /\ jobs'[j].kind = "free"
        /\ aborts' = Cleared(j) /\ UNCHANGED <<doc, gen, batches>>
        /\ status' = IF IsLatest(j) /\ ~jobs[j].aborted
                     THEN [status EXCEPT ![jobs[j].cell] = outcome] ELSE status
    BY <1>10 DEF Finishes, Frees, Free
  <2>2. Running(j) /\ ~Running(j)' /\ jobs[j].cell \in Cells
    BY <1>2, <2>1 DEF Running
  <2>3. Leaving => Settled'
    BY <1>1, <2>1, SettledSame DEF Parting
  <2>4. /\ \A c \in Cells : status'[c] # status[c] => c = jobs[j].cell /\ IsLatest(j)
        /\ \A c \in Cells : status'[c] = "running" => status[c] = "running"
        /\ IsLatest(j) /\ ~jobs[j].aborted => status'[jobs[j].cell] # "running"
        /\ jobs[j].aborted => status' = status
    BY <1>1, <2>1, <2>2 DEF Typed
  <2>5. aborts[jobs[j].cell] = j
          => IsLatest(j) /\ (jobs[j].aborted => status[jobs[j].cell] # "running")
    BY <1>1, <2>1, <2>2, RecordsAre DEF Registered
  <2>6. aborts[jobs[j].cell] = j => status'[jobs[j].cell] # "running"
    BY <2>4, <2>5
  <2> QED
    BY <2>1, <2>2, <2>3, <2>4, <2>6, ControlsEnd
<1> QED
  BY <1>4, <1>5, <1>6, <1>7, <1>8, <1>9, <1>10 DEF JobSteps

LEMMA ControlsInitially ==
  ASSUME Init
  PROVE  Controls
<1>1. /\ jobs = [j \in Jobs |-> Free] /\ aborts = [c \in Cells |-> None]
      /\ \A c \in Cells : status[c] # "running"
  BY DEF Init
<1>2. \A j \in Jobs : jobs[j].kind = "free"
  BY <1>1 DEF Free
<1> QED
  BY <1>1, <1>2 DEF Controls, Registered, Watched, Tracked, Numbered, Undecided, Parting, Running,
     Leaving, LeavesListed

LEMMA StepsKeep ==
  ASSUME Basic, Controls, [Next]_vars
  PROVE  Basic' /\ Controls' /\ (UserSteps \/ \E j \in Jobs : JobSteps(j))
<1>1. Typed' /\ (UserSteps \/ \E j \in Jobs : JobSteps(j))
  BY EveryStep DEF Controls, Parting
<1>2. LeavesListed
  BY DEF Controls, Parting
<1> QED
  BY <1>1, <1>2, BasicAfterUser, BasicAfterJob, ControlsAfterUser, ControlsAfterJob

LEMMA CancellableThen ==
  ASSUME Basic, Controls
  PROVE  Cancellable
<1> SUFFICES ASSUME NEW c \in Cells, Listed(c), status[c] = "running", ~Leaving
             PROVE  /\ aborts[c] # None
                    /\ jobs[aborts[c]].cell = c /\ Running(aborts[c]) /\ IsLatest(aborts[c])
  BY DEF Cancellable
<1> QED
  BY DEF Controls, Watched, Registered

(* The controller that Escape aborts is that of the latest run of the      *)
(* running cell (beginExternalRun, runCell, the finally of both).          *)
THEOREM CancellableAlways == Spec => []Cancellable
<1> DEFINE Inv == Basic /\ Controls
<1>1. Init => Inv
  BY BasicInitially, ControlsInitially
<1>2. Inv /\ [Next]_vars => Inv'
  BY StepsKeep
<1>3. Inv => Cancellable
  BY CancellableThen
<1> QED
  BY <1>1, <1>2, <1>3, PTL DEF Spec

-----------------------------------------------------------------------------
(* What is created for a cell that goes is dropped after that.             *)

Dropping(d, c) == jobs[d].kind \in {"drop", "leave"} /\ jobs[d].cell = c
DropsView(d, c) == Dropping(d, c) /\ jobs[d].step = "dropView"
DropsTable(d, c) == Dropping(d, c) /\ jobs[d].step = "dropTable"

(* The cell is deleted, or its relation is dropped on leaving.             *)
Going(c) == ~Listed(c) \/ \E l \in Jobs : jobs[l].kind = "leave" /\ Place(c) <= Place(jobs[l].cell)

Makes(i, c, kind, step) == jobs[i].kind = kind /\ jobs[i].cell = c /\ jobs[i].step = step

ViewGoes(c) ==
    /\ \A i \in Jobs : Makes(i, c, "sql", "create") /\ Asked(i)
                         => \E d \in Jobs : DropsView(d, c) /\ Asked(d) /\ Prior(i, d)
    /\ rel[c] # NoRelation => \E d \in Jobs : DropsView(d, c) /\ Asked(d)

TableGoes(c) ==
    /\ \A i \in Jobs : Makes(i, c, "lang", "buffer")
                         => \E d \in Jobs : DropsView(d, c) /\ Prior(i, d)
    /\ \A i \in Jobs : Makes(i, c, "lang", "table") /\ Asked(i)
                         => \E d \in Jobs : \/ DropsView(d, c)
                                            \/ DropsTable(d, c) /\ Asked(d) /\ Prior(i, d)
    /\ rel[c] # NoRelation
         => \E d \in Jobs : DropsView(d, c) \/ (DropsTable(d, c) /\ Asked(d))

RelationGoes(c) == IF c \in DOMAIN inputs THEN TableGoes(c) ELSE ViewGoes(c)

Orphans ==
    /\ \A c \in Cells : rel[c] # NoRelation => (rel[c].table <=> c \in DOMAIN inputs)
    /\ \A c \in Cells : Going(c) => RelationGoes(c)

(* A step of a job that is not about to drop, and does not come to create. *)
LEMMA GoesKept ==
  ASSUME NEW c \in Cells, RelationGoes(c), UNCHANGED inputs, NEW j,
         rel'[c] = rel[c] \/ rel'[c] = NoRelation,
         \A i \in Jobs \ {j} :
            /\ jobs'[i].kind = jobs[i].kind /\ jobs'[i].cell = jobs[i].cell
            /\ jobs'[i].step = jobs[i].step /\ (Asked(i)' <=> Asked(i)),
         \A x, y \in Jobs \ {j} : Prior(x, y)' <=> Prior(x, y),
         Dropping(j, c) => jobs[j].step = "dropTable" /\ ~Asked(j),
         \/ jobs'[j].cell # c \/ jobs'[j].kind \notin {"sql", "lang"}
         \/ jobs'[j].step \notin {"create", "buffer", "table"}
  PROVE  RelationGoes(c)'
<1>1. \A d \in Jobs : DropsView(d, c) \/ (DropsTable(d, c) /\ Asked(d)) => d # j
  BY DEF DropsView, DropsTable
<1>2. \A d \in Jobs \ {j} : /\ DropsView(d, c)' <=> DropsView(d, c)
                            /\ DropsTable(d, c)' <=> DropsTable(d, c)
  BY DEF DropsView, DropsTable, Dropping
<1>3. \A i \in Jobs, k \in {"sql", "lang"}, s \in {"create", "buffer", "table"} :
        Makes(i, c, k, s)' => i # j /\ Makes(i, c, k, s)
  BY DEF Makes
<1>4. CASE c \in DOMAIN inputs
  <2>1. TableGoes(c)
    BY <1>4 DEF RelationGoes
  <2>2. ASSUME NEW i \in Jobs, Makes(i, c, "lang", "buffer")'
        PROVE  \E d \in Jobs : DropsView(d, c)' /\ Prior(i, d)'
    <3>1. i # j /\ Makes(i, c, "lang", "buffer")
      BY <1>3, <2>2
    <3>2. PICK d \in Jobs : DropsView(d, c) /\ Prior(i, d)
      BY <2>1, <3>1 DEF TableGoes
    <3> QED
      BY <1>1, <1>2, <3>1, <3>2
  <2>3. ASSUME NEW i \in Jobs, Makes(i, c, "lang", "table")', Asked(i)'
        PROVE  \E d \in Jobs : \/ DropsView(d, c)'
                               \/ DropsTable(d, c)' /\ Asked(d)' /\ Prior(i, d)'
    <3>1. i # j /\ Makes(i, c, "lang", "table") /\ Asked(i)
      BY <1>3, <2>3
    <3>2. PICK d \in Jobs : DropsView(d, c) \/ (DropsTable(d, c) /\ Asked(d) /\ Prior(i, d))
      BY <2>1, <3>1 DEF TableGoes
    <3> QED
      BY <1>1, <1>2, <3>1, <3>2
  <2>4. ASSUME rel'[c] # NoRelation
        PROVE  \E d \in Jobs : DropsView(d, c)' \/ (DropsTable(d, c)' /\ Asked(d)')
    <3>1. PICK d \in Jobs : DropsView(d, c) \/ (DropsTable(d, c) /\ Asked(d))
      BY <2>1, <2>4 DEF TableGoes
    <3> QED
      BY <1>1, <1>2, <3>1
  <2>5. TableGoes(c)'
    BY <2>2, <2>3, <2>4 DEF TableGoes
  <2> QED
    BY <1>4, <2>5 DEF RelationGoes
<1>5. CASE c \notin DOMAIN inputs
  <2>1. ViewGoes(c)
    BY <1>5 DEF RelationGoes
  <2>2. ASSUME NEW i \in Jobs, Makes(i, c, "sql", "create")', Asked(i)'
        PROVE  \E d \in Jobs : DropsView(d, c)' /\ Asked(d)' /\ Prior(i, d)'
    <3>1. i # j /\ Makes(i, c, "sql", "create") /\ Asked(i)
      BY <1>3, <2>2
    <3>2. PICK d \in Jobs : DropsView(d, c) /\ Asked(d) /\ Prior(i, d)
      BY <2>1, <3>1 DEF ViewGoes
    <3> QED
      BY <1>1, <1>2, <3>1, <3>2
  <2>3. ASSUME rel'[c] # NoRelation
        PROVE  \E d \in Jobs : DropsView(d, c)' /\ Asked(d)'
    <3>1. PICK d \in Jobs : DropsView(d, c) /\ Asked(d)
      BY <2>1, <2>3 DEF ViewGoes
    <3> QED
      BY <1>1, <1>2, <3>1
  <2>4. ViewGoes(c)'
    BY <2>2, <2>3 DEF ViewGoes
  <2> QED
    BY <1>5, <2>4 DEF RelationGoes
<1> QED
  BY <1>4, <1>5

(* A job that begins to drop, behind everything the worker has.            *)
LEMMA GoesWith ==
  ASSUME Queues, NEW c \in Cells, UNCHANGED inputs, NEW j \in Jobs, rel'[c] = rel[c],
         \A i \in Jobs \ {j} :
            /\ jobs'[i].kind = jobs[i].kind /\ jobs'[i].cell = jobs[i].cell
            /\ jobs'[i].step = jobs[i].step /\ (Asked(i)' <=> Asked(i)),
         DropsView(j, c)', Asked(j)',
         \A x \in Jobs \ {j} : Asked(x) \/ Answered(x) => Prior(x, j)'
  PROVE  RelationGoes(c)'
<1>1. ASSUME NEW i \in Jobs, Makes(i, c, "lang", "buffer")' PROVE Prior(i, j)'
  <2>1. i # j
    BY <1>1 DEF DropsView, Dropping, Makes
  <2>2. jobs[i].kind # "free" /\ jobs[i].step # "load"
    BY <1>1, <2>1 DEF Makes
  <2> QED
    BY <2>1, <2>2 DEF Queues
<1>2. ASSUME NEW i \in Jobs, Makes(i, c, "sql", "create")', Asked(i)' PROVE Prior(i, j)'
  <2>1. i # j
    BY <1>2 DEF DropsView, Dropping, Makes
  <2> QED
    BY <1>2, <2>1
<1>3. TableGoes(c)'
  BY <1>1 DEF TableGoes
<1>4. ViewGoes(c)'
  BY <1>2 DEF ViewGoes
<1> QED
  BY <1>3, <1>4 DEF RelationGoes

LEMMA GoingSame ==
  ASSUME NEW c \in Cells, UNCHANGED doc,
         \A l \in Jobs : jobs'[l].kind = "leave" => jobs[l].kind = "leave" /\ jobs'[l].cell = jobs[l].cell,
         Going(c)'
  PROVE  Going(c)
<1>1. \A x : Place(x)' = Place(x)
  BY DEF Place
<1>2. Listed(c)' <=> Listed(c)
  BY DEF Listed
<1>3. CASE ~Listed(c)'
  BY <1>2, <1>3 DEF Going
<1>4. CASE \E l \in Jobs : jobs'[l].kind = "leave" /\ Place(c)' <= Place(jobs[l].cell)'
  <2>1. PICK l \in Jobs : jobs'[l].kind = "leave" /\ Place(c)' <= Place(jobs[l].cell)'
    BY <1>4
  <2>2. PICK d : d = jobs[l].cell /\ d = jobs'[l].cell /\ jobs[l].kind = "leave"
    BY <2>1
  <2>3. Place(jobs[l].cell)' = Place(jobs[l].cell)
    BY <1>1, <2>2 DEF Place
  <2> QED
    BY <1>1, <2>1, <2>2, <2>3 DEF Going
<1> QED
  BY <1>3, <1>4 DEF Going

LEMMA OrphansSame ==
  ASSUME Orphans, UNCHANGED <<doc, inputs, rel>>, Stays,
         \A i \in Jobs : /\ jobs'[i].kind = jobs[i].kind /\ jobs'[i].cell = jobs[i].cell
                         /\ jobs'[i].step = jobs[i].step
  PROVE  Orphans'
<1>1. ASSUME NEW c \in Cells, Going(c)' PROVE RelationGoes(c)'
  <2>1. RelationGoes(c)
    BY <1>1, GoingSame DEF Orphans
  <2>2. None \notin Jobs
    BY RecordsAre
  <2>3. /\ \A i \in Jobs \ {None} :
            /\ jobs'[i].kind = jobs[i].kind /\ jobs'[i].cell = jobs[i].cell
            /\ jobs'[i].step = jobs[i].step /\ (Asked(i)' <=> Asked(i))
        /\ \A x, y \in Jobs \ {None} : Prior(x, y)' <=> Prior(x, y)
    BY DEF Stays
  <2>4. RelationGoes(c)'
    <3>1. ASSUME NEW i \in Jobs, NEW k, NEW s PROVE Makes(i, c, k, s)' <=> Makes(i, c, k, s)
      BY DEF Makes
    <3>2. ASSUME NEW i \in Jobs
          PROVE  (DropsView(i, c)' <=> DropsView(i, c)) /\ (DropsTable(i, c)' <=> DropsTable(i, c))
      BY DEF DropsView, DropsTable, Dropping
    <3>3. \A x, y \in Jobs : (Prior(x, y)' <=> Prior(x, y)) /\ (Asked(x)' <=> Asked(x))
      BY <2>2, <2>3
    <3>4. TableGoes(c) => TableGoes(c)'
      BY <3>1, <3>2, <3>3 DEF TableGoes
    <3>5. ViewGoes(c) => ViewGoes(c)'
      BY <3>1, <3>2, <3>3 DEF ViewGoes
    <3> QED
      BY <2>1, <3>4, <3>5 DEF RelationGoes
  <2> QED
    BY <2>4
<1> QED
  BY <1>1 DEF Orphans

LEMMA OrphansAfterUser ==
  ASSUME Basic, Controls, Orphans, UserSteps
  PROVE  Orphans'
<1>1. Typed /\ Queues /\ (Apt => ~Leaving)
  BY DEF Basic, Controls, Parting, Apt
<1>2. CASE Idle \/ Quiet \/ \E c \in Cells : Refuses(c)
  BY <1>2, OrphansSame DEF Idle, Quiet, Still, Refuses
<1>3. ASSUME NEW S, Others(S, None), Stays, UNCHANGED <<doc, inputs, rel>> PROVE Orphans'
  BY <1>3, RecordsAre, OrphansSame DEF Others, Alike
<1>4. ASSUME NEW c \in Cells, Gives(c) PROVE Orphans'
  BY <1>3, <1>4 DEF Gives
<1>5. ASSUME NEW S \in SUBSET Jobs, Escapes(S) PROVE Orphans'
  BY <1>3, <1>5 DEF Escapes
<1>6. ASSUME NEW j \in Jobs, NEW S, Posts(j), Others(S, j), jobs[j].kind = "free",
             UNCHANGED <<inputs, rel>>, NEW c \in Cells, RelationGoes(c),
             jobs'[j].cell # c \/ jobs'[j].kind \notin {"sql", "lang"}
      PROVE  RelationGoes(c)'
  <2>1. /\ \A i \in Jobs \ {j} :
            /\ jobs'[i].kind = jobs[i].kind /\ jobs'[i].cell = jobs[i].cell
            /\ jobs'[i].step = jobs[i].step /\ (Asked(i)' <=> Asked(i))
        /\ \A x, y \in Jobs \ {j} : Prior(x, y)' <=> Prior(x, y)
    BY <1>6 DEF Posts, Others, Alike
  <2>2. ~Dropping(j, c)
    BY <1>6 DEF Dropping
  <2> QED
    BY <1>6, <2>1, <2>2, GoesKept
<1>7. ASSUME NEW j \in Jobs, NEW S, Posts(j), Others(S, j), UNCHANGED <<inputs, rel>>,
             NEW c \in Cells, jobs'[j].kind \in {"drop", "leave"}, jobs'[j].cell = c,
             jobs'[j].step = "dropView"
      PROVE  RelationGoes(c)'
  <2>1. /\ \A i \in Jobs \ {j} :
            /\ jobs'[i].kind = jobs[i].kind /\ jobs'[i].cell = jobs[i].cell
            /\ jobs'[i].step = jobs[i].step /\ (Asked(i)' <=> Asked(i))
        /\ \A x \in Jobs \ {j} : Asked(x) \/ Answered(x) => Prior(x, j)'
        /\ Asked(j)'
    BY <1>7 DEF Posts, Others, Alike
  <2>2. DropsView(j, c)'
    BY <1>7 DEF DropsView, Dropping
  <2> QED
    BY <1>1, <1>7, <2>1, <2>2, GoesWith
<1>8. UNCHANGED <<inputs, rel>>
           => \A c \in Cells : rel'[c] # NoRelation => (rel'[c].table <=> c \in DOMAIN inputs')
  BY DEF Orphans
<1>9. ASSUME NEW c \in Cells, NEW j \in Jobs, Starts(c, j) PROVE Orphans'
  <2>1. /\ Posts(j) /\ Others(Controllers(c), j) /\ jobs[j].kind = "free" /\ jobs'[j].cell = c
        /\ UNCHANGED <<doc, inputs, rel>> /\ jobs'[j].kind # "leave" /\ Listed(c) /\ ~Leaving
    BY <1>1, <1>9 DEF Starts
  <2>2. \A l \in Jobs : jobs'[l].kind # "leave"
    BY <2>1 DEF Others, Alike, Leaving
  <2>3. ASSUME NEW d \in Cells, Going(d)' PROVE RelationGoes(d)'
    <3>1. Going(d)
      BY <2>1, <2>2, <2>3, GoingSame
    <3>2. d # c
      BY <2>1, <3>1 DEF Going, Leaving
    <3> QED
      BY <1>6, <2>1, <3>1, <3>2 DEF Orphans
  <2> QED
    BY <1>8, <2>1, <2>3 DEF Orphans
<1>10. ASSUME NEW c \in Cells, NEW j \in Jobs, Deletes(c, j) PROVE Orphans'
  <2>1. /\ Posts(j) /\ Others(Controllers(c), j) /\ jobs[j].kind = "free" /\ jobs'[j].cell = c
        /\ UNCHANGED <<inputs, rel>> /\ jobs'[j].kind = "drop" /\ jobs'[j].step = "dropView"
        /\ ~Leaving /\ Range(doc') = Range(doc) \ {c}
    BY <1>1, <1>10 DEF Deletes
  <2>2. \A l \in Jobs : jobs'[l].kind # "leave"
    BY <2>1 DEF Others, Alike, Leaving
  <2>3. ASSUME NEW d \in Cells, Going(d)' PROVE RelationGoes(d)'
    <3>1. ~Listed(d)'
      BY <2>2, <2>3 DEF Going
    <3>2. CASE d = c
      BY <1>7, <2>1, <3>2
    <3>3. CASE d # c
      <4>1. Going(d)
        BY <2>1, <3>1, <3>3 DEF Going, Listed
      <4> QED
        BY <1>6, <2>1, <3>3, <4>1 DEF Orphans
    <3> QED
      BY <3>2, <3>3
  <2> QED
    BY <1>8, <2>1, <2>3 DEF Orphans
<1>11. ASSUME NEW j \in Jobs, Leaves(j) PROVE Orphans'
  <2>1. /\ Posts(j) /\ jobs[j].kind = "free" /\ jobs'[j].cell = doc[1] /\ 1 \in DOMAIN doc
        /\ UNCHANGED <<doc, inputs, rel>> /\ jobs'[j].kind = "leave" /\ jobs'[j].step = "dropView"
        /\ ~Leaving
    BY <1>1, <1>11 DEF Leaves
  <2>2. Others(UNION {Controllers(c) : c \in Cells}, j)
    BY <1>11 DEF Leaves
  <2>3. doc[1] \in Cells /\ Listed(doc[1]) /\ 1 \in 1..Len(doc)
    BY <1>1, <2>1 DEF Typed, Listed, Range
  <2>4. Place(doc[1]) = 1
    BY <1>1, <2>3, PlaceOf
  <2>5. ASSUME NEW d \in Cells, Going(d)' PROVE RelationGoes(d)'
    <3>1. CASE d = doc[1]
      BY <1>7, <2>1, <2>2, <2>3, <3>1
    <3>2. CASE d # doc[1]
      <4>1. \A l \in Jobs : jobs'[l].kind = "leave" => l = j
        BY <2>1, <2>2 DEF Others, Alike, Leaving
      <4>2. \A x : Place(x)' = Place(x)
        BY <2>1 DEF Place
      <4>3. ~Listed(d)
        <5>1. ASSUME Listed(d) PROVE FALSE
          <6>1. Listed(d)'
            BY <2>1, <5>1 DEF Listed
          <6>2. PICK l \in Jobs : jobs'[l].kind = "leave" /\ Place(d)' <= Place(jobs[l].cell)'
            BY <2>5, <6>1 DEF Going
          <6>3. l = j
            BY <4>1, <6>2
          <6>4. Place(jobs[l].cell)' = 1
            BY <2>1, <2>4, <6>3 DEF Place
          <6>5. Place(d) \in 1..Len(doc) /\ doc[Place(d)] = d
            BY <1>1, <5>1, PlaceOf
          <6>6. Place(d) = 1
            BY <4>2, <6>2, <6>4, <6>5
          <6> QED
            BY <3>2, <6>5, <6>6
        <5> QED
          BY <5>1
      <4>4. RelationGoes(d)
        BY <4>3 DEF Orphans, Going
      <4> QED
        BY <1>6, <2>1, <2>2, <4>4
    <3> QED
      BY <3>1, <3>2
  <2> QED
    BY <1>8, <2>1, <2>5 DEF Orphans
<1> QED
  BY <1>2, <1>4, <1>5, <1>9, <1>10, <1>11 DEF UserSteps

(* The worker executes the statement of the job.                           *)
LEMMA OrphansRan ==
  ASSUME Basic, Controls, Orphans, NEW j \in Jobs, Ran(j)
  PROVE  Orphans'
<1> DEFINE c == jobs[j].cell
<1>1. /\ Typed /\ Queues /\ StepsOf(jobs[j]) /\ c \in Cells
      /\ UNCHANGED <<doc, inputs>> /\ Executes(j) /\ Others({}, j)
      /\ rel' = [rel EXCEPT ![c] = Effect(jobs[j], jobs'[j].ok)] /\ rel \in [Cells -> Relations]
  BY DEF Basic, Stepped, Ran, Typed
<1> DEFINE e == Effect(jobs[j], jobs'[j].ok)
<1>2. rel'[c] = e /\ \A d \in Cells \ {c} : rel'[d] = rel[d]
  BY <1>1
<1>3. \A i \in Jobs : /\ jobs'[i].kind = jobs[i].kind /\ jobs'[i].cell = jobs[i].cell
                      /\ jobs'[i].step = jobs[i].step
  BY DEF Ran, Others, Alike
<1>4. /\ \A i \in Jobs : Asked(i)' <=> Asked(i) /\ i # j
      /\ \A x, y \in Jobs : Prior(x, y)' <=> Prior(x, y)
      /\ \A x \in Jobs : Asked(x) => ~Prior(x, j)
      /\ Asked(j)
  BY <1>1 DEF Executes
<1>5. rel[c] # NoRelation => (rel[c].table <=> c \in DOMAIN inputs)
  BY <1>1 DEF Orphans
<1>6. ~NoRelation.table
  BY DEF NoRelation
<1>7. /\ jobs[j].step = "create" => jobs[j].kind = "sql" /\ c \notin DOMAIN inputs
      /\ jobs[j].step = "table" => jobs[j].kind = "lang" /\ c \in DOMAIN inputs
  BY <1>1 DEF StepsOf, JobRecords, Kinds, Typed, LangSteps
<1>8. \/ jobs[j].step = "create" /\ e.table = FALSE
      \/ jobs[j].step = "table" /\ e.table = TRUE
      \/ /\ e = NoRelation \/ e = rel[c]
         /\ rel[c] # NoRelation /\ (IF c \in DOMAIN inputs THEN jobs[j].step = "dropTable"
                                    ELSE jobs[j].step = "dropView") => e = NoRelation
  BY <1>5, <1>6 DEF Effect
<1> HIDE DEF c, e
<1>9. ASSUME NEW d \in Cells, rel'[d] # NoRelation PROVE rel'[d].table <=> d \in DOMAIN inputs'
  <2>1. CASE d # c
    BY <1>1, <1>2, <1>9, <2>1 DEF Orphans
  <2>2. CASE d = c
    BY <1>1, <1>2, <1>5, <1>7, <1>8, <1>9, <2>2
  <2> QED
    BY <2>1, <2>2
<1>10. \A i \in Jobs, d \in Cells, k \in {"sql", "lang"}, s \in {"create", "buffer", "table"} :
          Makes(i, d, k, s)' <=> Makes(i, d, k, s)
  BY <1>3 DEF Makes
<1>11. \A i \in Jobs, d \in Cells : /\ DropsView(i, d)' <=> DropsView(i, d)
                                    /\ DropsTable(i, d)' <=> DropsTable(i, d)
                                    /\ DropsView(i, d) => jobs[i].step = "dropView" /\ jobs[i].cell = d
                                    /\ DropsTable(i, d) => jobs[i].step = "dropTable" /\ jobs[i].cell = d
  BY <1>3 DEF DropsView, DropsTable, Dropping
<1>12. ASSUME NEW d \in Cells, d \in DOMAIN inputs, TableGoes(d) PROVE TableGoes(d)'
  <2>1. ASSUME NEW i \in Jobs, Makes(i, d, "lang", "buffer")'
        PROVE  \E x \in Jobs : DropsView(x, d)' /\ Prior(i, x)'
    <3>1. Makes(i, d, "lang", "buffer")
      BY <1>10, <2>1
    <3>2. PICK x \in Jobs : DropsView(x, d) /\ Prior(i, x)
      BY <1>12, <3>1 DEF TableGoes
    <3> QED
      BY <1>4, <1>11, <3>2
  <2>2. ASSUME NEW i \in Jobs, Makes(i, d, "lang", "table"), Asked(i)
        PROVE  \E x \in Jobs : \/ DropsView(x, d)'
                               \/ DropsTable(x, d)' /\ Asked(x)' /\ Prior(i, x)'
    <3>1. PICK x \in Jobs : DropsView(x, d) \/ (DropsTable(x, d) /\ Asked(x) /\ Prior(i, x))
      BY <1>12, <2>2 DEF TableGoes
    <3> QED
      BY <1>4, <1>11, <2>2, <3>1
  <2>3. ASSUME rel'[d] # NoRelation
        PROVE  \E x \in Jobs : DropsView(x, d)' \/ (DropsTable(x, d)' /\ Asked(x)')
    <3>1. CASE d = c /\ jobs[j].step = "table"
      <4>1. Makes(j, d, "lang", "table") /\ Asked(j)
        BY <1>4, <1>7, <3>1 DEF Makes, c
      <4> QED
        BY <2>2, <4>1
    <3>2. CASE d = c /\ jobs[j].step # "table"
      <4>1. rel[d] # NoRelation /\ jobs[j].step # "dropTable"
        BY <1>2, <1>7, <1>8, <1>12, <2>3, <3>2
      <4>2. PICK x \in Jobs : DropsView(x, d) \/ (DropsTable(x, d) /\ Asked(x))
        BY <1>12, <4>1 DEF TableGoes
      <4> QED
        BY <1>4, <1>11, <4>1, <4>2
    <3>3. CASE d # c
      <4>1. PICK x \in Jobs : DropsView(x, d) \/ (DropsTable(x, d) /\ Asked(x))
        BY <1>2, <1>12, <2>3, <3>3 DEF TableGoes
      <4> QED
        BY <1>4, <1>11, <3>3, <4>1 DEF c
    <3> QED
      BY <3>1, <3>2, <3>3
  <2>4. \A i \in Jobs : Makes(i, d, "lang", "table")' /\ Asked(i)' => Makes(i, d, "lang", "table") /\ Asked(i)
    BY <1>4, <1>10
  <2> QED
    BY <2>1, <2>2, <2>3, <2>4 DEF TableGoes
<1>13. ASSUME NEW d \in Cells, d \notin DOMAIN inputs, ViewGoes(d) PROVE ViewGoes(d)'
  <2>1. ASSUME NEW i \in Jobs, Makes(i, d, "sql", "create"), Asked(i)
        PROVE  \E x \in Jobs : DropsView(x, d)' /\ Asked(x)' /\ Prior(i, x)'
    <3>1. PICK x \in Jobs : DropsView(x, d) /\ Asked(x) /\ Prior(i, x)
      BY <1>13, <2>1 DEF ViewGoes
    <3> QED
      BY <1>4, <1>11, <2>1, <3>1
  <2>2. ASSUME rel'[d] # NoRelation
        PROVE  \E x \in Jobs : DropsView(x, d)' /\ Asked(x)'
    <3>1. CASE d = c /\ jobs[j].step = "create"
      <4>1. Makes(j, d, "sql", "create") /\ Asked(j)
        BY <1>4, <1>7, <3>1 DEF Makes, c
      <4> QED
        BY <2>1, <4>1
    <3>2. CASE d = c /\ jobs[j].step # "create"
      <4>1. rel[d] # NoRelation /\ jobs[j].step # "dropView"
        BY <1>2, <1>7, <1>8, <1>13, <2>2, <3>2
      <4>2. PICK x \in Jobs : DropsView(x, d) /\ Asked(x)
        BY <1>13, <4>1 DEF ViewGoes
      <4> QED
        BY <1>4, <1>11, <4>1, <4>2
    <3>3. CASE d # c
      <4>1. PICK x \in Jobs : DropsView(x, d) /\ Asked(x)
        BY <1>2, <1>13, <2>2, <3>3 DEF ViewGoes
      <4> QED
        BY <1>4, <1>11, <3>3, <4>1 DEF c
    <3> QED
      BY <3>1, <3>2, <3>3
  <2>3. \A i \in Jobs : Makes(i, d, "sql", "create")' /\ Asked(i)' => Makes(i, d, "sql", "create") /\ Asked(i)
    BY <1>4, <1>10
  <2> QED
    BY <2>1, <2>2, <2>3 DEF ViewGoes
<1>14. ASSUME NEW d \in Cells, Going(d)' PROVE RelationGoes(d)'
  <2>1. Going(d)
    BY <1>1, <1>3, <1>14, GoingSame
  <2>2. RelationGoes(d)
    BY <2>1 DEF Orphans
  <2>3. CASE d \in DOMAIN inputs
    <3>1. TableGoes(d)'
      BY <1>12, <2>2, <2>3 DEF RelationGoes
    <3> QED
      BY <1>1, <2>3, <3>1 DEF RelationGoes
  <2>4. CASE d \notin DOMAIN inputs
    <3>1. ViewGoes(d)'
      BY <1>13, <2>2, <2>4 DEF RelationGoes
    <3> QED
      BY <1>1, <2>4, <3>1 DEF RelationGoes
  <2> QED
    BY <2>3, <2>4
<1> QED
  BY <1>9, <1>14 DEF Orphans

LEMMA OrphansAfterJob ==
  ASSUME Basic, Controls, Orphans, NEW j \in Jobs, JobSteps(j)
  PROVE  Orphans'
<1>1. /\ Typed /\ Queues /\ Tracked /\ Registered /\ Parting /\ StepsOf(jobs[j])
  BY DEF Basic, Controls, Stepped
<1>2. /\ \A i \in Jobs : /\ Running(i) => jobs[i].cell \in Cells
                         /\ jobs[i].kind \in {"drop", "leave"} => jobs[i].cell \in Cells
      /\ None \notin Jobs
  BY RunningCell, RecordsAre
(* A step of a job that neither drops nor creates.                         *)
<1>3. ASSUME Others({}, j), UNCHANGED <<inputs, rel>>,
             Takes(j) \/ Reposts(j) \/ Stays \/ Posts(j), NEW c \in Cells, RelationGoes(c),
             Dropping(j, c) => jobs[j].step = "dropTable" /\ ~Asked(j),
             \/ jobs'[j].cell # c \/ jobs'[j].kind \notin {"sql", "lang"}
             \/ jobs'[j].step \notin {"create", "buffer", "table"}
      PROVE  RelationGoes(c)'
  <2>1. /\ \A i \in Jobs \ {j} :
            /\ jobs'[i].kind = jobs[i].kind /\ jobs'[i].cell = jobs[i].cell
            /\ jobs'[i].step = jobs[i].step /\ (Asked(i)' <=> Asked(i))
        /\ \A x, y \in Jobs \ {j} : Prior(x, y)' <=> Prior(x, y)
    BY <1>3 DEF Takes, Reposts, Stays, Posts, Others, Alike
  <2> QED
    BY <1>3, <2>1, GoesKept
<1>4. ASSUME UNCHANGED <<inputs, rel>>, \A c \in Cells : Going(c)' => RelationGoes(c)'
      PROVE  Orphans'
  BY <1>4 DEF Orphans
<1>5. ASSUME Others({}, j), UNCHANGED doc, jobs'[j].kind # "leave" \/ jobs'[j].cell = jobs[j].cell,
             jobs'[j].kind = "leave" => jobs[j].kind = "leave", NEW c \in Cells, Going(c)'
      PROVE  RelationGoes(c)
  <2>1. Going(c)
    BY <1>5, GoingSame DEF Others, Alike
  <2> QED
    BY <2>1 DEF Orphans
<1>6. CASE Ran(j)
  BY <1>6, OrphansRan
<1>7. CASE Selects(j) \/ Loads(j) \/ Asks(j)
  <2>1. /\ Others({}, j) /\ UNCHANGED <<doc, inputs, rel>> /\ (Takes(j) \/ Reposts(j))
        /\ jobs[j].kind \notin {"drop", "leave"} /\ jobs'[j].kind = jobs[j].kind
        /\ jobs'[j].step \in {"select", "load", "known"}
    BY <1>7 DEF Selects, Loads, Asks, Advances
  <2>2. ASSUME NEW c \in Cells, RelationGoes(c) PROVE RelationGoes(c)'
    BY <1>3, <2>1, <2>2 DEF Dropping
  <2>3. ASSUME NEW c \in Cells, Going(c)' PROVE RelationGoes(c)
    BY <1>5, <2>1, <2>3
  <2> QED
    BY <1>4, <2>1, <2>2, <2>3
<1>8. CASE Fails(j) \/ Succeeds(j) \/ \E o \in {"success", "error"} : Finishes(j, o)
  <2>1. /\ Others({}, j) /\ UNCHANGED <<doc, inputs, rel>> /\ (Takes(j) \/ Reposts(j) \/ Stays)
        /\ jobs[j].kind \notin {"drop", "leave"} /\ jobs'[j].kind \in {"free", "lineage"}
    BY <1>8 DEF Fails, Succeeds, Finishes, Frees, Free
  <2>2. ASSUME NEW c \in Cells, RelationGoes(c) PROVE RelationGoes(c)'
    BY <1>3, <2>1, <2>2 DEF Dropping
  <2>3. ASSUME NEW c \in Cells, Going(c)' PROVE RelationGoes(c)
    BY <1>5, <2>1, <2>3
  <2> QED
    BY <1>4, <2>1, <2>2, <2>3
<1>9. CASE Dropped(j) \/ Recorded(j)
  <2>1. /\ Others({}, j) /\ UNCHANGED <<doc, inputs, rel>> /\ Takes(j) /\ jobs'[j].kind = "free"
        /\ jobs[j].kind = "lineage" \/ (jobs[j].step = "dropTable" /\ ~Asked(j))
    BY <1>9 DEF Dropped, Recorded, Frees, Free, Takes, First
  <2> QED
    BY <1>3, <1>4, <1>5, <2>1 DEF Dropping
<1>10. CASE Departs(j)
  <2>1. /\ Others({}, j) /\ UNCHANGED <<inputs, rel>> /\ Takes(j) /\ jobs'[j].kind = "free"
        /\ jobs[j].kind = "leave" /\ jobs[j].step = "dropTable" /\ ~Asked(j)
        /\ Place(jobs[j].cell) = Len(doc)
    BY <1>10 DEF Departs, Frees, Free, Takes, First
  <2>2. ASSUME NEW c \in Cells PROVE RelationGoes(c)
    <3>1. Listed(c) => Place(c) <= Place(jobs[j].cell)
      BY <1>1, <2>1, PlaceOf DEF Typed
    <3>2. Going(c)
      BY <2>1, <3>1 DEF Going
    <3> QED
      BY <3>2 DEF Orphans
  <2> QED
    BY <1>3, <1>4, <2>1, <2>2
<1>11. ASSUME NEW s \in LangSteps, Follows(j, s) PROVE Orphans'
  <2>1. /\ Others({}, j) /\ UNCHANGED <<doc, inputs, rel>> /\ Reposts(j)
        /\ jobs[j].kind = "lang" /\ jobs'[j].kind = "lang" /\ jobs'[j].step = s
        /\ jobs'[j].cell = jobs[j].cell
        /\ s = "table" => jobs[j].step = "buffer"
        /\ s \notin {"create", "buffer"}
    BY <1>11 DEF Follows, Advances, After
  <2>2. CASE s # "table"
    BY <1>3, <1>4, <1>5, <2>1, <2>2 DEF Dropping
  <2>3. ASSUME s = "table", NEW c \in Cells, RelationGoes(c), c = jobs[j].cell PROVE RelationGoes(c)'
    <3>1. c \in DOMAIN inputs /\ TableGoes(c)
      BY <1>1, <2>1, <2>3 DEF RelationGoes, StepsOf
    <3>2. \A i \in Jobs \ {j} : /\ Makes(i, c, "lang", "buffer")' <=> Makes(i, c, "lang", "buffer")
                                /\ Makes(i, c, "lang", "table")' <=> Makes(i, c, "lang", "table")
                                /\ DropsView(i, c)' <=> DropsView(i, c)
                                /\ DropsTable(i, c)' <=> DropsTable(i, c)
                                /\ Asked(i)' <=> Asked(i)
      BY <2>1 DEF Others, Alike, Makes, DropsView, DropsTable, Dropping, Reposts
    <3>3. /\ ~DropsView(j, c) /\ ~DropsTable(j, c) /\ Makes(j, c, "lang", "buffer")
          /\ ~Makes(j, c, "lang", "buffer")'
      BY <2>1, <2>3 DEF DropsView, DropsTable, Dropping, Makes
    <3>4. \A x, y \in Jobs \ {j} : Prior(x, y)' <=> Prior(x, y)
      BY <2>1 DEF Reposts
    <3>5. ASSUME NEW i \in Jobs, Makes(i, c, "lang", "buffer")'
          PROVE  \E d \in Jobs : DropsView(d, c)' /\ Prior(i, d)'
      <4>1. i # j /\ Makes(i, c, "lang", "buffer")
        BY <3>2, <3>3, <3>5
      <4>2. PICK d \in Jobs : DropsView(d, c) /\ Prior(i, d)
        BY <3>1, <4>1 DEF TableGoes
      <4> QED
        BY <3>2, <3>3, <3>4, <4>1, <4>2
    <3>6. ASSUME NEW i \in Jobs, Makes(i, c, "lang", "table")', Asked(i)'
          PROVE  \E d \in Jobs : \/ DropsView(d, c)'
                                 \/ DropsTable(d, c)' /\ Asked(d)' /\ Prior(i, d)'
      <4>1. PICK d \in Jobs : \/ DropsView(d, c)
                              \/ DropsTable(d, c) /\ Asked(d) /\ (i # j => Prior(i, d))
        BY <3>1, <3>2, <3>3, <3>6 DEF TableGoes
      <4>2. CASE i = j
        <5>1. \E x \in Jobs : DropsView(x, c)
          BY <3>1, <3>3 DEF TableGoes
        <5> QED
          BY <3>2, <3>3, <5>1
      <4>3. CASE i # j
        BY <3>2, <3>3, <3>4, <4>1, <4>3
      <4> QED
        BY <4>2, <4>3
    <3>7. ASSUME rel'[c] # NoRelation
          PROVE  \E d \in Jobs : DropsView(d, c)' \/ (DropsTable(d, c)' /\ Asked(d)')
      <4>1. PICK d \in Jobs : DropsView(d, c) \/ (DropsTable(d, c) /\ Asked(d))
        BY <2>1, <3>1, <3>7 DEF TableGoes
      <4> QED
        BY <3>2, <3>3, <4>1
    <3>8. TableGoes(c)'
      BY <3>5, <3>6, <3>7 DEF TableGoes
    <3> QED
      BY <2>1, <3>1, <3>8 DEF RelationGoes
  <2>4. ASSUME NEW c \in Cells, RelationGoes(c), c # jobs[j].cell PROVE RelationGoes(c)'
    BY <1>3, <2>1, <2>4 DEF Dropping
  <2> QED
    BY <1>4, <1>5, <2>1, <2>2, <2>3, <2>4
<1>12. CASE Buffers(j)
  <2>1. /\ Others({}, j) /\ UNCHANGED <<doc, inputs, rel>> /\ Posts(j)
        /\ jobs[j].kind = "lang" /\ jobs'[j].kind = "lang" /\ ~jobs[j].aborted
        /\ jobs'[j].cell = jobs[j].cell
    BY <1>12 DEF Buffers, Advances
  <2>2. Running(j) /\ jobs[j].cell \in Cells
    BY <1>2, <2>1 DEF Running
  <2>3. aborts[jobs[j].cell] = j
    BY <1>1, <2>1, <2>2 DEF Tracked
  <2>4. Listed(jobs[j].cell) /\ ~Leaving
    BY <1>1, <1>2, <2>2, <2>3 DEF Registered, Parting
  <2>5. ~Going(jobs[j].cell)
    BY <2>4 DEF Going, Leaving
  <2>6. ASSUME NEW c \in Cells, Going(c)' PROVE RelationGoes(c)'
    <3>1. Going(c)
      BY <2>1, <2>6, GoingSame DEF Others, Alike
    <3>2. RelationGoes(c) /\ c # jobs[j].cell
      BY <2>5, <3>1 DEF Orphans
    <3> QED
      BY <1>3, <2>1, <3>2 DEF Dropping
  <2> QED
    BY <1>4, <2>1, <2>6
<1>13. ASSUME NEW c \in Cells, RelationGoes(c), Drops(j), c = jobs[j].cell
      PROVE  RelationGoes(c)'
  <2>1. /\ Others({}, j) /\ UNCHANGED <<doc, inputs, rel>> /\ Reposts(j)
        /\ jobs[j].kind \in {"drop", "leave"} /\ jobs'[j].kind = jobs[j].kind
        /\ jobs[j].step = "dropView" /\ jobs'[j].step = "dropTable" /\ jobs'[j].cell = c
    BY <1>13 DEF Drops, Advances
  <2>2. /\ \A i \in Jobs \ {j} :
            /\ Makes(i, c, "lang", "buffer")' <=> Makes(i, c, "lang", "buffer")
            /\ Makes(i, c, "lang", "table")' <=> Makes(i, c, "lang", "table")
            /\ Makes(i, c, "sql", "create")' <=> Makes(i, c, "sql", "create")
            /\ DropsView(i, c)' <=> DropsView(i, c)
            /\ DropsTable(i, c)' <=> DropsTable(i, c)
            /\ Asked(i)' <=> Asked(i)
        /\ DropsTable(j, c)' /\ Asked(j)' /\ ~Asked(j)
        /\ ~Makes(j, c, "lang", "buffer")' /\ ~Makes(j, c, "lang", "table")'
        /\ ~Makes(j, c, "sql", "create")'
    BY <2>1 DEF Others, Alike, Makes, DropsView, DropsTable, Dropping, Reposts, First
  <2>3. /\ \A x, y \in Jobs \ {j} : Prior(x, y)' <=> Prior(x, y)
        /\ \A x \in Jobs : ~Prior(x, j)
        /\ \A x \in Jobs \ {j} : Asked(x) => Prior(x, j)'
    BY <2>1 DEF Reposts, First
  <2>4. CASE c \in DOMAIN inputs
    <3>1. TableGoes(c)
      BY <1>13, <2>4 DEF RelationGoes
    <3>2. ASSUME NEW i \in Jobs, Makes(i, c, "lang", "buffer")'
          PROVE  \E d \in Jobs : DropsView(d, c)' /\ Prior(i, d)'
      <4>1. i # j /\ Makes(i, c, "lang", "buffer")
        BY <2>2, <3>2
      <4>2. PICK d \in Jobs : DropsView(d, c) /\ Prior(i, d)
        BY <3>1, <4>1 DEF TableGoes
      <4> QED
        BY <2>2, <2>3, <4>1, <4>2
    <3>3. ASSUME NEW i \in Jobs, Makes(i, c, "lang", "table")', Asked(i)'
          PROVE  \E d \in Jobs : \/ DropsView(d, c)'
                                 \/ DropsTable(d, c)' /\ Asked(d)' /\ Prior(i, d)'
      <4>1. i # j /\ Makes(i, c, "lang", "table") /\ Asked(i)
        BY <2>2, <3>3
      <4>2. PICK d \in Jobs : DropsView(d, c) \/ (DropsTable(d, c) /\ Asked(d) /\ Prior(i, d))
        BY <3>1, <4>1 DEF TableGoes
      <4> QED
        BY <2>2, <2>3, <4>1, <4>2
    <3>4. TableGoes(c)'
      BY <2>2, <3>2, <3>3 DEF TableGoes
    <3> QED
      BY <2>1, <2>4, <3>4 DEF RelationGoes
  <2>5. CASE c \notin DOMAIN inputs
    <3>1. ViewGoes(c)
      BY <1>13, <2>5 DEF RelationGoes
    <3>2. ASSUME NEW i \in Jobs, Makes(i, c, "sql", "create")', Asked(i)'
          PROVE  \E d \in Jobs : DropsView(d, c)' /\ Asked(d)' /\ Prior(i, d)'
      <4>1. i # j /\ Makes(i, c, "sql", "create") /\ Asked(i)
        BY <2>2, <3>2
      <4>2. PICK d \in Jobs : DropsView(d, c) /\ Asked(d) /\ Prior(i, d)
        BY <3>1, <4>1 DEF ViewGoes
      <4> QED
        BY <2>2, <2>3, <4>1, <4>2
    <3>3. ASSUME rel'[c] # NoRelation
          PROVE  \E d \in Jobs : DropsView(d, c)' /\ Asked(d)'
      <4>1. PICK d \in Jobs : DropsView(d, c) /\ Asked(d)
        BY <2>1, <3>1, <3>3 DEF ViewGoes
      <4> QED
        BY <2>2, <4>1
    <3>4. ViewGoes(c)'
      BY <3>2, <3>3 DEF ViewGoes
    <3> QED
      BY <2>1, <2>5, <3>4 DEF RelationGoes
  <2> QED
    BY <2>4, <2>5
<1>14. CASE Drops(j)
  <2>1. /\ Others({}, j) /\ UNCHANGED <<doc, inputs, rel>> /\ Reposts(j)
        /\ jobs'[j].kind = jobs[j].kind /\ jobs'[j].cell = jobs[j].cell
    BY <1>14 DEF Drops, Advances
  <2>2. ASSUME NEW c \in Cells, RelationGoes(c) PROVE RelationGoes(c)'
    <3>1. CASE c = jobs[j].cell
      BY <1>13, <1>14, <2>2, <3>1
    <3>2. CASE c # jobs[j].cell
      BY <1>3, <2>1, <2>2, <3>2 DEF Dropping
    <3> QED
      BY <3>1, <3>2
  <2>3. ASSUME NEW c \in Cells, Going(c)' PROVE RelationGoes(c)
    BY <1>5, <2>1, <2>3
  <2> QED
    BY <1>4, <2>1, <2>2, <2>3
<1>15. CASE Proceeds(j)
  <2> DEFINE next == doc[Place(jobs[j].cell) + 1]
  <2>1. /\ Others({}, j) /\ UNCHANGED <<doc, inputs, rel>> /\ Reposts(j) /\ ~Asked(j)
        /\ jobs[j].kind = "leave" /\ jobs[j].step = "dropTable"
        /\ jobs'[j].kind = "leave" /\ jobs'[j].step = "dropView" /\ jobs'[j].cell = next
        /\ Place(jobs[j].cell) < Len(doc)
    BY <1>15 DEF Proceeds, Reposts, First
  <2>2. Listed(jobs[j].cell)
    BY <1>1, <2>1 DEF Parting, LeavesListed
  <2>3. Place(jobs[j].cell) \in 1..Len(doc)
    BY <1>1, <2>2, PlaceOf
  <2>4. Place(jobs[j].cell) + 1 \in 1..Len(doc) /\ doc \in Seq(Cells)
    BY <1>1, <2>1, <2>3 DEF Typed
  <2>5. next \in Cells /\ Listed(next)
    BY <2>4 DEF Listed, Range
  <2>6. Place(next) = Place(jobs[j].cell) + 1
    BY <1>1, <2>4, <2>5, PlaceOf
  <2> HIDE DEF next
  <2>0. PICK n \in Cells : n = next
    BY <2>5
  <2>7. RelationGoes(n)'

    <3>1. /\ \A i \in Jobs \ {j} :
              /\ jobs'[i].kind = jobs[i].kind /\ jobs'[i].cell = jobs[i].cell
              /\ jobs'[i].step = jobs[i].step /\ (Asked(i)' <=> Asked(i))
          /\ \A x \in Jobs \ {j} : Asked(x) \/ Answered(x) => Prior(x, j)'
          /\ Asked(j)'
      BY <2>1 DEF Reposts, Others, Alike
    <3>2. DropsView(j, n)'
      BY <2>0, <2>1 DEF DropsView, Dropping
    <3> QED
      BY <1>1, <2>1, <3>1, <3>2, GoesWith
  <2>8. ASSUME NEW c \in Cells, Going(c)', c # n PROVE RelationGoes(c)'
    <3>1. \A x : Place(x)' = Place(x)
      BY <2>1 DEF Place
    <3>2. Listed(c) => Place(c) <= Place(jobs[j].cell)
      <4> SUFFICES ASSUME Listed(c) PROVE Place(c) <= Place(jobs[j].cell)
        OBVIOUS
      <4>1. Listed(c)'
        BY <2>1 DEF Listed
      <4>2. PICK l \in Jobs : jobs'[l].kind = "leave" /\ Place(c)' <= Place(jobs[l].cell)'
        BY <2>8, <4>1 DEF Going
      <4>3. l = j
        BY <1>1, <2>1, <4>2 DEF Others, Alike, Parting
      <4>4. n = jobs'[j].cell
        BY <2>1, <2>0
      <4>5. Place(jobs[l].cell)' = Place(n)
        BY <2>1, <4>3, <4>4 DEF Place
      <4>6. Place(c) \in 1..Len(doc) /\ doc[Place(c)] = c
        BY <1>1, PlaceOf
      <4>7. Place(n) \in 1..Len(doc) /\ doc[Place(n)] = n
        BY <1>1, <2>0, <2>5, PlaceOf
      <4>8. Place(c) # Place(n) /\ Place(c) <= Place(n)
        BY <2>8, <3>1, <4>2, <4>4, <4>5, <4>6, <4>7
      <4> QED
        BY <1>1, <2>0, <2>3, <2>6, <4>6, <4>8 DEF Typed
    <3>3. Going(c)
      BY <2>1, <3>2 DEF Going
    <3>4. RelationGoes(c)
      BY <3>3 DEF Orphans
    <3>5. jobs'[j].cell # c
      BY <2>0, <2>1, <2>8
    <3> QED
      BY <1>3, <2>1, <3>4, <3>5
  <2>9. \A c \in Cells : Going(c)' => RelationGoes(c)'
    BY <2>7, <2>8
  <2> QED
    BY <1>4, <2>1, <2>9
<1> QED
  BY <1>6, <1>7, <1>8, <1>9, <1>10, <1>11, <1>12, <1>14, <1>15 DEF JobSteps

LEMMA OrphansInitially ==
  ASSUME Init
  PROVE  Orphans
<1>1. jobs = [j \in Jobs |-> Free] /\ rel = [c \in Cells |-> NoRelation]
  BY DEF Init
<1>2. \A i \in Jobs, c \in Cells, k \in {"sql", "lang"}, s \in {"create", "buffer", "table"} :
          ~Makes(i, c, k, s)
  BY <1>1 DEF Makes, Free
<1> QED
  BY <1>1, <1>2 DEF Orphans, RelationGoes, TableGoes, ViewGoes

LEMMA NoOrphanThen ==
  ASSUME Orphans
  PROVE  NoOrphanRelation
<1> SUFFICES ASSUME \A j \in Jobs : jobs[j].kind = "free", NEW c \in Cells, ~Listed(c),
                    rel[c] # NoRelation
             PROVE  FALSE
  BY DEF NoOrphanRelation
<1>1. RelationGoes(c)
  BY DEF Orphans, Going
<1>2. \A d \in Jobs : ~DropsView(d, c) /\ ~DropsTable(d, c)
  BY DEF DropsView, DropsTable, Dropping
<1> QED
  BY <1>1, <1>2 DEF RelationGoes, TableGoes, ViewGoes

(* A run that a deletion or a departure finds in flight leaves no relation *)
(* behind: what it still creates, a drop behind it in the worker's queue   *)
(* takes away (deleteCell, dropCurrentWorkspaceArtifacts, engine.drop).    *)
THEOREM NoOrphanRelationAlways == Spec => []NoOrphanRelation
<1> DEFINE Inv == Basic /\ Controls /\ Orphans
<1>1. Init => Inv
  BY BasicInitially, ControlsInitially, OrphansInitially
<1>2. Inv /\ [Next]_vars => Inv'
  BY StepsKeep, OrphansAfterUser, OrphansAfterJob
<1>3. Inv => NoOrphanRelation
  BY NoOrphanThen
<1> QED
  BY <1>1, <1>2, <1>3, PTL DEF Spec

-----------------------------------------------------------------------------
(* The view of a query that shows rows is that of the rows.                *)

(* The queue is what it was, but for j.                                    *)
Beside(j) ==
    /\ \A i \in Jobs \ {j} : (Asked(i)' <=> Asked(i)) /\ (Answered(i)' <=> Answered(i))
    /\ \A x, y \in Jobs \ {j} : Prior(x, y)' <=> Prior(x, y)

LEMMA BesideWhen ==
  ASSUME NEW j
  PROVE  Takes(j) \/ Reposts(j) \/ Posts(j) \/ Stays => Beside(j)
BY DEF Takes, Reposts, Posts, Stays, Beside

Sql(j, c) == jobs[j].kind = "sql" /\ jobs[j].cell = c
Creating(i, c) == Sql(i, c) /\ jobs[i].step = "create" /\ Asked(i)
ViewOf(j) == [table |-> FALSE, code |-> jobs[j].code, sel |-> jobs[j].sel, reads |-> jobs[j].reads]
Faithful(c) == rel[c] # NoRelation /\ rel[c].code = shown[c].code /\ rel[c].sel = shown[c].sel

(* What older runs still create comes before the statement of the run      *)
(* whose controller is registered.                                         *)
SqlOrdered ==
    \A c \in Cells, i, j \in Jobs :
        Creating(i, c) /\ Sql(j, c) /\ i # j /\ aborts[c] = j
           => Asked(j) /\ jobs[j].step \in {"create", "direct"} /\ Prior(i, j)

SqlCreated ==
    \A c \in Cells, j \in Jobs :
        /\ Sql(j, c) /\ ~jobs[j].aborted
        /\ jobs[j].step = "select" \/ (jobs[j].step = "create" /\ Answered(j) /\ jobs[j].ok)
        => rel[c] = ViewOf(j)

SqlShown ==
    \A c \in Cells \ DOMAIN inputs :
        Live(c) /\ ~Leaving => /\ \A i \in Jobs : ~Creating(i, c)
                               /\ shown[c].code \notin Direct => Faithful(c)

Sqls == SqlOrdered /\ SqlCreated /\ SqlShown

(* A step of a job that is no query afterwards, and shows no rows.         *)
LEMMA SqlsKept ==
  ASSUME Sqls, NEW S, NEW j, Others(S, j), Beside(j), UNCHANGED <<inputs, rel>>,
         jobs'[j].kind # "sql" \/ j \notin Jobs,
         \A c \in Cells : aborts'[c] \in {None, j, aborts[c]},
         \A c \in Cells \ DOMAIN inputs :
            Live(c)' /\ ~Leaving' => Live(c) /\ ~Leaving /\ shown'[c] = shown[c]
  PROVE  Sqls'
<1>1. \A i \in Jobs, c \in Cells :
        /\ Sql(i, c)' => i # j /\ Sql(i, c)
        /\ Creating(i, c)' => i # j /\ Creating(i, c)
  BY DEF Others, Alike, Sql, Creating, Beside
<1>2. \A i \in Jobs \ {j} :
        /\ jobs'[i].step = jobs[i].step /\ ViewOf(i)' = ViewOf(i) /\ jobs'[i].ok = jobs[i].ok
        /\ ~jobs'[i].aborted => ~jobs[i].aborted
        /\ Asked(i)' <=> Asked(i)
        /\ Answered(i)' <=> Answered(i)
  BY DEF Others, Alike, ViewOf, Beside
<1>3. SqlOrdered'
  <2> SUFFICES ASSUME NEW c \in Cells, NEW i \in Jobs, NEW k \in Jobs, Creating(i, c)', Sql(k, c)',
                      i # k, aborts'[c] = k
               PROVE  Asked(k)' /\ jobs'[k].step \in {"create", "direct"} /\ Prior(i, k)'
    BY DEF SqlOrdered
  <2>1. i # j /\ k # j /\ Creating(i, c) /\ Sql(k, c) /\ aborts[c] = k
    BY <1>1, RecordsAre
  <2>2. Asked(k) /\ jobs[k].step \in {"create", "direct"} /\ Prior(i, k)
    BY <2>1 DEF Sqls, SqlOrdered
  <2> QED
    BY <1>2, <2>1, <2>2 DEF Beside
<1>4. SqlCreated'
  <2> SUFFICES ASSUME NEW c \in Cells, NEW k \in Jobs, Sql(k, c)', ~jobs'[k].aborted,
                      \/ jobs'[k].step = "select"
                      \/ jobs'[k].step = "create" /\ Answered(k)' /\ jobs'[k].ok
               PROVE  rel'[c] = ViewOf(k)'
    BY DEF SqlCreated
  <2>1. k # j /\ Sql(k, c) /\ rel[c] = ViewOf(k)
    BY <1>1, <1>2 DEF Sqls, SqlCreated
  <2> QED
    BY <1>2, <2>1
<1>5. SqlShown'
  <2> SUFFICES ASSUME NEW c \in Cells \ DOMAIN inputs, Live(c)', ~Leaving'
               PROVE  /\ \A i \in Jobs : ~Creating(i, c)'
                      /\ shown'[c].code \notin Direct => Faithful(c)'
    BY DEF SqlShown
  <2>1. /\ \A i \in Jobs : ~Creating(i, c)
        /\ shown[c].code \notin Direct => Faithful(c)
        /\ shown'[c] = shown[c] /\ rel'[c] = rel[c]
    BY DEF Sqls, SqlShown
  <2> QED
    BY <1>1, <2>1 DEF Faithful
<1> QED
  BY <1>3, <1>4, <1>5 DEF Sqls

LEMMA LiveSame ==
  ASSUME NEW c, Listed(c)' => Listed(c), shown'[c] = shown[c], status'[c] = "success" => status[c] = "success",
         Live(c)'
  PROVE  Live(c)
BY DEF Live

LEMMA SqlsAfterUser ==
  ASSUME Basic, Controls, Sqls, UserSteps
  PROVE  Sqls'
<1>1. Typed /\ Queues /\ (Apt => ~Leaving) /\ None \notin Jobs
  BY RecordsAre DEF Basic, Controls, Parting, Apt
<1>2. \A c \in Cells : UNCHANGED doc => (Listed(c)' => Listed(c))
  BY DEF Listed
<1>3. CASE Idle \/ Quiet
  <2>1. Stays /\ UNCHANGED <<doc, inputs, status, shown, aborts, jobs, rel>>
    BY <1>3 DEF Idle, Quiet, Still
  <2>2. Others({}, None)
    BY <2>1 DEF Others, Alike
  <2>3. \A c \in Cells : Live(c)' /\ ~Leaving' => Live(c) /\ ~Leaving /\ shown'[c] = shown[c]
    BY <1>2, <2>1, LiveSame DEF Leaving
  <2> QED
    BY <1>1, <2>1, <2>2, <2>3, BesideWhen, SqlsKept
<1>4. ASSUME NEW c \in Cells, Refuses(c) \/ Gives(c) PROVE Sqls'
  <2>1. /\ ~Leaving /\ Stays /\ UNCHANGED <<doc, inputs, rel>>
        /\ status' = [status EXCEPT ![c] = "error"] /\ shown' = [shown EXCEPT ![c] = NoRows]
    BY <1>1, <1>4 DEF Refuses, Gives
  <2>2. PICK S : Others(S, None)
    <3>1. CASE Refuses(c)
      <4>1. Others({}, None)
        BY <3>1 DEF Refuses, Others, Alike
      <4> QED
        BY <4>1
    <3>2. CASE Gives(c)
      BY <3>2 DEF Gives
    <3> QED
      BY <1>4, <3>1, <3>2
  <2>3. \A d \in Cells : aborts'[d] \in {None, aborts[d]}
    BY <1>1, <1>4 DEF Refuses, Gives, Typed
  <2>4. \A d \in Cells : Live(d)' => Live(d) /\ shown'[d] = shown[d]
    <3>1. \A d \in Cells : d # c => status'[d] = status[d] /\ shown'[d] = shown[d]
      BY <2>1
    <3>2. status'[c] = "error"
      BY <1>1, <2>1 DEF Typed
    <3> QED
      BY <1>2, <2>1, <3>1, <3>2, LiveSame DEF Live
  <2> QED
    BY <1>1, <2>1, <2>2, <2>3, <2>4, BesideWhen, SqlsKept
<1>5. ASSUME NEW S \in SUBSET Jobs, Escapes(S) PROVE Sqls'
  <2>1. /\ ~Leaving /\ Stays /\ UNCHANGED <<doc, inputs, shown, aborts, rel>> /\ Others(S, None)
        /\ status' = Silenced(S)
    BY <1>1, <1>5 DEF Escapes
  <2>2. \A d \in Cells : status'[d] = "success" => status[d] = "success"
    BY <2>1 DEF Silenced
  <2>3. \A d \in Cells : Live(d)' => Live(d) /\ shown'[d] = shown[d]
    BY <1>2, <2>1, <2>2, LiveSame
  <2> QED
    BY <1>1, <2>1, <2>3, BesideWhen, SqlsKept
<1>6. ASSUME NEW c \in Cells, NEW j \in Jobs, Deletes(c, j) PROVE Sqls'
  <2>1. /\ ~Leaving /\ Posts(j) /\ UNCHANGED <<inputs, status, shown, rel>>
        /\ Others(Controllers(c), j) /\ jobs'[j].kind = "drop" /\ Range(doc') = Range(doc) \ {c}
        /\ aborts' = [aborts EXCEPT ![c] = None]
    BY <1>1, <1>6 DEF Deletes
  <2>2. \A d \in Cells : Listed(d)' => Listed(d)
    BY <2>1 DEF Listed
  <2>3. \A d \in Cells : aborts'[d] \in {None, j, aborts[d]}
    BY <1>1, <2>1 DEF Typed
  <2>4. \A d \in Cells : Live(d)' => Live(d) /\ shown'[d] = shown[d]
    BY <2>1, <2>2, LiveSame
  <2> QED
    BY <1>1, <2>1, <2>3, <2>4, BesideWhen, SqlsKept
<1>7. ASSUME NEW j \in Jobs, Leaves(j) PROVE Sqls'
  <2>1. /\ Posts(j) /\ UNCHANGED <<inputs, rel>> /\ jobs'[j].kind = "leave"
        /\ aborts' = [c \in Cells |-> None]
    BY <1>7 DEF Leaves
  <2>2. Others(UNION {Controllers(c) : c \in Cells}, j)
    BY <1>7 DEF Leaves
  <2>3. Leaving'
    BY <2>1 DEF Leaving
  <2>4. \A d \in Cells : aborts'[d] \in {None, j, aborts[d]}
    BY <2>1
  <2> QED
    BY <2>1, <2>2, <2>3, <2>4, BesideWhen, SqlsKept
<1>8. ASSUME NEW c \in Cells, NEW j \in Jobs, Starts(c, j) PROVE Sqls'
  <2>1. /\ ~Leaving /\ Posts(j) /\ UNCHANGED <<doc, inputs, shown, rel>>
        /\ Others(Controllers(c), j) /\ jobs'[j].cell = c
        /\ jobs'[j].kind = IF c \in DOMAIN inputs THEN "lang" ELSE "sql"
        /\ c \notin DOMAIN inputs => jobs'[j].step \in {"create", "direct"}
        /\ aborts' = [aborts EXCEPT ![c] = j]
        /\ status' = [status EXCEPT ![c] = "running"]
    BY <1>1, <1>8 DEF Starts
  <2>2. \A d \in Cells : aborts'[d] = IF d = c THEN j ELSE aborts[d]
    BY <1>1, <2>1 DEF Typed
  <2>3. status'[c] = "running" /\ \A d \in Cells : d # c => status'[d] = status[d]
    BY <1>1, <2>1 DEF Typed
  <2>4. \A d \in Cells : Live(d)' => d # c /\ Live(d) /\ shown'[d] = shown[d]
    BY <1>2, <2>1, <2>3, LiveSame DEF Live
  <2>5. CASE c \in DOMAIN inputs
    BY <1>1, <2>1, <2>2, <2>4, <2>5, BesideWhen, SqlsKept
  <2>6. CASE c \notin DOMAIN inputs
    <3>1. \A i \in Jobs \ {j}, d \in Cells :
            /\ Sql(i, d)' <=> Sql(i, d)
            /\ Creating(i, d)' <=> Creating(i, d)
      BY <2>1 DEF Others, Alike, Sql, Creating, Posts
    <3>2. \A i \in Jobs \ {j} :
            /\ jobs'[i].step = jobs[i].step /\ ViewOf(i)' = ViewOf(i) /\ jobs'[i].ok = jobs[i].ok
            /\ ~jobs'[i].aborted => ~jobs[i].aborted
            /\ Asked(i)' <=> Asked(i)
            /\ Answered(i)' <=> Answered(i)
      BY <2>1 DEF Others, Alike, ViewOf, Posts
    <3>3. Asked(j)' /\ ~Answered(j)' /\ \A i \in Jobs \ {j} : Asked(i) => Prior(i, j)'
      BY <2>1 DEF Posts
    <3>4. \A x, y \in Jobs \ {j} : Prior(x, y)' <=> Prior(x, y)
      BY <2>1 DEF Posts
    <3>5. SqlOrdered'
      <4> SUFFICES ASSUME NEW d \in Cells, NEW i \in Jobs, NEW k \in Jobs, Creating(i, d)', Sql(k, d)',
                          i # k, aborts'[d] = k
                   PROVE  Asked(k)' /\ jobs'[k].step \in {"create", "direct"} /\ Prior(i, k)'
        BY DEF SqlOrdered
      <4>1. CASE d = c
        <5>1. k = j /\ Asked(i)'
          BY <2>2, <4>1 DEF Creating
        <5> QED
          BY <2>1, <2>6, <3>2, <3>3, <5>1
      <4>2. CASE d # c
        <5>1. i # j /\ k # j /\ aborts[d] = k
          BY <2>1, <2>2, <4>2 DEF Creating, Sql
        <5>2. Asked(k) /\ jobs[k].step \in {"create", "direct"} /\ Prior(i, k)
          BY <3>1, <5>1 DEF Sqls, SqlOrdered
        <5> QED
          BY <3>2, <3>4, <5>1, <5>2
      <4> QED
        BY <4>1, <4>2
    <3>6. SqlCreated'
      <4> SUFFICES ASSUME NEW d \in Cells, NEW k \in Jobs, Sql(k, d)', ~jobs'[k].aborted,
                          \/ jobs'[k].step = "select"
                          \/ jobs'[k].step = "create" /\ Answered(k)' /\ jobs'[k].ok
                   PROVE  rel'[d] = ViewOf(k)'
        BY DEF SqlCreated
      <4>1. k # j
        BY <2>1, <2>6, <3>3
      <4>2. rel[d] = ViewOf(k)
        BY <3>1, <3>2, <4>1 DEF Sqls, SqlCreated
      <4> QED
        BY <2>1, <3>2, <4>1, <4>2
    <3>7. SqlShown'
      <4> SUFFICES ASSUME NEW d \in Cells \ DOMAIN inputs, Live(d)', ~Leaving'
                   PROVE  /\ \A i \in Jobs : ~Creating(i, d)'
                          /\ shown'[d].code \notin Direct => Faithful(d)'
        BY <2>1 DEF SqlShown
      <4>1. /\ \A i \in Jobs : ~Creating(i, d)
            /\ shown[d].code \notin Direct => Faithful(d)
            /\ shown'[d] = shown[d] /\ rel'[d] = rel[d] /\ d # c
        BY <2>1, <2>4 DEF Sqls, SqlShown
      <4>2. ~Creating(j, d)'
        BY <2>1, <4>1 DEF Creating, Sql
      <4> QED
        BY <3>1, <4>1, <4>2 DEF Faithful
    <3> QED
      BY <3>5, <3>6, <3>7 DEF Sqls
  <2> QED
    BY <2>5, <2>6
<1> QED
  BY <1>3, <1>4, <1>5, <1>6, <1>7, <1>8 DEF UserSteps

(* A statement leaves the relation of the cell alone, unless it creates or *)
(* drops it.                                                               *)
LEMMA EffectIs ==
  ASSUME Basic, NEW j \in Jobs, Ran(j)
  PROVE  /\ Executes(j) /\ Others({}, j) /\ Beside(j)
         /\ UNCHANGED <<doc, inputs, status, shown, gen, aborts>>
         /\ jobs[j].cell \in Cells /\ Asked(j) /\ (Leaving' <=> Leaving)
         /\ jobs'[j].kind = jobs[j].kind /\ jobs'[j].cell = jobs[j].cell
         /\ jobs'[j].step = jobs[j].step /\ jobs'[j].aborted = jobs[j].aborted
         /\ jobs'[j].code = jobs[j].code /\ jobs'[j].gen = jobs[j].gen
         /\ \A c \in Cells : c # jobs[j].cell => rel'[c] = rel[c]
         /\ jobs[j].kind = "sql" /\ jobs[j].step = "create" /\ jobs'[j].ok
               => rel'[jobs[j].cell] = ViewOf(j) /\ ViewOf(j)' = ViewOf(j)
         /\ jobs[j].kind = "lang" /\ jobs[j].step = "table" /\ jobs'[j].ok
               => rel'[jobs[j].cell] = [table |-> TRUE, code |-> jobs[j].code, sel |-> 0, reads |-> {}]
         /\ \/ rel'[jobs[j].cell] = rel[jobs[j].cell]
            \/ jobs[j].kind = "sql" /\ jobs[j].step = "create"
            \/ jobs[j].kind = "lang" /\ jobs[j].step \in {"table", "dropView", "dropTable"}
            \/ jobs[j].kind \in {"drop", "leave"}
<1>1. /\ Typed /\ StepsOf(jobs[j]) /\ jobs[j].kind \in Kinds
  BY DEF Basic, Stepped, Typed, JobRecords
<1>2. /\ jobs[j].cell \in Cells /\ rel' = [rel EXCEPT ![jobs[j].cell] = Effect(jobs[j], jobs'[j].ok)]
      /\ Executes(j) /\ Others({}, j)
      /\ UNCHANGED <<doc, inputs, status, shown, gen, aborts>>
      /\ jobs'[j].kind = jobs[j].kind /\ jobs'[j].cell = jobs[j].cell
      /\ jobs'[j].step = jobs[j].step /\ jobs'[j].aborted = jobs[j].aborted
      /\ jobs'[j].code = jobs[j].code /\ jobs'[j].gen = jobs[j].gen
      /\ jobs'[j].sel = jobs[j].sel /\ jobs'[j].reads = jobs[j].reads
  BY DEF Ran
<1>3. /\ rel'[jobs[j].cell] = Effect(jobs[j], jobs'[j].ok)
      /\ \A c \in Cells : c # jobs[j].cell => rel'[c] = rel[c]
  BY <1>1, <1>2 DEF Typed
<1>4. /\ jobs[j].kind = "sql" /\ jobs[j].step = "create" /\ jobs'[j].ok
               => Effect(jobs[j], jobs'[j].ok) = ViewOf(j) /\ ViewOf(j)' = ViewOf(j)
      /\ jobs[j].kind = "lang" /\ jobs[j].step = "table" /\ jobs'[j].ok
           => Effect(jobs[j], jobs'[j].ok)
                = [table |-> TRUE, code |-> jobs[j].code, sel |-> 0, reads |-> {}]
  BY <1>2 DEF Effect, ViewOf
<1>5. \/ Effect(jobs[j], jobs'[j].ok) = rel[jobs[j].cell]
      \/ jobs[j].step \in {"create", "table", "dropView", "dropTable"}
  BY DEF Effect
<1>6. \/ Effect(jobs[j], jobs'[j].ok) = rel[jobs[j].cell]
      \/ jobs[j].kind = "sql" /\ jobs[j].step = "create"
      \/ jobs[j].kind = "lang" /\ jobs[j].step \in {"table", "dropView", "dropTable"}
      \/ jobs[j].kind \in {"drop", "leave"}
  BY <1>1, <1>5 DEF StepsOf, Kinds, LangSteps
<1>7. Beside(j) /\ Asked(j)
  BY <1>2 DEF Executes, Beside
<1>8. Leaving' <=> Leaving
  BY <1>2 DEF Leaving, Others, Alike
<1> QED
  BY <1>2, <1>3, <1>4, <1>6, <1>7, <1>8

(* Nothing that the worker executes changes the relation of a cell whose   *)
(* run is registered, or that shows rows, but what creates it.             *)
LEMMA KeepsOut ==
  ASSUME Basic, Controls, NEW j \in Jobs, NEW c \in Cells, jobs[j].cell = c,
         aborts[c] # None \/ (Live(c) /\ ~Leaving)
  PROVE  jobs[j].kind \notin {"drop", "leave"}
<1>1. Listed(c) /\ ~Leaving
  BY RunningCell DEF Controls, Registered, Parting, Live
<1> QED
  BY <1>1 DEF Controls, Parting, Leaving

LEMMA SqlsRan ==
  ASSUME Basic, Controls, Sqls, NEW j \in Jobs, Ran(j)
  PROVE  Sqls'
<1>1. /\ Executes(j) /\ Others({}, j) /\ Beside(j)
      /\ UNCHANGED <<doc, inputs, status, shown, gen, aborts>>
      /\ jobs[j].cell \in Cells /\ Asked(j) /\ (Leaving' <=> Leaving)
      /\ jobs'[j].kind = jobs[j].kind /\ jobs'[j].cell = jobs[j].cell
      /\ jobs'[j].step = jobs[j].step /\ jobs'[j].aborted = jobs[j].aborted
      /\ \A c \in Cells : c # jobs[j].cell => rel'[c] = rel[c]
      /\ jobs[j].kind = "sql" /\ jobs[j].step = "create" /\ jobs'[j].ok
               => rel'[jobs[j].cell] = ViewOf(j) /\ ViewOf(j)' = ViewOf(j)
      /\ \/ rel'[jobs[j].cell] = rel[jobs[j].cell]
         \/ jobs[j].kind = "sql" /\ jobs[j].step = "create"
         \/ jobs[j].kind = "lang" /\ jobs[j].step \in {"table", "dropView", "dropTable"}
         \/ jobs[j].kind \in {"drop", "leave"}
  BY EffectIs
<1>2. /\ \A i \in Jobs : Asked(i)' <=> Asked(i) /\ i # j
      /\ \A i \in Jobs : Answered(i)' <=> Answered(i) \/ i = j
      /\ \A x, y \in Jobs : Prior(x, y)' <=> Prior(x, y)
      /\ \A x \in Jobs : Asked(x) => ~Prior(x, j)
      /\ \A x \in Jobs : Asked(x) => ~Answered(x)
  <2>1. \A x \in Jobs : Asked(x) => ~Answered(x)
    BY DEF Basic, Queues, OneQueue, Asked, Answered
  <2> QED
    BY <1>1, <2>1 DEF Executes
<1>3. \A i \in Jobs, c \in Cells :
        /\ Sql(i, c)' <=> Sql(i, c)
        /\ Creating(i, c)' => Creating(i, c) /\ i # j
  BY <1>1, <1>2 DEF Others, Alike, Sql, Creating
<1>4. \A i \in Jobs \ {j} : /\ jobs'[i].step = jobs[i].step /\ ViewOf(i)' = ViewOf(i)
                            /\ jobs'[i].ok = jobs[i].ok /\ (jobs'[i].aborted <=> jobs[i].aborted)
  BY <1>1 DEF Others, Alike, ViewOf
<1>5. \A i \in Jobs : Sql(i, jobs[i].cell) => jobs[i].cell \notin DOMAIN inputs
  BY DEF Basic, Stepped, StepsOf, Sql
<1>6. jobs[j].kind = "lang" => jobs[j].cell \in DOMAIN inputs
  BY DEF Basic, Stepped, StepsOf
<1>7. SqlOrdered'
  <2> SUFFICES ASSUME NEW c \in Cells, NEW i \in Jobs, NEW k \in Jobs, Creating(i, c)', Sql(k, c)',
                      i # k, aborts'[c] = k
               PROVE  Asked(k)' /\ jobs'[k].step \in {"create", "direct"} /\ Prior(i, k)'
    BY DEF SqlOrdered
  <2>1. Creating(i, c) /\ Sql(k, c) /\ aborts[c] = k
    BY <1>1, <1>3
  <2>2. Asked(k) /\ jobs[k].step \in {"create", "direct"} /\ Prior(i, k) /\ Asked(i)
    BY <2>1 DEF Sqls, SqlOrdered, Creating
  <2>3. k # j
    BY <1>2, <2>2
  <2> QED
    BY <1>2, <1>4, <2>2, <2>3
<1>8. SqlCreated'
  <2> SUFFICES ASSUME NEW c \in Cells, NEW k \in Jobs, Sql(k, c)', ~jobs'[k].aborted,
                      \/ jobs'[k].step = "select"
                      \/ jobs'[k].step = "create" /\ Answered(k)' /\ jobs'[k].ok
               PROVE  rel'[c] = ViewOf(k)'
    BY DEF SqlCreated
  <2>1. Sql(k, c) /\ c \notin DOMAIN inputs /\ jobs[k].cell = c /\ jobs[k].kind = "sql"
    BY <1>3, <1>5 DEF Sql
  <2>2. CASE k = j /\ jobs[j].step = "create"
    BY <1>1, <2>1, <2>2
  <2>3. CASE k = j /\ jobs[j].step # "create"
    <3>1. jobs[j].step = "select" /\ ~jobs[j].aborted /\ rel'[c] = rel[c]
      BY <1>1, <2>1, <2>3
    <3>2. rel[c] = ViewOf(j)
      BY <2>1, <2>3, <3>1 DEF Sqls, SqlCreated
    <3>3. ViewOf(j)' = ViewOf(j)
      BY <2>3 DEF Ran, ViewOf
    <3> QED
      BY <2>3, <3>1, <3>2, <3>3
  <2>4. CASE k # j
    <3>1. ~jobs[k].aborted /\ (jobs[k].step = "select"
                                \/ (jobs[k].step = "create" /\ Answered(k) /\ jobs[k].ok))
      BY <1>2, <1>4, <2>4
    <3>2. rel[c] = ViewOf(k)
      BY <2>1, <3>1 DEF Sqls, SqlCreated
    <3>3. aborts[c] = k
      BY <2>1, <3>1 DEF Controls, Tracked, Running
    <3>4. ~Creating(j, c)
      BY <1>2, <2>1, <2>4, <3>1, <3>3 DEF Sqls, SqlOrdered
    <3>5. rel'[c] = rel[c]
      <4>1. CASE jobs[j].cell = c
        <5>1. jobs[j].kind \notin {"drop", "leave"}
          BY <3>3, <4>1, KeepsOut, RecordsAre
        <5> QED
          BY <1>1, <1>6, <2>1, <3>4, <4>1, <5>1 DEF Creating, Sql
      <4> QED
        BY <1>1, <4>1
    <3> QED
      BY <1>4, <2>4, <3>2, <3>5
  <2> QED
    BY <2>2, <2>3, <2>4
<1>9. SqlShown'
  <2> SUFFICES ASSUME NEW c \in Cells \ DOMAIN inputs, Live(c)', ~Leaving'
               PROVE  /\ \A i \in Jobs : ~Creating(i, c)'
                      /\ shown'[c].code \notin Direct => Faithful(c)'
    BY <1>1 DEF SqlShown
  <2>1. Live(c) /\ ~Leaving
    BY <1>1, LiveSame DEF Listed
  <2>2. /\ \A i \in Jobs : ~Creating(i, c)
        /\ shown[c].code \notin Direct => Faithful(c)
    BY <2>1 DEF Sqls, SqlShown
  <2>3. rel'[c] = rel[c]
    <3>1. CASE jobs[j].cell = c
      <4>1. jobs[j].kind \notin {"drop", "leave"}
        BY <2>1, <3>1, KeepsOut
      <4> QED
        BY <1>1, <1>6, <2>2, <3>1, <4>1 DEF Creating, Sql
    <3> QED
      BY <1>1, <3>1
  <2> QED
    BY <1>1, <1>3, <2>2, <2>3 DEF Faithful
<1> QED
  BY <1>7, <1>8, <1>9 DEF Sqls

LEMMA SqlsAfterJob ==
  ASSUME Basic, Controls, Sqls, NEW j \in Jobs, JobSteps(j)
  PROVE  Sqls'
<1>1. /\ Typed /\ Queues /\ Tracked /\ Registered /\ Parting /\ StepsOf(jobs[j]) /\ None \notin Jobs
      /\ \A x \in Jobs : Asked(x) => ~Answered(x)
  BY RecordsAre DEF Basic, Controls, Stepped, Queues, OneQueue, Asked, Answered
<1>2. \A i \in Jobs : Running(i) => jobs[i].cell \in Cells
  BY RunningCell
<1>3. ASSUME Others({}, j), UNCHANGED <<inputs, rel, doc, status, shown, aborts>>,
             Takes(j) \/ Reposts(j) \/ Posts(j), jobs'[j].kind # "sql", Leaving => Leaving'
      PROVE  Sqls'
  <2>1. \A c \in Cells : Live(c)' /\ ~Leaving' => Live(c) /\ ~Leaving /\ shown'[c] = shown[c]
    BY <1>3, LiveSame DEF Listed
  <2> QED
    BY <1>3, <2>1, BesideWhen, SqlsKept
<1>4. CASE Ran(j)
  BY <1>4, SqlsRan
<1>5. CASE Loads(j) \/ Buffers(j) \/ Drops(j) \/ Asks(j) \/ \E s \in LangSteps : Follows(j, s)
  <2>1. /\ Others({}, j) /\ UNCHANGED <<inputs, rel, doc, status, shown, aborts>>
        /\ Takes(j) \/ Reposts(j) \/ Posts(j)
        /\ jobs'[j].kind = jobs[j].kind /\ jobs[j].kind # "sql"
    BY <1>5 DEF Loads, Buffers, Drops, Asks, Follows, Advances
  <2>2. Leaving => Leaving'
    BY <2>1 DEF Leaving, Others, Alike
  <2> QED
    BY <1>3, <2>1, <2>2
<1>6. CASE Proceeds(j)
  <2>1. Leaving'
    BY <1>6 DEF Proceeds, Leaving
  <2> QED
    BY <1>3, <1>6, <2>1 DEF Proceeds
<1>7. CASE Dropped(j) \/ Recorded(j)
  <2>1. /\ Others({}, j) /\ UNCHANGED <<inputs, rel, doc, status, shown, aborts>>
        /\ Takes(j) /\ jobs'[j].kind = "free" /\ jobs[j].kind # "leave"
    BY <1>7 DEF Dropped, Recorded, Frees, Free
  <2>2. Leaving => Leaving'
    BY <2>1 DEF Leaving, Others, Alike
  <2> QED
    BY <1>3, <2>1, <2>2
<1>8. CASE Departs(j)
  <2>1. /\ Others({}, j) /\ UNCHANGED <<inputs, rel, aborts>> /\ doc' = <<>>
        /\ Takes(j) /\ jobs'[j].kind = "free"
    BY <1>8 DEF Departs, Frees, Free
  <2>2. \A c \in Cells : ~Live(c)'
    BY <2>1 DEF Live, Listed, Range
  <2> QED
    BY <2>1, <2>2, BesideWhen, SqlsKept
<1>9. CASE Fails(j) \/ \E o \in {"success", "error"} : Finishes(j, o)
  <2>1. /\ Others({}, j) /\ UNCHANGED <<inputs, rel, doc>> /\ aborts' = Cleared(j)
        /\ Takes(j) \/ Stays
        /\ jobs'[j].kind = "free" /\ Running(j)
    BY <1>9 DEF Fails, Finishes, Frees, Free, Running
  <2>2. /\ \A c \in Cells : aborts'[c] \in {None, j, aborts[c]}
        /\ Leaving' <=> Leaving
    <3>1. \A c \in Cells : aborts'[c] \in {None, j, aborts[c]}
      BY <1>1, <2>1 DEF Cleared, Typed
    <3> QED
      BY <2>1, <3>1 DEF Leaving, Others, Alike, Running
  <2>3. ASSUME NEW c \in Cells \ DOMAIN inputs, Live(c)' PROVE Live(c) /\ shown'[c] = shown[c]
    <3>1. Listed(c)' => Listed(c)
      BY <2>1 DEF Listed
    <3>2. CASE Fails(j)
      <4>1. (status'[c] = status[c] /\ shown'[c] = shown[c]) \/ status'[c] = "error"
        BY <1>1, <3>2 DEF Fails, Typed
      <4>2. status'[c] = "success"
        BY <2>3 DEF Live
      <4> QED
        BY <2>3, <3>1, <4>1, <4>2, LiveSame
    <3>3. ASSUME NEW o, Finishes(j, o) PROVE Live(c) /\ shown'[c] = shown[c]
      <4>1. c # jobs[j].cell
        BY <1>1, <3>3 DEF Finishes, StepsOf
      <4>2. status'[c] = status[c] /\ shown'[c] = shown[c]
        BY <1>1, <3>3, <4>1 DEF Finishes, Typed
      <4> QED
        BY <2>3, <3>1, <4>2, LiveSame
    <3> QED
      BY <1>9, <3>2, <3>3
  <2> QED
    BY <2>1, <2>2, <2>3, BesideWhen, SqlsKept
<1>10. CASE Selects(j)
  <2>1. /\ jobs[j].kind = "sql" /\ jobs[j].step = "create" /\ jobs[j].ok /\ ~jobs[j].aborted
        /\ Reposts(j) /\ Others({}, j) /\ First(j)
        /\ UNCHANGED <<doc, inputs, status, shown, aborts, rel>>
        /\ jobs'[j].kind = "sql" /\ jobs'[j].step = "select" /\ jobs'[j].cell = jobs[j].cell
        /\ ViewOf(j)' = ViewOf(j) /\ jobs'[j].aborted = jobs[j].aborted
    BY <1>10 DEF Selects, Advances, ViewOf, Reposts
  <2>2. Answered(j) /\ ~Asked(j)
    BY <2>1 DEF First
  <2>3. \A i \in Jobs, c \in Cells :
          /\ Sql(i, c)' <=> Sql(i, c)
          /\ Creating(i, c)' => Creating(i, c) /\ i # j
    BY <2>1 DEF Sql, Creating, Others, Alike, Reposts
  <2>4. \A i \in Jobs \ {j} :
            /\ jobs'[i].step = jobs[i].step /\ ViewOf(i)' = ViewOf(i) /\ jobs'[i].ok = jobs[i].ok
            /\ jobs'[i].aborted <=> jobs[i].aborted
            /\ Asked(i)' <=> Asked(i)
            /\ Answered(i)' <=> Answered(i)
    BY <2>1 DEF Others, Alike, ViewOf, Reposts
  <2>5. \A x, y \in Jobs \ {j} : Prior(x, y)' <=> Prior(x, y)
    BY <2>1 DEF Reposts
  <2>6. SqlOrdered'
    <3> SUFFICES ASSUME NEW c \in Cells, NEW i \in Jobs, NEW k \in Jobs, Creating(i, c)', Sql(k, c)',
                        i # k, aborts'[c] = k
                 PROVE  Asked(k)' /\ jobs'[k].step \in {"create", "direct"} /\ Prior(i, k)'
      BY DEF SqlOrdered
    <3>1. Creating(i, c) /\ i # j /\ Sql(k, c) /\ aborts[c] = k
      BY <2>1, <2>3
    <3>2. Asked(k) /\ jobs[k].step \in {"create", "direct"} /\ Prior(i, k)
      BY <3>1 DEF Sqls, SqlOrdered
    <3>3. k # j
      BY <2>2, <3>2
    <3> QED
      BY <2>4, <2>5, <3>1, <3>2, <3>3
  <2>7. SqlCreated'
    <3> SUFFICES ASSUME NEW c \in Cells, NEW k \in Jobs, Sql(k, c)', ~jobs'[k].aborted,
                        \/ jobs'[k].step = "select"
                        \/ jobs'[k].step = "create" /\ Answered(k)' /\ jobs'[k].ok
                 PROVE  rel'[c] = ViewOf(k)'
      BY DEF SqlCreated
    <3>1. Sql(k, c) /\ ~jobs[k].aborted
      BY <2>1, <2>3, <2>4
    <3>2. CASE k = j
      <4>1. rel[c] = ViewOf(j)
        BY <2>1, <2>2, <3>1, <3>2 DEF Sqls, SqlCreated
      <4> QED
        BY <2>1, <3>2, <4>1
    <3>3. CASE k # j
      <4>1. rel[c] = ViewOf(k)
        BY <2>4, <3>1, <3>3 DEF Sqls, SqlCreated
      <4> QED
        BY <2>1, <2>4, <3>3, <4>1
    <3> QED
      BY <3>2, <3>3
  <2>8. SqlShown'
    <3> SUFFICES ASSUME NEW c \in Cells \ DOMAIN inputs, Live(c)', ~Leaving'
                 PROVE  /\ \A i \in Jobs : ~Creating(i, c)'
                        /\ shown'[c].code \notin Direct => Faithful(c)'
      BY <2>1 DEF SqlShown
    <3>1. Live(c) /\ ~Leaving
      BY <2>1, LiveSame DEF Listed, Leaving, Others, Alike
    <3>2. /\ \A i \in Jobs : ~Creating(i, c)
          /\ shown[c].code \notin Direct => Faithful(c)
      BY <3>1 DEF Sqls, SqlShown
    <3> QED
      BY <2>1, <2>3, <3>2 DEF Faithful
  <2> QED
    BY <2>6, <2>7, <2>8 DEF Sqls
<1>11. CASE Succeeds(j)
  <2>1. /\ jobs[j].kind = "sql" /\ ~jobs[j].aborted /\ Others({}, j) /\ First(j) /\ Beside(j)
        /\ UNCHANGED <<doc, inputs, rel>> /\ aborts' = Cleared(j)
        /\ jobs'[j].kind \in {"free", "lineage"} /\ jobs[j].step \in {"direct", "select"}
        /\ status' = IF IsLatest(j) THEN [status EXCEPT ![jobs[j].cell] = "success"] ELSE status
        /\ shown' = IF IsLatest(j) THEN [shown EXCEPT ![jobs[j].cell] = Result(j)] ELSE shown
    BY <1>11, BesideWhen DEF Succeeds, Takes, Reposts, Frees, Free
  <2>2. Answered(j) /\ ~Asked(j) /\ Running(j) /\ jobs[j].cell \in Cells
    BY <1>2, <2>1 DEF First, Running
  <2>3. \A i \in Jobs, c \in Cells :
          /\ Sql(i, c)' => i # j /\ Sql(i, c)
          /\ Creating(i, c)' => i # j /\ Creating(i, c)
    BY <2>1 DEF Sql, Creating, Others, Alike, Beside
  <2>4. aborts[jobs[j].cell] = j
    BY <1>1, <2>1, <2>2 DEF Tracked
  <2>5. \A i \in Jobs : i # j => ~Creating(i, jobs[j].cell)
    BY <2>1, <2>2, <2>4 DEF Sqls, SqlOrdered, Sql
  <2>6. \A i \in Jobs \ {j} :
            /\ jobs'[i].step = jobs[i].step /\ ViewOf(i)' = ViewOf(i) /\ jobs'[i].ok = jobs[i].ok
            /\ jobs'[i].aborted <=> jobs[i].aborted
            /\ Asked(i)' <=> Asked(i)
            /\ Answered(i)' <=> Answered(i)
    BY <2>1 DEF Others, Alike, ViewOf, Beside
  <2>7. SqlOrdered'
    <3> SUFFICES ASSUME NEW c \in Cells, NEW i \in Jobs, NEW k \in Jobs, Creating(i, c)', Sql(k, c)',
                        i # k, aborts'[c] = k
                 PROVE  Asked(k)' /\ jobs'[k].step \in {"create", "direct"} /\ Prior(i, k)'
      BY DEF SqlOrdered
    <3>1. Creating(i, c) /\ i # j /\ Sql(k, c) /\ k # j
      BY <2>3
    <3>2. aborts[c] = k
      BY <1>1, <2>1, <2>2, <3>1 DEF Cleared, Typed
    <3>3. Asked(k) /\ jobs[k].step \in {"create", "direct"} /\ Prior(i, k)
      BY <3>1, <3>2 DEF Sqls, SqlOrdered
    <3> QED
      BY <2>1, <2>6, <3>1, <3>3 DEF Beside
  <2>8. SqlCreated'
    <3> SUFFICES ASSUME NEW c \in Cells, NEW k \in Jobs, Sql(k, c)', ~jobs'[k].aborted,
                        \/ jobs'[k].step = "select"
                        \/ jobs'[k].step = "create" /\ Answered(k)' /\ jobs'[k].ok
                 PROVE  rel'[c] = ViewOf(k)'
      BY DEF SqlCreated
    <3>1. Sql(k, c) /\ k # j
      BY <2>3
    <3>2. rel[c] = ViewOf(k)
      BY <2>6, <3>1 DEF Sqls, SqlCreated
    <3> QED
      BY <2>1, <2>6, <3>1, <3>2
  <2>9. SqlShown'
    <3> SUFFICES ASSUME NEW c \in Cells \ DOMAIN inputs, Live(c)', ~Leaving'
                 PROVE  /\ \A i \in Jobs : ~Creating(i, c)'
                        /\ shown'[c].code \notin Direct => Faithful(c)'
      BY <2>1 DEF SqlShown
    <3>1. CASE c = jobs[j].cell /\ IsLatest(j)
      <4>1. shown'[c] = Result(j)
        BY <1>1, <2>1, <3>1 DEF Typed
      <4>2. \A i \in Jobs : ~Creating(i, c)'
        BY <2>3, <2>5, <3>1
      <4>3. ASSUME jobs[j].code \notin Direct PROVE rel[c] = ViewOf(j) /\ jobs[j].code \in Codes
        <5>1. jobs[j].step = "select" /\ jobs[j].code \in Codes
          BY <1>1, <2>1, <4>3 DEF StepsOf
        <5> QED
          BY <2>1, <3>1, <5>1 DEF Sqls, SqlCreated, Sql
      <4>4. jobs[j].code \notin Direct => Faithful(c)'
        <5>1. None \notin Codes
          BY BoundsAssumption
        <5> QED
          BY <2>1, <4>1, <4>3, <5>1 DEF Faithful, Result, ViewOf, NoRelation
      <4> QED
        BY <4>1, <4>2, <4>4 DEF Result
    <3>2. CASE ~(c = jobs[j].cell /\ IsLatest(j))
      <4>1. status'[c] = status[c] /\ shown'[c] = shown[c]
        BY <1>1, <2>1, <3>2 DEF Typed
      <4>2. Live(c) /\ ~Leaving
        BY <2>1, <4>1, LiveSame DEF Listed, Leaving, Others, Alike
      <4>3. /\ \A i \in Jobs : ~Creating(i, c)
            /\ shown[c].code \notin Direct => Faithful(c)
        BY <4>2 DEF Sqls, SqlShown
      <4> QED
        BY <2>1, <2>3, <4>1, <4>3 DEF Faithful
    <3> QED
      BY <3>1, <3>2
  <2> QED
    BY <2>7, <2>8, <2>9 DEF Sqls
<1> QED
  BY <1>4, <1>5, <1>6, <1>7, <1>8, <1>9, <1>10, <1>11 DEF JobSteps

LEMMA SqlsInitially ==
  ASSUME Init
  PROVE  Sqls
<1>1. \A i \in Jobs : jobs[i].kind = "free"
  BY DEF Init, Free
<1>2. \A i \in Jobs, c \in Cells : ~Sql(i, c) /\ ~Creating(i, c)
  BY <1>1 DEF Sql, Creating
<1>3. ASSUME NEW c \in Cells PROVE ~Live(c)
  <2>1. shown[c] = NoRows \/ shown[c].snapshot
    BY DEF Init
  <2> QED
    BY <2>1 DEF Live
<1> QED
  BY <1>2, <1>3 DEF Sqls, SqlOrdered, SqlCreated, SqlShown

-----------------------------------------------------------------------------
(* The table of a language cell that shows rows is that of the rows.       *)

Lang(j, c) == jobs[j].kind = "lang" /\ jobs[j].cell = c
TableOf(j) == [table |-> TRUE, code |-> jobs[j].code, sel |-> 0, reads |-> {}]

Registering == {"buffer", "table", "unfile", "dropView", "dropTable"}

(* How far an older run that registers its result is, ahead of the newer   *)
(* run in the queue, and behind it: five steps at least.                   *)
MayLead(s, t) ==
    \/ t = "count" /\ s \in Registering
    \/ t = "copy" /\ s \in {"table", "unfile", "dropView", "dropTable"}
    \/ t = "fetch" /\ s \in {"unfile", "dropView", "dropTable"}
    \/ t = "unlink" /\ s \in {"dropView", "dropTable"}
    \/ t = "buffer" /\ s = "dropTable"

MayTrail(s, t) ==
    \/ t = "count" /\ s \in {"table", "unfile", "dropView", "dropTable"}
    \/ t = "copy" /\ s \in {"unfile", "dropView", "dropTable"}
    \/ t = "fetch" /\ s \in {"dropView", "dropTable"}
    \/ t = "unlink" /\ s = "dropTable"

Outruns(i, j) ==
    \/ Prior(i, j) /\ MayLead(jobs[i].step, jobs[j].step)
    \/ Prior(j, i) /\ MayTrail(jobs[i].step, jobs[j].step)
    \/ jobs[i].step = "dropTable" /\ jobs[j].step = "load"

(* Both take a step a round, so the older run has unregistered its result  *)
(* before the newer one registers its own.                                 *)
LangOrdered ==
    \A c \in Cells, i, j \in Jobs :
        Lang(i, c) /\ Lang(j, c) /\ jobs[i].gen < jobs[j].gen /\ jobs[i].step \in Registering
           => Outruns(i, j)

LangCreated ==
    \A c \in Cells, j \in Jobs :
        /\ Lang(j, c) /\ ~jobs[j].aborted
        /\ \/ jobs[j].step \in {"unfile", "preview", "total"}
           \/ jobs[j].step = "table" /\ Answered(j) /\ jobs[j].ok
        => rel[c] = TableOf(j)

LangShown ==
    \A c \in DOMAIN inputs :
        Live(c) /\ ~Leaving => /\ \A i \in Jobs : Lang(i, c) => jobs[i].step \notin Registering
                               /\ Faithful(c)

Langs == LangOrdered /\ LangCreated /\ LangShown

(* A step of a job that is no language run afterwards.                     *)
LEMMA LangRunsKept ==
  ASSUME Langs, NEW S, NEW j, Others(S, j), Beside(j), UNCHANGED <<inputs, rel>>,
         jobs'[j].kind # "lang" \/ j \notin Jobs
  PROVE  /\ LangOrdered' /\ LangCreated'
         /\ \A i \in Jobs, c \in Cells :
               Lang(i, c)' => i # j /\ Lang(i, c) /\ jobs'[i].step = jobs[i].step
<1>1. \A i \in Jobs, c \in Cells :
        Lang(i, c)' => i # j /\ Lang(i, c) /\ jobs'[i].step = jobs[i].step
  BY DEF Others, Alike, Lang
<1>2. \A i \in Jobs \ {j} :
        /\ jobs'[i].step = jobs[i].step /\ TableOf(i)' = TableOf(i) /\ jobs'[i].ok = jobs[i].ok
        /\ jobs'[i].gen = jobs[i].gen
        /\ ~jobs'[i].aborted => ~jobs[i].aborted
        /\ Answered(i)' <=> Answered(i)
  BY DEF Others, Alike, TableOf, Beside
<1>3. LangOrdered'
  <2> SUFFICES ASSUME NEW c \in Cells, NEW i \in Jobs, NEW k \in Jobs, Lang(i, c)', Lang(k, c)',
                      jobs'[i].gen < jobs'[k].gen, jobs'[i].step \in Registering
               PROVE  Outruns(i, k)'
    BY DEF LangOrdered
  <2>1. i # j /\ k # j /\ Lang(i, c) /\ Lang(k, c)
    BY <1>1
  <2>2. Outruns(i, k)
    BY <1>2, <2>1 DEF Langs, LangOrdered
  <2> QED
    BY <1>2, <2>1, <2>2 DEF Outruns, Beside
<1>4. LangCreated'
  <2> SUFFICES ASSUME NEW c \in Cells, NEW k \in Jobs, Lang(k, c)', ~jobs'[k].aborted,
                      \/ jobs'[k].step \in {"unfile", "preview", "total"}
                      \/ jobs'[k].step = "table" /\ Answered(k)' /\ jobs'[k].ok
               PROVE  rel'[c] = TableOf(k)'
    BY DEF LangCreated
  <2>1. k # j /\ Lang(k, c) /\ rel[c] = TableOf(k)
    BY <1>1, <1>2 DEF Langs, LangCreated
  <2> QED
    BY <1>2, <2>1
<1> QED
  BY <1>1, <1>3, <1>4

LEMMA LangsKept ==
  ASSUME Typed, Langs, NEW S, NEW j, Others(S, j), Beside(j), UNCHANGED <<inputs, rel>>,
         jobs'[j].kind # "lang" \/ j \notin Jobs,
         \A c \in DOMAIN inputs :
            Live(c)' /\ ~Leaving' => Live(c) /\ ~Leaving /\ shown'[c] = shown[c]
  PROVE  Langs'
<1>1. /\ LangOrdered' /\ LangCreated'
      /\ \A i \in Jobs, c \in Cells :
               Lang(i, c)' => i # j /\ Lang(i, c) /\ jobs'[i].step = jobs[i].step
  BY LangRunsKept
<1>2. LangShown'
  <2> SUFFICES ASSUME NEW c \in DOMAIN inputs, Live(c)', ~Leaving'
               PROVE  /\ \A i \in Jobs : Lang(i, c)' => jobs'[i].step \notin Registering
                      /\ Faithful(c)'
    BY DEF LangShown
  <2>1. /\ \A i \in Jobs : Lang(i, c) => jobs[i].step \notin Registering
        /\ Faithful(c) /\ shown'[c] = shown[c] /\ rel'[c] = rel[c] /\ c \in Cells
    BY DEF Langs, LangShown, Typed
  <2> QED
    BY <1>1, <2>1 DEF Faithful
<1> QED
  BY <1>1, <1>2 DEF Langs

LEMMA LangsAfterUser ==
  ASSUME Basic, Controls, Langs, UserSteps
  PROVE  Langs'
<1>1. /\ Typed /\ Queues /\ (Apt => ~Leaving) /\ None \notin Jobs /\ DOMAIN inputs \subseteq Cells
  BY RecordsAre DEF Basic, Controls, Parting, Apt, Typed
<1>2. \A c \in Cells : UNCHANGED doc => (Listed(c)' => Listed(c))
  BY DEF Listed
<1>3. CASE Idle \/ Quiet
  <2>1. Stays /\ UNCHANGED <<doc, inputs, status, shown, aborts, jobs, rel>>
    BY <1>3 DEF Idle, Quiet, Still
  <2>2. Others({}, None)
    BY <2>1 DEF Others, Alike
  <2>3. \A c \in Cells : Live(c)' /\ ~Leaving' => Live(c) /\ ~Leaving /\ shown'[c] = shown[c]
    BY <1>2, <2>1, LiveSame DEF Leaving
  <2> QED
    BY <1>1, <2>1, <2>2, <2>3, BesideWhen, LangsKept
<1>4. ASSUME NEW c \in Cells, Refuses(c) \/ Gives(c) PROVE Langs'
  <2>1. /\ ~Leaving /\ Stays /\ UNCHANGED <<doc, inputs, rel>>
        /\ status' = [status EXCEPT ![c] = "error"] /\ shown' = [shown EXCEPT ![c] = NoRows]
    BY <1>1, <1>4 DEF Refuses, Gives
  <2>2. PICK S : Others(S, None)
    <3>1. CASE Refuses(c)
      <4>1. Others({}, None)
        BY <3>1 DEF Refuses, Others, Alike
      <4> QED
        BY <4>1
    <3>2. CASE Gives(c)
      BY <3>2 DEF Gives
    <3> QED
      BY <1>4, <3>1, <3>2
  <2>3. \A d \in Cells : Live(d)' => Live(d) /\ shown'[d] = shown[d]
    <3>1. \A d \in Cells : d # c => status'[d] = status[d] /\ shown'[d] = shown[d]
      BY <2>1
    <3>2. status'[c] = "error"
      BY <1>1, <2>1 DEF Typed
    <3> QED
      BY <1>2, <2>1, <3>1, <3>2, LiveSame DEF Live
  <2> QED
    BY <1>1, <2>1, <2>2, <2>3, BesideWhen, LangsKept
<1>5. ASSUME NEW S \in SUBSET Jobs, Escapes(S) PROVE Langs'
  <2>1. /\ ~Leaving /\ Stays /\ UNCHANGED <<doc, inputs, shown, aborts, rel>> /\ Others(S, None)
        /\ status' = Silenced(S)
    BY <1>1, <1>5 DEF Escapes
  <2>2. \A d \in Cells : status'[d] = "success" => status[d] = "success"
    BY <2>1 DEF Silenced
  <2>3. \A d \in Cells : Live(d)' => Live(d) /\ shown'[d] = shown[d]
    BY <1>2, <2>1, <2>2, LiveSame
  <2> QED
    BY <1>1, <2>1, <2>3, BesideWhen, LangsKept
<1>6. ASSUME NEW c \in Cells, NEW j \in Jobs, Deletes(c, j) PROVE Langs'
  <2>1. /\ ~Leaving /\ Posts(j) /\ UNCHANGED <<inputs, status, shown, rel>>
        /\ Others(Controllers(c), j) /\ jobs'[j].kind = "drop" /\ Range(doc') = Range(doc) \ {c}
    BY <1>1, <1>6 DEF Deletes
  <2>2. \A d \in Cells : Listed(d)' => Listed(d)
    BY <2>1 DEF Listed
  <2>3. \A d \in Cells : Live(d)' => Live(d) /\ shown'[d] = shown[d]
    BY <2>1, <2>2, LiveSame
  <2> QED
    BY <1>1, <2>1, <2>3, BesideWhen, LangsKept
<1>7. ASSUME NEW j \in Jobs, Leaves(j) PROVE Langs'
  <2>1. Posts(j) /\ UNCHANGED <<inputs, rel>> /\ jobs'[j].kind = "leave"
    BY <1>7 DEF Leaves
  <2>2. Others(UNION {Controllers(c) : c \in Cells}, j)
    BY <1>7 DEF Leaves
  <2>3. Leaving'
    BY <2>1 DEF Leaving
  <2> QED
    BY <1>1, <2>1, <2>2, <2>3, BesideWhen, LangsKept
<1>8. ASSUME NEW c \in Cells, NEW j \in Jobs, Starts(c, j) PROVE Langs'
  <2>1. /\ ~Leaving /\ Posts(j) /\ UNCHANGED <<doc, inputs, shown, rel>>
        /\ Others(Controllers(c), j) /\ jobs'[j].cell = c
        /\ jobs'[j].kind = IF c \in DOMAIN inputs THEN "lang" ELSE "sql"
        /\ c \in DOMAIN inputs => jobs'[j].step = "count"
        /\ status' = [status EXCEPT ![c] = "running"]
    BY <1>1, <1>8 DEF Starts
  <2>3. status'[c] = "running" /\ \A d \in Cells : d # c => status'[d] = status[d]
    BY <1>1, <2>1 DEF Typed
  <2>4. \A d \in Cells : Live(d)' => d # c /\ Live(d) /\ shown'[d] = shown[d]
    BY <1>2, <2>1, <2>3, LiveSame DEF Live
  <2>5. CASE c \notin DOMAIN inputs
    BY <1>1, <2>1, <2>4, <2>5, BesideWhen, LangsKept
  <2>6. CASE c \in DOMAIN inputs
    <3>1. \A i \in Jobs \ {j}, d \in Cells : Lang(i, d)' <=> Lang(i, d)
      BY <2>1 DEF Others, Alike, Lang
    <3>2. \A i \in Jobs \ {j} :
            /\ jobs'[i].step = jobs[i].step /\ TableOf(i)' = TableOf(i) /\ jobs'[i].ok = jobs[i].ok
            /\ jobs'[i].gen = jobs[i].gen
            /\ ~jobs'[i].aborted => ~jobs[i].aborted
            /\ Answered(i)' <=> Answered(i)
      BY <2>1 DEF Others, Alike, TableOf, Posts
    <3>3. \A i \in Jobs \ {j} : Asked(i) \/ Answered(i) => Prior(i, j)'
      BY <2>1 DEF Posts
    <3>4. \A x, y \in Jobs \ {j} : Prior(x, y)' <=> Prior(x, y)
      BY <2>1 DEF Posts
    <3>5. LangOrdered'
      <4> SUFFICES ASSUME NEW d \in Cells, NEW i \in Jobs, NEW k \in Jobs, Lang(i, d)', Lang(k, d)',
                          jobs'[i].gen < jobs'[k].gen, jobs'[i].step \in Registering
                   PROVE  Outruns(i, k)'
        BY DEF LangOrdered
      <4>0. i # j
        BY <2>1, <2>6 DEF Registering
      <4>1. CASE k = j
        <5>1. jobs[i].kind = "lang" /\ jobs[i].step \in Registering
          BY <3>1, <3>2, <4>0 DEF Lang
        <5>2. Prior(i, j)'
          BY <1>1, <3>3, <4>0, <5>1 DEF Queues, Registering
        <5> QED
          BY <2>1, <2>6, <4>1, <5>2 DEF Outruns, MayLead
      <4>2. CASE k # j
        <5>1. Outruns(i, k)
          BY <3>1, <3>2, <4>0, <4>2 DEF Langs, LangOrdered
        <5> QED
          BY <3>2, <3>4, <4>0, <4>2, <5>1 DEF Outruns
      <4> QED
        BY <4>1, <4>2
    <3>6. LangCreated'
      <4> SUFFICES ASSUME NEW d \in Cells, NEW k \in Jobs, Lang(k, d)', ~jobs'[k].aborted,
                          \/ jobs'[k].step \in {"unfile", "preview", "total"}
                          \/ jobs'[k].step = "table" /\ Answered(k)' /\ jobs'[k].ok
                   PROVE  rel'[d] = TableOf(k)'
        BY DEF LangCreated
      <4>1. k # j
        BY <2>1, <2>6
      <4>2. rel[d] = TableOf(k)
        BY <3>1, <3>2, <4>1 DEF Langs, LangCreated
      <4> QED
        BY <2>1, <3>2, <4>1, <4>2
    <3>7. LangShown'
      <4> SUFFICES ASSUME NEW d \in DOMAIN inputs, Live(d)', ~Leaving'
                   PROVE  /\ \A i \in Jobs : Lang(i, d)' => jobs'[i].step \notin Registering
                          /\ Faithful(d)'
        BY <2>1 DEF LangShown
      <4>1. /\ \A i \in Jobs : Lang(i, d) => jobs[i].step \notin Registering
            /\ Faithful(d) /\ d \in Cells
            /\ shown'[d] = shown[d] /\ rel'[d] = rel[d] /\ d # c
        BY <1>1, <2>1, <2>4 DEF Langs, LangShown
      <4>2. ~Lang(j, d)'
        BY <2>1, <4>1 DEF Lang
      <4> QED
        BY <3>1, <3>2, <4>1, <4>2 DEF Faithful
    <3> QED
      BY <3>5, <3>6, <3>7 DEF Langs
  <2> QED
    BY <2>5, <2>6
<1> QED
  BY <1>3, <1>4, <1>5, <1>6, <1>7, <1>8 DEF UserSteps

LEMMA LangsRan ==
  ASSUME Basic, Controls, Langs, NEW j \in Jobs, Ran(j)
  PROVE  Langs'
<1>1. /\ Executes(j) /\ Others({}, j)
      /\ UNCHANGED <<doc, inputs, status, shown, gen, aborts>>
      /\ jobs[j].cell \in Cells /\ (Leaving' <=> Leaving)
      /\ jobs'[j].kind = jobs[j].kind /\ jobs'[j].cell = jobs[j].cell
      /\ jobs'[j].step = jobs[j].step /\ jobs'[j].aborted = jobs[j].aborted
      /\ jobs'[j].code = jobs[j].code /\ jobs'[j].gen = jobs[j].gen
      /\ \A c \in Cells : c # jobs[j].cell => rel'[c] = rel[c]
      /\ jobs[j].kind = "lang" /\ jobs[j].step = "table" /\ jobs'[j].ok
               => rel'[jobs[j].cell] = [table |-> TRUE, code |-> jobs[j].code, sel |-> 0, reads |-> {}]
      /\ \/ rel'[jobs[j].cell] = rel[jobs[j].cell]
         \/ jobs[j].kind = "sql" /\ jobs[j].step = "create"
         \/ jobs[j].kind = "lang" /\ jobs[j].step \in {"table", "dropView", "dropTable"}
         \/ jobs[j].kind \in {"drop", "leave"}
  BY EffectIs
<1>2. /\ \A i \in Jobs : Answered(i)' <=> Answered(i) \/ i = j
      /\ \A x, y \in Jobs : Prior(x, y)' <=> Prior(x, y)
      /\ DOMAIN inputs \subseteq Cells
  BY <1>1 DEF Executes, Basic, Typed
<1>3. \A i \in Jobs, c \in Cells : Lang(i, c)' <=> Lang(i, c)
  BY <1>1 DEF Others, Alike, Lang
<1>4. /\ \A i \in Jobs : /\ jobs'[i].step = jobs[i].step /\ TableOf(i)' = TableOf(i)
                         /\ jobs'[i].gen = jobs[i].gen /\ (jobs'[i].aborted <=> jobs[i].aborted)
      /\ \A i \in Jobs \ {j} : jobs'[i].ok = jobs[i].ok
  BY <1>1 DEF Others, Alike, TableOf
<1>5. \A i \in Jobs : jobs[i].kind = "lang" => jobs[i].cell \in DOMAIN inputs
  BY DEF Basic, Stepped, StepsOf
<1>6. jobs[j].kind = "sql" => jobs[j].cell \notin DOMAIN inputs
  BY DEF Basic, Stepped, StepsOf
<1>7. LangOrdered'
  <2> SUFFICES ASSUME NEW c \in Cells, NEW i \in Jobs, NEW k \in Jobs, Lang(i, c)', Lang(k, c)',
                      jobs'[i].gen < jobs'[k].gen, jobs'[i].step \in Registering
               PROVE  Outruns(i, k)'
    BY DEF LangOrdered
  <2>1. Outruns(i, k)
    BY <1>3, <1>4 DEF Langs, LangOrdered
  <2> QED
    BY <1>2, <1>4, <2>1 DEF Outruns
<1>8. LangCreated'
  <2> SUFFICES ASSUME NEW c \in Cells, NEW k \in Jobs, Lang(k, c)', ~jobs'[k].aborted,
                      \/ jobs'[k].step \in {"unfile", "preview", "total"}
                      \/ jobs'[k].step = "table" /\ Answered(k)' /\ jobs'[k].ok
               PROVE  rel'[c] = TableOf(k)'
    BY DEF LangCreated
  <2>1. Lang(k, c) /\ c \in DOMAIN inputs /\ jobs[k].cell = c /\ jobs[k].kind = "lang"
        /\ ~jobs[k].aborted /\ jobs[k].step \in {"unfile", "preview", "total", "table"}
    BY <1>3, <1>4, <1>5 DEF Lang
  <2>2. CASE k = j /\ jobs[j].step = "table"
    BY <1>1, <1>4, <2>1, <2>2 DEF TableOf
  <2>3. CASE k = j /\ jobs[j].step # "table"
    <3>1. rel'[c] = rel[c]
      BY <1>1, <2>1, <2>3
    <3>2. rel[c] = TableOf(j)
      BY <2>1, <2>3 DEF Langs, LangCreated
    <3> QED
      BY <1>4, <2>3, <3>1, <3>2
  <2>4. CASE k # j
    <3>1. rel[c] = TableOf(k)
      BY <1>2, <1>4, <2>1, <2>4 DEF Langs, LangCreated
    <3>2. aborts[c] = k
      BY <2>1 DEF Controls, Tracked, Running
    <3>3. rel'[c] = rel[c]
      <4>1. CASE jobs[j].cell = c
        <5>1. jobs[j].kind \notin {"drop", "leave"}
          BY <3>2, <4>1, KeepsOut, RecordsAre
        <5>2. ~(jobs[j].kind = "lang" /\ jobs[j].step \in {"table", "dropView", "dropTable"})
          <6> SUFFICES ASSUME jobs[j].kind = "lang", jobs[j].step \in {"table", "dropView", "dropTable"}
                       PROVE  FALSE
            OBVIOUS
          <6>1. Running(j) /\ Running(k) /\ IsLatest(k)
            BY <2>1, <3>2, RecordsAre DEF Running, Controls, Registered
          <6>2. jobs[j].gen < jobs[k].gen
            <7>1. /\ jobs[j].gen <= gen[c] /\ jobs[k].gen = gen[c] /\ jobs[j].gen # jobs[k].gen
              BY <2>1, <2>4, <4>1, <6>1 DEF Controls, Numbered, IsLatest
            <7>2. jobs[j].gen \in Nat /\ gen[c] \in Nat
              BY RunningCell
            <7> QED
              BY <7>1, <7>2
          <6>3. Outruns(j, k)
            BY <2>1, <4>1, <6>2 DEF Langs, LangOrdered, Lang, Registering
          <6> QED
            BY <2>1, <6>3 DEF Outruns, MayLead, MayTrail
        <5> QED
          BY <1>1, <1>6, <2>1, <4>1, <5>1, <5>2
      <4> QED
        BY <1>1, <4>1
    <3> QED
      BY <1>4, <2>4, <3>1, <3>3
  <2> QED
    BY <2>2, <2>3, <2>4
<1>9. LangShown'
  <2> SUFFICES ASSUME NEW c \in DOMAIN inputs, Live(c)', ~Leaving'
               PROVE  /\ \A i \in Jobs : Lang(i, c)' => jobs'[i].step \notin Registering
                      /\ Faithful(c)'
    BY <1>1 DEF LangShown
  <2>1. Live(c) /\ ~Leaving /\ c \in Cells
    BY <1>1, <1>2, LiveSame DEF Listed
  <2>2. /\ \A i \in Jobs : Lang(i, c) => jobs[i].step \notin Registering
        /\ Faithful(c)
    BY <2>1 DEF Langs, LangShown
  <2>3. rel'[c] = rel[c]
    <3>1. CASE jobs[j].cell = c
      <4>1. jobs[j].kind \notin {"drop", "leave"}
        BY <2>1, <3>1, KeepsOut
      <4> QED
        BY <1>1, <1>6, <2>1, <2>2, <3>1, <4>1 DEF Lang, Registering
    <3> QED
      BY <1>1, <2>1, <3>1
  <2> QED
    BY <1>1, <1>3, <1>4, <2>1, <2>2, <2>3 DEF Faithful
<1> QED
  BY <1>7, <1>8, <1>9 DEF Langs

(* The statement s comes after the one of record r.                        *)
Comes(r, s) ==
    /\ r.step \in {"count", "copy", "fetch", "buffer", "table", "unfile", "preview", "dropView"}
    /\ r.step = "count" => s = "copy"
    /\ r.step = "copy" => s = "fetch"
    /\ r.step = "fetch" => s = "unlink"
    /\ r.step = "buffer" => s = "table"
    /\ r.step = "table" => s = "unfile" /\ r.ok
    /\ r.step = "unfile" => s \in {"dropView", "preview"}
    /\ r.step = "dropView" => s = "dropTable"
    /\ r.step = "preview" => s = "total"

LEMMA ComesNext ==
  ASSUME NEW j, NEW s, Follows(j, s)
  PROVE  Comes(jobs[j], s)
<1>1. /\ After.count = "copy" /\ After.copy = "fetch" /\ After.fetch = "unlink"
      /\ After.buffer = "table" /\ After.table = "unfile" /\ After.unfile = "preview"
      /\ After.preview = "total"
  BY DEF After
<1>2. /\ After["count"] = "copy" /\ After["copy"] = "fetch" /\ After["fetch"] = "unlink"
      /\ After["buffer"] = "table" /\ After["table"] = "unfile" /\ After["unfile"] = "preview"
      /\ After["preview"] = "total"
  BY <1>1
<1> QED
  BY <1>2 DEF Follows, Comes

(* A language run that asks for its next statement.                        *)
LEMMA LangsAdvance ==
  ASSUME Basic, Controls, Langs, NEW j \in Jobs,
         Loads(j) \/ Buffers(j) \/ \E s \in LangSteps : Follows(j, s)
  PROVE  Langs'
<1>1. /\ Typed /\ Queues /\ Tracked /\ Registered /\ Numbered /\ Undecided /\ None \notin Jobs
      /\ DOMAIN inputs \subseteq Cells
  BY RecordsAre DEF Basic, Controls, Typed
<1>2. /\ Others({}, j) /\ UNCHANGED <<doc, inputs, status, shown, rel>>
      /\ jobs[j].kind = "lang" /\ jobs'[j].kind = "lang" /\ jobs'[j].cell = jobs[j].cell
      /\ jobs'[j].gen = jobs[j].gen /\ jobs'[j].aborted = jobs[j].aborted
      /\ TableOf(j)' = TableOf(j)
  BY DEF Loads, Buffers, Follows, Advances, TableOf
<1>3. Beside(j) /\ (Leaving' <=> Leaving)
  BY <1>2, BesideWhen DEF Loads, Buffers, Follows, Leaving, Others, Alike
<1>4. \A i \in Jobs, c \in Cells : Lang(i, c)' <=> Lang(i, c)
  BY <1>2 DEF Lang, Others, Alike
<1>5. \A i \in Jobs \ {j} :
          /\ jobs'[i].step = jobs[i].step /\ TableOf(i)' = TableOf(i) /\ jobs'[i].ok = jobs[i].ok
          /\ jobs'[i].gen = jobs[i].gen
          /\ jobs'[i].aborted <=> jobs[i].aborted
          /\ Answered(i)' <=> Answered(i)
  BY <1>2, <1>3 DEF Others, Alike, TableOf, Beside
<1>6. /\ ~jobs[j].aborted => aborts[jobs[j].cell] = j /\ IsLatest(j)
      /\ jobs[j].cell \in Cells /\ Running(j)
  BY <1>1, <1>2, RunningCell DEF Tracked, Registered, Running
<1>7. \A i \in Jobs : jobs[i].kind = "lang" /\ jobs[i].step \in Registering => Asked(i) \/ Answered(i)
  BY <1>1 DEF Queues, Registering
<1>8. /\ Loads(j) => Takes(j) /\ jobs'[j].step = "load" /\ jobs[j].step = "unlink"
      /\ Buffers(j) => Posts(j) /\ jobs'[j].step = "buffer" /\ jobs[j].step = "load" /\ ~jobs[j].aborted
      /\ \A s \in LangSteps : Follows(j, s) => Comes(jobs[j], s) /\ Reposts(j) /\ jobs'[j].step = s
  BY ComesNext DEF Loads, Buffers, Follows, Advances
<1>9. ASSUME NEW c \in Cells, NEW k \in Jobs, Lang(j, c), Lang(k, c), jobs[j].gen < jobs[k].gen,
             jobs'[j].step \in Registering, k # j
      PROVE  Outruns(j, k)'
  <2>1. ~Buffers(j)
    <3> SUFFICES ASSUME Buffers(j) PROVE FALSE
      OBVIOUS
    <3>1. jobs[j].gen = gen[c] /\ jobs[k].gen <= gen[c]
      BY <1>1, <1>6, <1>8, <1>9 DEF Lang, IsLatest, Numbered, Running
    <3>2. jobs[j].gen \in Nat /\ jobs[k].gen \in Nat
      BY RunningCell
    <3> QED
      BY <1>9, <3>1, <3>2
  <2>2. PICK s \in LangSteps : Follows(j, s)
    BY <1>8, <1>9, <2>1 DEF Registering
  <2>3. /\ Reposts(j) /\ First(j) /\ jobs'[j].step = s /\ s \in Registering
        /\ jobs[j].step \in {"buffer", "table", "unfile", "dropView"}
    BY <1>8, <1>9, <2>2 DEF Reposts, Comes, Registering
  <2>4. Outruns(j, k)
    BY <1>9, <2>3 DEF Langs, LangOrdered, Registering
  <2>5. Prior(j, k) /\ MayLead(jobs[j].step, jobs[k].step)
    BY <2>3, <2>4 DEF Outruns, First
  <2>6. MayTrail(s, jobs[k].step) /\ jobs[k].step # "load"
    BY <1>8, <2>2, <2>3, <2>5 DEF MayLead, MayTrail, Registering, Comes
  <2>7. Asked(k) \/ Answered(k)
    BY <1>1, <1>9, <2>6 DEF Queues, Lang
  <2>8. Prior(k, j)'
    BY <1>9, <2>3, <2>7 DEF Reposts
  <2> QED
    BY <1>5, <1>9, <2>3, <2>6, <2>8 DEF Outruns
<1>10. ASSUME NEW c \in Cells, NEW i \in Jobs, Lang(j, c), Lang(i, c), jobs[i].gen < jobs[j].gen,
              jobs[i].step \in Registering, i # j
       PROVE  Outruns(i, j)'
  <2>1. Outruns(i, j) /\ (Asked(i) \/ Answered(i))
    BY <1>7, <1>10 DEF Langs, LangOrdered, Lang
  <2>2. CASE Loads(j)
    <3>1. First(j) /\ jobs[j].step = "unlink" /\ jobs'[j].step = "load"
      BY <1>8, <2>2 DEF Takes
    <3>2. jobs[i].step = "dropTable"
      BY <2>1, <3>1 DEF Outruns, First, MayTrail
    <3> QED
      BY <1>5, <1>10, <3>1, <3>2 DEF Outruns
  <2>3. CASE Buffers(j)
    <3>1. Posts(j) /\ jobs[j].step = "load" /\ jobs'[j].step = "buffer"
      BY <1>8, <2>3
    <3>2. jobs[i].step = "dropTable"
      BY <2>1, <3>1 DEF Outruns, MayLead, MayTrail
    <3>3. Prior(i, j)'
      BY <2>1, <3>1 DEF Posts
    <3> QED
      BY <1>5, <1>10, <3>1, <3>2, <3>3 DEF Outruns, MayLead
  <2>4. ASSUME NEW s \in LangSteps, Follows(j, s) PROVE Outruns(i, j)'
    <3>1. Reposts(j) /\ First(j) /\ jobs'[j].step = s
      BY <1>8, <2>4 DEF Reposts
    <3>2. MayTrail(jobs[i].step, jobs[j].step)
      BY <1>8, <2>1, <2>4, <3>1 DEF Outruns, First, Comes
    <3>3. MayLead(jobs[i].step, s)
      BY <1>8, <2>4, <3>2 DEF MayLead, MayTrail, Comes
    <3>4. Prior(i, j)'
      BY <1>10, <2>1, <3>1 DEF Reposts
    <3> QED
      BY <1>5, <1>10, <3>1, <3>3, <3>4 DEF Outruns
  <2> QED
    BY <2>2, <2>3, <2>4
<1>11. LangOrdered'
  <2> SUFFICES ASSUME NEW c \in Cells, NEW i \in Jobs, NEW k \in Jobs, Lang(i, c)', Lang(k, c)',
                      jobs'[i].gen < jobs'[k].gen, jobs'[i].step \in Registering
               PROVE  Outruns(i, k)'
    BY DEF LangOrdered
  <2>1. Lang(i, c) /\ Lang(k, c) /\ jobs[i].gen < jobs[k].gen
    BY <1>2, <1>4, <1>5
  <2>2. i # k
    <3>1. jobs[i].gen \in Nat
      BY RunningCell
    <3> QED
      BY <2>1, <3>1
  <2>3. CASE i # j /\ k # j
    <3>1. Outruns(i, k)
      BY <1>5, <2>1, <2>3 DEF Langs, LangOrdered
    <3> QED
      BY <1>3, <1>5, <2>3, <3>1 DEF Outruns, Beside
  <2>4. CASE i = j
    BY <1>9, <2>1, <2>2, <2>4
  <2>5. CASE k = j
    BY <1>5, <1>10, <2>1, <2>2, <2>5
  <2> QED
    BY <2>3, <2>4, <2>5
<1>12. LangCreated'
  <2> SUFFICES ASSUME NEW c \in Cells, NEW k \in Jobs, Lang(k, c)', ~jobs'[k].aborted,
                      \/ jobs'[k].step \in {"unfile", "preview", "total"}
                      \/ jobs'[k].step = "table" /\ Answered(k)' /\ jobs'[k].ok
               PROVE  rel'[c] = TableOf(k)'
    BY DEF LangCreated
  <2>1. Lang(k, c) /\ ~jobs[k].aborted
    BY <1>2, <1>4, <1>5
  <2>2. CASE k # j
    <3>1. rel[c] = TableOf(k)
      BY <1>5, <2>1, <2>2 DEF Langs, LangCreated
    <3> QED
      BY <1>2, <1>5, <2>2, <3>1
  <2>3. CASE k = j
    <3>1. PICK s \in LangSteps : Follows(j, s)
      BY <1>8, <2>3
    <3>2. Reposts(j) /\ First(j) /\ jobs'[j].step = s /\ s # "table"
      <4>1. ~Answered(j)'
        BY <1>8, <3>1 DEF Reposts
      <4> QED
        BY <1>8, <2>3, <3>1, <4>1 DEF Reposts
    <3>3. \/ jobs[j].step = "table" /\ jobs[j].ok /\ Answered(j)
          \/ jobs[j].step \in {"unfile", "preview"}
      BY <1>8, <2>3, <3>1, <3>2 DEF First, Comes
    <3>4. rel[c] = TableOf(j)
      BY <2>1, <2>3, <3>3 DEF Langs, LangCreated
    <3> QED
      BY <1>2, <2>3, <3>4
  <2> QED
    BY <2>2, <2>3
<1>13. LangShown'
  <2> SUFFICES ASSUME NEW c \in DOMAIN inputs, Live(c)', ~Leaving'
               PROVE  /\ \A i \in Jobs : Lang(i, c)' => jobs'[i].step \notin Registering
                      /\ Faithful(c)'
    BY <1>2 DEF LangShown
  <2>1. Live(c) /\ ~Leaving /\ c \in Cells
    BY <1>1, <1>2, <1>3, LiveSame DEF Listed
  <2>2. /\ \A i \in Jobs : Lang(i, c) => jobs[i].step \notin Registering
        /\ Faithful(c)
    BY <2>1 DEF Langs, LangShown
  <2>3. ASSUME NEW i \in Jobs, Lang(i, c)' PROVE jobs'[i].step \notin Registering
    <3>1. Lang(i, c) /\ jobs[i].step \notin Registering
      BY <1>4, <2>1, <2>2, <2>3
    <3>2. CASE i = j
      <4>1. ~Buffers(j)
        BY <1>1, <1>6, <1>8, <2>1, <3>1, <3>2 DEF Undecided, Live, Lang
      <4> QED
        BY <1>8, <3>1, <3>2, <4>1 DEF Registering, Comes
    <3>3. CASE i # j
      BY <1>5, <3>1, <3>3
    <3> QED
      BY <3>2, <3>3
  <2> QED
    BY <1>2, <2>2, <2>3 DEF Faithful
<1> QED
  BY <1>11, <1>12, <1>13 DEF Langs

(* A language run that is over.                                            *)
LEMMA LangsFinish ==
  ASSUME Basic, Controls, Langs, NEW j \in Jobs, NEW o \in {"success", "error"}, Finishes(j, o)
  PROVE  Langs'
<1>1. /\ Typed /\ Numbered /\ Tracked /\ StepsOf(jobs[j]) /\ None \notin Jobs
      /\ DOMAIN inputs \subseteq Cells
  BY RecordsAre DEF Basic, Controls, Typed, Stepped
<1>2. /\ Others({}, j) /\ UNCHANGED <<doc, inputs, gen, rel>> /\ jobs'[j].kind = "free"
      /\ jobs[j].kind = "lang" /\ jobs[j].cell \in DOMAIN inputs /\ jobs[j].sel = 0
      /\ jobs[j].code \in Codes
  BY <1>1 DEF Finishes, Frees, Free, StepsOf
<1>3. Beside(j) /\ (Leaving' <=> Leaving)
  BY <1>2, BesideWhen DEF Finishes, Leaving, Others, Alike
<1>4. /\ LangOrdered' /\ LangCreated'
      /\ \A i \in Jobs, c \in Cells :
               Lang(i, c)' => i # j /\ Lang(i, c) /\ jobs'[i].step = jobs[i].step
  BY <1>2, <1>3, LangRunsKept
<1>5. LangShown'
  <2> SUFFICES ASSUME NEW c \in DOMAIN inputs, Live(c)', ~Leaving'
               PROVE  /\ \A i \in Jobs : Lang(i, c)' => jobs'[i].step \notin Registering
                      /\ Faithful(c)'
    BY <1>2 DEF LangShown
  <2>1. CASE c = jobs[j].cell /\ IsLatest(j) /\ ~jobs[j].aborted
    <3>1. status'[c] = o /\ (o = "success" => shown'[c] = Result(j))
      BY <1>1, <2>1 DEF Finishes, Typed
    <3>2. o = "success" /\ shown'[c] = Result(j) /\ jobs[j].step = "total"
      BY <2>1, <3>1 DEF Live, Finishes
    <3>3. rel[c] = TableOf(j)
      BY <1>1, <1>2, <2>1, <3>2 DEF Langs, LangCreated, Lang
    <3>4. Faithful(c)'
      <4>1. None \notin Codes
        BY BoundsAssumption
      <4> QED
        BY <1>2, <3>2, <3>3, <4>1 DEF Faithful, Result, TableOf, NoRelation
    <3>5. ASSUME NEW i \in Jobs, Lang(i, c)', jobs'[i].step \in Registering PROVE FALSE
      <4>1. i # j /\ Lang(i, c) /\ jobs[i].step \in Registering /\ c \in Cells
        BY <1>1, <1>4, <3>5
      <4>2. jobs[i].gen < jobs[j].gen
        <5>1. /\ jobs[i].gen <= gen[c] /\ jobs[j].gen = gen[c] /\ jobs[i].gen # jobs[j].gen
          BY <1>1, <1>2, <2>1, <4>1 DEF Numbered, IsLatest, Lang, Running
        <5>2. jobs[i].gen \in Nat /\ jobs[j].gen \in Nat
          BY RunningCell
        <5> QED
          BY <5>1, <5>2
      <4>3. Outruns(i, j)
        BY <1>2, <2>1, <4>1, <4>2 DEF Langs, LangOrdered, Lang
      <4> QED
        BY <3>2, <4>3 DEF Outruns, MayLead, MayTrail
    <3> QED
      BY <3>4, <3>5
  <2>2. CASE ~(c = jobs[j].cell /\ IsLatest(j) /\ ~jobs[j].aborted)
    <3>1. status'[c] = status[c] /\ shown'[c] = shown[c]
      BY <1>1, <2>2 DEF Finishes, Typed
    <3>2. Live(c) /\ ~Leaving
      BY <1>2, <1>3, <3>1, LiveSame DEF Listed
    <3>3. /\ \A i \in Jobs : Lang(i, c) => jobs[i].step \notin Registering
          /\ Faithful(c) /\ c \in Cells
      BY <1>1, <3>2 DEF Langs, LangShown
    <3> QED
      BY <1>2, <1>4, <3>1, <3>3 DEF Faithful
  <2> QED
    BY <2>1, <2>2
<1> QED
  BY <1>4, <1>5 DEF Langs

LEMMA LangsAfterJob ==
  ASSUME Basic, Controls, Langs, NEW j \in Jobs, JobSteps(j)
  PROVE  Langs'
<1>1. Typed /\ StepsOf(jobs[j]) /\ DOMAIN inputs \subseteq Cells
  BY DEF Basic, Stepped, Typed
<1>2. ASSUME Others({}, j), UNCHANGED <<inputs, rel, doc>>, Beside(j), jobs'[j].kind # "lang",
             Leaving => Leaving',
             \A c \in DOMAIN inputs : status'[c] = status[c] /\ shown'[c] = shown[c]
      PROVE  Langs'
  <2>1. \A c \in DOMAIN inputs : Live(c)' /\ ~Leaving' => Live(c) /\ ~Leaving /\ shown'[c] = shown[c]
    BY <1>2, LiveSame DEF Listed
  <2> QED
    BY <1>1, <1>2, <2>1, LangsKept
<1>3. CASE Ran(j)
  BY <1>3, LangsRan
<1>4. CASE Loads(j) \/ Buffers(j) \/ \E s \in LangSteps : Follows(j, s)
  BY <1>4, LangsAdvance
<1>5. CASE \E o \in {"success", "error"} : Finishes(j, o)
  BY <1>5, LangsFinish
<1>6. CASE Selects(j) \/ Drops(j) \/ Asks(j)
  <2>1. /\ Others({}, j) /\ UNCHANGED <<inputs, rel, doc, status, shown>> /\ Beside(j)
        /\ jobs'[j].kind = jobs[j].kind /\ jobs[j].kind # "lang"
    BY <1>6, BesideWhen DEF Selects, Drops, Asks, Advances
  <2>2. Leaving => Leaving'
    BY <2>1 DEF Leaving, Others, Alike
  <2> QED
    BY <1>2, <2>1, <2>2
<1>7. CASE Proceeds(j)
  <2>1. /\ Others({}, j) /\ UNCHANGED <<inputs, rel, doc, status, shown>> /\ Beside(j)
        /\ jobs'[j].kind = "leave"
    BY <1>7, BesideWhen DEF Proceeds
  <2>2. Leaving'
    BY <2>1 DEF Leaving
  <2> QED
    BY <1>2, <2>1, <2>2
<1>8. CASE Dropped(j) \/ Recorded(j)
  <2>1. /\ Others({}, j) /\ UNCHANGED <<inputs, rel, doc, status, shown>> /\ Beside(j)
        /\ jobs'[j].kind = "free" /\ jobs[j].kind # "leave"
    BY <1>8, BesideWhen DEF Dropped, Recorded, Frees, Free
  <2>2. Leaving => Leaving'
    BY <2>1 DEF Leaving, Others, Alike
  <2> QED
    BY <1>2, <2>1, <2>2
<1>9. CASE Departs(j)
  <2>1. /\ Others({}, j) /\ UNCHANGED <<inputs, rel>> /\ doc' = <<>> /\ Beside(j)
        /\ jobs'[j].kind = "free"
    BY <1>9, BesideWhen DEF Departs, Frees, Free
  <2>2. \A c \in DOMAIN inputs : ~Live(c)'
    BY <2>1 DEF Live, Listed, Range
  <2> QED
    BY <1>1, <2>1, <2>2, LangsKept
<1>10. CASE Fails(j) \/ Succeeds(j)
  <2>1. /\ Others({}, j) /\ UNCHANGED <<inputs, rel, doc>> /\ Beside(j)
        /\ jobs'[j].kind \in {"free", "lineage"} /\ jobs[j].kind = "sql"
    BY <1>10, BesideWhen DEF Fails, Succeeds, Frees, Free, Takes, Reposts
  <2>2. Leaving => Leaving'
    BY <2>1 DEF Leaving, Others, Alike
  <2>3. jobs[j].cell \notin DOMAIN inputs
    BY <1>1, <2>1 DEF StepsOf
  <2>4. \A c \in DOMAIN inputs : status'[c] = status[c] /\ shown'[c] = shown[c]
    BY <1>1, <1>10, <2>3 DEF Fails, Succeeds, Typed
  <2> QED
    BY <1>2, <2>1, <2>2, <2>4
<1> QED
  BY <1>3, <1>4, <1>5, <1>6, <1>7, <1>8, <1>9, <1>10 DEF JobSteps

LEMMA LangsInitially ==
  ASSUME Init
  PROVE  Langs
<1>1. \A i \in Jobs : jobs[i].kind = "free"
  BY DEF Init, Free
<1>2. \A i \in Jobs : \A c : ~Lang(i, c)
  BY <1>1 DEF Lang
<1>3. ASSUME NEW c \in DOMAIN inputs PROVE ~Live(c)
  <2>1. c \in Cells
    BY BasicInitially DEF Basic, Typed
  <2>2. shown[c] = NoRows \/ shown[c].snapshot
    BY <2>1 DEF Init
  <2> QED
    BY <2>2 DEF Live
<1> QED
  BY <1>2, <1>3 DEF Langs, LangOrdered, LangCreated, LangShown

LEMMA RelationThen ==
  ASSUME Basic, Sqls, Langs
  PROVE  RelationOfRows
<1> SUFFICES ASSUME NEW c \in Cells, Live(c), ~Leaving, shown[c].code \notin Direct
             PROVE  Faithful(c)
  BY DEF RelationOfRows, Faithful
<1> QED
  BY DEF Sqls, SqlShown, Langs, LangShown

(* When a cell shows rows of its own and nothing is under way for it, its  *)
(* relation is that of the run behind the rows, whatever was rerun,        *)
(* superseded, cancelled or rejected in between (runCell, runPythonCell,   *)
(* runRCell).                                                              *)
THEOREM RelationOfRowsAlways == Spec => []RelationOfRows
<1> DEFINE Inv == Basic /\ Controls /\ Sqls /\ Langs
<1>1. Init => Inv
  BY BasicInitially, ControlsInitially, SqlsInitially, LangsInitially
<1>2. Inv /\ [Next]_vars => Inv'
  BY StepsKeep, SqlsAfterUser, SqlsAfterJob, LangsAfterUser, LangsAfterJob
<1>3. Inv => RelationOfRows
  BY RelationThen
<1> QED
  BY <1>1, <1>2, <1>3, PTL DEF Spec

-----------------------------------------------------------------------------
(* The lineage that is recorded beside the rows.                           *)

Recording(l, c) == jobs[l].kind = "lineage" /\ jobs[l].cell = c
Querying(j, c) == Sql(j, c) /\ ~jobs[j].aborted
Noted(c) == lineage[c] \cap Range(doc) = Names(shown[c].code) \cap Range(doc)

(* A query that succeeds finds the recordings of its cell done: each is a  *)
(* statement ahead of it.                                                  *)
RecordingsLead ==
    \A c \in Cells, l, j \in Jobs :
        Recording(l, c) /\ Querying(j, c) =>
            /\ jobs[l].step = "explain" => jobs[j].step \in {"create", "direct"} /\ Prior(l, j)
            /\ jobs[j].step = "select" => Prior(l, j)

LineageShown ==
    \A c \in Cells \ DOMAIN inputs :
        Live(c) /\ shown[c].code \notin Direct =>
            /\ \A l \in Jobs : Recording(l, c) => jobs[l].code = shown[c].code
            /\ (\A l \in Jobs : ~Recording(l, c)) => Noted(c)

Lineages == RecordingsLead /\ LineageShown

(* A step that leaves the recordings and the queries as they are, or       *)
(* aborts or ends queries.                                                 *)
LEMMA LineagesKept ==
  ASSUME Lineages, UNCHANGED inputs,
         \A l \in Jobs, c \in Cells :
            /\ Recording(l, c)' <=> Recording(l, c)
            /\ Recording(l, c) => jobs'[l].code = jobs[l].code /\ jobs'[l].step = jobs[l].step,
         \A j \in Jobs, c \in Cells :
            Querying(j, c)' => /\ Querying(j, c) /\ jobs'[j].step = jobs[j].step
                               /\ \A l \in Jobs : Recording(l, c) => (Prior(l, j) => Prior(l, j)'),
         \A c \in Cells \ DOMAIN inputs :
            Live(c)' => Live(c) /\ shown'[c] = shown[c] /\ lineage'[c] = lineage[c],
         Range(doc') \subseteq Range(doc)
  PROVE  Lineages'
<1>1. RecordingsLead'
  <2> SUFFICES ASSUME NEW c \in Cells, NEW l \in Jobs, NEW j \in Jobs, Recording(l, c)', Querying(j, c)'
               PROVE  /\ jobs'[l].step = "explain" =>
                            jobs'[j].step \in {"create", "direct"} /\ Prior(l, j)'
                      /\ jobs'[j].step = "select" => Prior(l, j)'
    BY DEF RecordingsLead
  <2>1. /\ Recording(l, c) /\ Querying(j, c) /\ jobs'[l].step = jobs[l].step
        /\ jobs'[j].step = jobs[j].step /\ (Prior(l, j) => Prior(l, j)')
    OBVIOUS
  <2> QED
    BY <2>1 DEF Lineages, RecordingsLead
<1>2. LineageShown'
  <2> SUFFICES ASSUME NEW c \in Cells \ DOMAIN inputs, Live(c)', shown'[c].code \notin Direct
               PROVE  /\ \A l \in Jobs : Recording(l, c)' => jobs'[l].code = shown'[c].code
                      /\ (\A l \in Jobs : ~Recording(l, c)') => Noted(c)'
    BY DEF LineageShown
  <2>1. /\ Live(c) /\ shown'[c] = shown[c] /\ lineage'[c] = lineage[c]
        /\ \A l \in Jobs : Recording(l, c) => jobs[l].code = shown[c].code
        /\ (\A l \in Jobs : ~Recording(l, c)) => Noted(c)
    BY DEF Lineages, LineageShown
  <2>2. Noted(c) => Noted(c)'
    BY <2>1 DEF Noted
  <2> QED
    BY <2>1, <2>2
<1> QED
  BY <1>1, <1>2 DEF Lineages

(* A step of a job that neither queries nor records afterwards.            *)
LEMMA LineagesBeside ==
  ASSUME Lineages, NEW S, NEW j, Others(S, j), Beside(j), UNCHANGED inputs,
         j \in Jobs => jobs'[j].kind \notin {"sql", "lineage"} /\ jobs[j].kind # "lineage",
         \A c \in Cells \ DOMAIN inputs :
            Live(c)' => Live(c) /\ shown'[c] = shown[c] /\ lineage'[c] = lineage[c],
         Range(doc') \subseteq Range(doc)
  PROVE  Lineages'
<1>1. \A l \in Jobs, c \in Cells :
            /\ Recording(l, c)' <=> Recording(l, c)
            /\ Recording(l, c) => l # j /\ jobs'[l].code = jobs[l].code /\ jobs'[l].step = jobs[l].step
  BY DEF Recording, Others, Alike
<1>2. \A i \in Jobs, c \in Cells :
            Querying(i, c)' => i # j /\ Querying(i, c) /\ jobs'[i].step = jobs[i].step
  BY DEF Querying, Sql, Others, Alike
<1>3. \A i \in Jobs, c \in Cells :
            Querying(i, c)' => \A l \in Jobs : Recording(l, c) => (Prior(l, i) => Prior(l, i)')
  BY <1>1, <1>2 DEF Beside
<1> QED
  BY <1>1, <1>2, <1>3, LineagesKept

LEMMA LineagesAfterUser ==
  ASSUME Basic, Controls, Lineages, UserSteps
  PROVE  Lineages'
<1>1. /\ Typed /\ Queues /\ None \notin Jobs
  BY RecordsAre DEF Basic
<1>2. \A c \in Cells : UNCHANGED doc => (Listed(c)' => Listed(c))
  BY DEF Listed
<1>3. CASE Idle \/ Quiet
  <2>1. Stays /\ UNCHANGED <<doc, inputs, status, shown, jobs, lineage>>
    BY <1>3 DEF Idle, Quiet, Still
  <2>2. Others({}, None)
    BY <2>1 DEF Others, Alike
  <2>3. \A c \in Cells : Live(c)' => Live(c) /\ shown'[c] = shown[c]
    BY <1>2, <2>1, LiveSame
  <2> QED
    BY <1>1, <2>1, <2>2, <2>3, BesideWhen, LineagesBeside
<1>4. ASSUME NEW c \in Cells, Refuses(c) \/ Gives(c) PROVE Lineages'
  <2>1. /\ Stays /\ UNCHANGED <<doc, inputs, lineage>>
        /\ status' = [status EXCEPT ![c] = "error"] /\ shown' = [shown EXCEPT ![c] = NoRows]
    BY <1>1, <1>4 DEF Refuses, Gives
  <2>2. PICK S : Others(S, None)
    <3>1. CASE Refuses(c)
      <4>1. Others({}, None)
        BY <3>1 DEF Refuses, Others, Alike
      <4> QED
        BY <4>1
    <3>2. CASE Gives(c)
      BY <3>2 DEF Gives
    <3> QED
      BY <1>4, <3>1, <3>2
  <2>3. \A d \in Cells : Live(d)' => Live(d) /\ shown'[d] = shown[d]
    <3>1. \A d \in Cells : d # c => status'[d] = status[d] /\ shown'[d] = shown[d]
      BY <2>1
    <3>2. status'[c] = "error"
      BY <1>1, <2>1 DEF Typed
    <3> QED
      BY <1>2, <2>1, <3>1, <3>2, LiveSame DEF Live
  <2> QED
    BY <1>1, <2>1, <2>2, <2>3, BesideWhen, LineagesBeside
<1>5. ASSUME NEW S \in SUBSET Jobs, Escapes(S) PROVE Lineages'
  <2>1. /\ Stays /\ UNCHANGED <<doc, inputs, shown, lineage>> /\ Others(S, None)
        /\ status' = Silenced(S)
    BY <1>1, <1>5 DEF Escapes
  <2>2. \A d \in Cells : status'[d] = "success" => status[d] = "success"
    BY <2>1 DEF Silenced
  <2>3. \A d \in Cells : Live(d)' => Live(d) /\ shown'[d] = shown[d]
    BY <1>2, <2>1, <2>2, LiveSame
  <2> QED
    BY <1>1, <2>1, <2>3, BesideWhen, LineagesBeside
<1>6. ASSUME NEW c \in Cells, NEW j \in Jobs, Deletes(c, j) PROVE Lineages'
  <2>1. /\ Posts(j) /\ UNCHANGED <<inputs, status, shown>> /\ jobs[j].kind = "free"
        /\ Others(Controllers(c), j) /\ jobs'[j].kind = "drop" /\ Range(doc') = Range(doc) \ {c}
        /\ lineage' = [lineage EXCEPT ![c] = {}]
    BY <1>6 DEF Deletes
  <2>2. \A d \in Cells : Listed(d)' => Listed(d) /\ d # c
    BY <2>1 DEF Listed
  <2>3. \A d \in Cells : Live(d)' => Live(d) /\ shown'[d] = shown[d] /\ lineage'[d] = lineage[d]
    BY <1>1, <2>1, <2>2, LiveSame DEF Live, Typed
  <2> QED
    BY <1>1, <2>1, <2>3, BesideWhen, LineagesBeside
<1>7. ASSUME NEW j \in Jobs, Leaves(j) PROVE Lineages'
  <2>1. /\ Posts(j) /\ UNCHANGED <<doc, inputs, shown, lineage>> /\ jobs'[j].kind = "leave"
        /\ jobs[j].kind = "free"
        /\ status' = Silenced(UNION {Controllers(c) : c \in Cells})
    BY <1>7 DEF Leaves
  <2>2. Others(UNION {Controllers(c) : c \in Cells}, j)
    BY <1>7 DEF Leaves
  <2>3. \A d \in Cells : status'[d] = "success" => status[d] = "success"
    BY <2>1 DEF Silenced
  <2>4. \A d \in Cells : Live(d)' => Live(d) /\ shown'[d] = shown[d]
    BY <1>2, <2>1, <2>3, LiveSame
  <2> QED
    BY <2>1, <2>2, <2>4, BesideWhen, LineagesBeside
<1>8. ASSUME NEW c \in Cells, NEW j \in Jobs, Starts(c, j) PROVE Lineages'
  <2>1. /\ Posts(j) /\ UNCHANGED <<doc, inputs, shown, lineage>> /\ jobs[j].kind = "free"
        /\ Others(Controllers(c), j) /\ jobs'[j].cell = c
        /\ jobs'[j].kind = IF c \in DOMAIN inputs THEN "lang" ELSE "sql"
        /\ c \notin DOMAIN inputs => jobs'[j].step \in {"create", "direct"}
        /\ status' = [status EXCEPT ![c] = "running"]
    BY <1>8 DEF Starts
  <2>2. status'[c] = "running" /\ \A d \in Cells : d # c => status'[d] = status[d]
    BY <1>1, <2>1 DEF Typed
  <2>3. \A d \in Cells : Live(d)' => d # c /\ Live(d) /\ shown'[d] = shown[d]
    BY <1>2, <2>1, <2>2, LiveSame DEF Live
  <2>4. CASE c \in DOMAIN inputs
    BY <1>1, <2>1, <2>3, <2>4, BesideWhen, LineagesBeside
  <2>5. CASE c \notin DOMAIN inputs
    <3>1. \A l \in Jobs, d \in Cells :
            /\ Recording(l, d)' <=> Recording(l, d)
            /\ Recording(l, d) => l # j /\ jobs'[l].code = jobs[l].code /\ jobs'[l].step = jobs[l].step
      BY <2>1, <2>5 DEF Recording, Others, Alike
    <3>2. \A i \in Jobs \ {j}, d \in Cells :
            Querying(i, d)' => Querying(i, d) /\ jobs'[i].step = jobs[i].step
      BY <2>1 DEF Querying, Sql, Others, Alike
    <3>3. /\ \A l \in Jobs \ {j} : Asked(l) \/ Answered(l) => Prior(l, j)'
          /\ \A x, y \in Jobs \ {j} : Prior(x, y)' <=> Prior(x, y)
      BY <2>1 DEF Posts
    <3>4. \A l \in Jobs, d \in Cells : Recording(l, d) => Asked(l) \/ Answered(l)
      BY <1>1 DEF Recording, Queues, Basic, Stepped, StepsOf
    <3>5. RecordingsLead'
      <4> SUFFICES ASSUME NEW d \in Cells, NEW l \in Jobs, NEW i \in Jobs, Recording(l, d)', Querying(i, d)'
                   PROVE  /\ jobs'[l].step = "explain" =>
                                jobs'[i].step \in {"create", "direct"} /\ Prior(l, i)'
                          /\ jobs'[i].step = "select" => Prior(l, i)'
        BY DEF RecordingsLead
      <4>1. CASE i = j
        BY <2>1, <2>5, <3>1, <3>3, <3>4, <4>1
      <4>2. CASE i # j
        <5>1. /\ Recording(l, d) /\ Querying(i, d) /\ l # j /\ jobs'[l].step = jobs[l].step
              /\ jobs'[i].step = jobs[i].step /\ (Prior(l, i)' <=> Prior(l, i))
          BY <3>1, <3>2, <3>3, <4>2
        <5> QED
          BY <5>1 DEF Lineages, RecordingsLead
      <4> QED
        BY <4>1, <4>2
    <3>6. LineageShown'
      <4> SUFFICES ASSUME NEW d \in Cells \ DOMAIN inputs, Live(d)', shown'[d].code \notin Direct
                   PROVE  /\ \A l \in Jobs : Recording(l, d)' => jobs'[l].code = shown'[d].code
                          /\ (\A l \in Jobs : ~Recording(l, d)') => Noted(d)'
        BY <2>1 DEF LineageShown
      <4>1. /\ Live(d) /\ shown'[d] = shown[d]
            /\ \A l \in Jobs : Recording(l, d) => jobs[l].code = shown[d].code
            /\ (\A l \in Jobs : ~Recording(l, d)) => Noted(d)
        BY <2>3 DEF Lineages, LineageShown
      <4>2. Noted(d) => Noted(d)'
        BY <2>1, <4>1 DEF Noted
      <4> QED
        BY <3>1, <4>1, <4>2
    <3> QED
      BY <3>5, <3>6 DEF Lineages
  <2> QED
    BY <2>4, <2>5
<1> QED
  BY <1>3, <1>4, <1>5, <1>6, <1>7, <1>8 DEF UserSteps

(* The cells and what is recorded for them stay, and so do the recordings. *)
LEMMA LineageShownKept ==
  ASSUME Lineages, UNCHANGED <<doc, inputs, status, shown, lineage>>,
         \A l \in Jobs, c \in Cells :
            /\ Recording(l, c)' <=> Recording(l, c)
            /\ Recording(l, c) => jobs'[l].code = jobs[l].code
  PROVE  LineageShown'
<1> SUFFICES ASSUME NEW c \in Cells \ DOMAIN inputs, Live(c)', shown'[c].code \notin Direct
             PROVE  /\ \A l \in Jobs : Recording(l, c)' => jobs'[l].code = shown'[c].code
                    /\ (\A l \in Jobs : ~Recording(l, c)') => Noted(c)'
  BY DEF LineageShown
<1>1. Live(c)
  BY LiveSame DEF Listed
<1>2. Noted(c) => Noted(c)'
  BY DEF Noted
<1> QED
  BY <1>1, <1>2 DEF Lineages, LineageShown

LEMMA LineagesSelect ==
  ASSUME Basic, Lineages, NEW j \in Jobs, Selects(j)
  PROVE  Lineages'
<1>1. /\ Queues /\ Stepped
  BY DEF Basic
<1>2. /\ Others({}, j) /\ Reposts(j) /\ First(j) /\ UNCHANGED <<doc, inputs, status, shown, lineage>>
      /\ jobs[j].kind = "sql" /\ jobs'[j].kind = "sql" /\ jobs'[j].cell = jobs[j].cell
      /\ jobs'[j].aborted = jobs[j].aborted /\ jobs'[j].step = "select"
  BY DEF Selects, Advances, Reposts
<1>3. \A l \in Jobs, c \in Cells :
            /\ Recording(l, c)' <=> Recording(l, c)
            /\ Recording(l, c) => l # j /\ jobs'[l].code = jobs[l].code /\ jobs'[l].step = jobs[l].step
  BY <1>2 DEF Recording, Others, Alike
<1>4. \A i \in Jobs, c \in Cells :
            Querying(i, c)' => Querying(i, c) /\ (i # j => jobs'[i].step = jobs[i].step)
  BY <1>2 DEF Querying, Sql, Others, Alike
<1>5. ASSUME NEW c \in Cells, NEW l \in Jobs, NEW i \in Jobs, Recording(l, c)', Querying(i, c)'
      PROVE  /\ jobs'[l].step = "explain" => jobs'[i].step \in {"create", "direct"} /\ Prior(l, i)'
             /\ jobs'[i].step = "select" => Prior(l, i)'
  <2>1. /\ Recording(l, c) /\ l # j /\ jobs'[l].step = jobs[l].step /\ Querying(i, c)
        /\ jobs[l].step = "explain" => jobs[i].step \in {"create", "direct"} /\ Prior(l, i)
        /\ jobs[i].step = "select" => Prior(l, i)
    BY <1>3, <1>4, <1>5 DEF Lineages, RecordingsLead
  <2>2. CASE i = j
    <3>1. jobs[l].step # "explain"
      BY <1>2, <2>1, <2>2 DEF First
    <3>2. Asked(l) \/ Answered(l)
      BY <1>1, <2>1 DEF Recording, Queues, Stepped, StepsOf
    <3> QED
      BY <1>2, <2>1, <2>2, <3>1, <3>2 DEF Reposts
  <2>3. CASE i # j
    BY <1>2, <1>4, <1>5, <2>1, <2>3 DEF Reposts
  <2> QED
    BY <2>2, <2>3
<1>6. LineageShown'
  BY <1>2, <1>3, LineageShownKept
<1> QED
  BY <1>5, <1>6 DEF Lineages, RecordingsLead

LEMMA LineagesAsk ==
  ASSUME Basic, Lineages, NEW j \in Jobs, Asks(j)
  PROVE  Lineages'
<1>1. /\ Others({}, j) /\ Reposts(j) /\ First(j) /\ UNCHANGED <<doc, inputs, status, shown, lineage>>
      /\ jobs[j].kind = "lineage" /\ jobs'[j].kind = "lineage" /\ jobs'[j].cell = jobs[j].cell
      /\ jobs'[j].code = jobs[j].code /\ jobs[j].step = "explain" /\ jobs'[j].step = "known"
  BY DEF Asks, Advances, Reposts
<1>2. \A l \in Jobs, c \in Cells :
            /\ Recording(l, c)' <=> Recording(l, c)
            /\ Recording(l, c) => jobs'[l].code = jobs[l].code /\ (l # j => jobs'[l].step = jobs[l].step)
  BY <1>1 DEF Recording, Others, Alike
<1>3. \A i \in Jobs, c \in Cells :
            Querying(i, c)' => i # j /\ Querying(i, c) /\ jobs'[i].step = jobs[i].step
  BY <1>1 DEF Querying, Sql, Others, Alike
<1>4. ASSUME NEW c \in Cells, NEW l \in Jobs, NEW i \in Jobs, Recording(l, c)', Querying(i, c)'
      PROVE  /\ jobs'[l].step = "explain" => jobs'[i].step \in {"create", "direct"} /\ Prior(l, i)'
             /\ jobs'[i].step = "select" => Prior(l, i)'
  <2>1. /\ Recording(l, c) /\ i # j /\ jobs'[i].step = jobs[i].step /\ Querying(i, c)
        /\ jobs[l].step = "explain" => jobs[i].step \in {"create", "direct"} /\ Prior(l, i)
        /\ jobs[i].step = "select" => Prior(l, i)
    BY <1>2, <1>3, <1>4 DEF Lineages, RecordingsLead
  <2>2. CASE l = j
    BY <1>1, <2>1, <2>2
  <2>3. CASE l # j
    BY <1>1, <1>2, <1>4, <2>1, <2>3 DEF Reposts
  <2> QED
    BY <2>2, <2>3
<1>5. LineageShown'
  BY <1>1, <1>2, LineageShownKept
<1> QED
  BY <1>4, <1>5 DEF Lineages, RecordingsLead

LEMMA LineagesRecord ==
  ASSUME Basic, Lineages, NEW j \in Jobs, Recorded(j)
  PROVE  Lineages'
<1>1. /\ Typed /\ StepsOf(jobs[j])
  BY DEF Basic, Stepped
<1>2. /\ Others({}, j) /\ Beside(j) /\ UNCHANGED <<doc, inputs, status, shown>>
      /\ jobs[j].kind = "lineage" /\ jobs'[j].kind = "free" /\ jobs[j].cell \in Cells
      /\ lineage' = [lineage EXCEPT ![jobs[j].cell] = Names(jobs[j].code) \cap Range(doc)]
  BY <1>1, BesideWhen DEF Recorded, Frees, Free, StepsOf
<1>3. \A l \in Jobs, c \in Cells :
            /\ Recording(l, c)' <=> Recording(l, c) /\ l # j
            /\ l # j => jobs'[l].code = jobs[l].code /\ jobs'[l].step = jobs[l].step
  BY <1>2 DEF Recording, Others, Alike
<1>4. \A i \in Jobs, c \in Cells :
            Querying(i, c)' => i # j /\ Querying(i, c) /\ jobs'[i].step = jobs[i].step
  BY <1>2 DEF Querying, Sql, Others, Alike
<1>5. ASSUME NEW c \in Cells, NEW l \in Jobs, NEW i \in Jobs, Recording(l, c)', Querying(i, c)'
      PROVE  /\ jobs'[l].step = "explain" => jobs'[i].step \in {"create", "direct"} /\ Prior(l, i)'
             /\ jobs'[i].step = "select" => Prior(l, i)'
  <2>1. /\ Recording(l, c) /\ l # j /\ jobs'[l].step = jobs[l].step
        /\ i # j /\ jobs'[i].step = jobs[i].step /\ Querying(i, c)
    BY <1>3, <1>4, <1>5
  <2>2. /\ jobs[l].step = "explain" => jobs[i].step \in {"create", "direct"} /\ Prior(l, i)
        /\ jobs[i].step = "select" => Prior(l, i)
    BY <2>1 DEF Lineages, RecordingsLead
  <2> QED
    BY <1>2, <2>1, <2>2 DEF Beside
<1>6. LineageShown'
  <2> SUFFICES ASSUME NEW c \in Cells \ DOMAIN inputs, Live(c)', shown'[c].code \notin Direct
               PROVE  /\ \A l \in Jobs : Recording(l, c)' => jobs'[l].code = shown'[c].code
                      /\ (\A l \in Jobs : ~Recording(l, c)') => Noted(c)'
    BY <1>2 DEF LineageShown
  <2>1. /\ \A l \in Jobs : Recording(l, c) => jobs[l].code = shown[c].code
        /\ (\A l \in Jobs : ~Recording(l, c)) => Noted(c)
        /\ shown'[c] = shown[c]
    BY <1>2, LiveSame DEF Lineages, LineageShown, Listed
  <2>2. ASSUME \A l \in Jobs : ~Recording(l, c)' PROVE Noted(c)'
    <3>1. CASE jobs[j].cell = c
      <4>1. jobs[j].code = shown[c].code
        BY <1>2, <2>1, <3>1 DEF Recording
      <4>2. lineage'[c] = Names(shown'[c].code) \cap Range(doc)
        BY <1>1, <1>2, <2>1, <3>1, <4>1 DEF Typed
      <4> QED
        BY <1>2, <4>2 DEF Noted
    <3>2. CASE jobs[j].cell # c
      <4>1. Noted(c) /\ lineage'[c] = lineage[c]
        BY <1>1, <1>2, <1>3, <2>1, <2>2, <3>2 DEF Recording, Typed
      <4> QED
        BY <1>2, <2>1, <4>1 DEF Noted
    <3> QED
      BY <3>1, <3>2
  <2> QED
    BY <1>3, <2>1, <2>2
<1> QED
  BY <1>5, <1>6 DEF Lineages, RecordingsLead

LEMMA LineagesSucceed ==
  ASSUME Basic, Controls, Lineages, NEW j \in Jobs, Succeeds(j)
  PROVE  Lineages'
<1>1. /\ Typed /\ StepsOf(jobs[j]) /\ Tracked /\ Registered /\ None \notin Jobs
  BY RecordsAre DEF Basic, Controls, Stepped
<1>2. /\ Others({}, j) /\ Beside(j) /\ First(j) /\ UNCHANGED <<doc, inputs, lineage>>
      /\ jobs[j].kind = "sql" /\ ~jobs[j].aborted
      /\ jobs[j].cell \in Cells \ DOMAIN inputs
      /\ \/ jobs[j].step = "direct" /\ jobs'[j].kind = "free" /\ jobs[j].code \in Direct
         \/ /\ jobs[j].step = "select" /\ jobs'[j].kind = "lineage"
            /\ jobs'[j].cell = jobs[j].cell /\ jobs'[j].code = jobs[j].code
  BY <1>1, BesideWhen DEF Succeeds, Frees, Free, StepsOf, Takes, Reposts
<1> DEFINE d == jobs[j].cell
<1>3. aborts[d] = j /\ IsLatest(j)
  BY <1>1, <1>2 DEF Tracked, Registered, Running
<1>4. /\ status' = [status EXCEPT ![d] = "success"] /\ shown' = [shown EXCEPT ![d] = Result(j)]
  BY <1>3 DEF Succeeds
<1>5. \A l \in Jobs, c \in Cells :
            /\ l # j => /\ Recording(l, c)' <=> Recording(l, c)
                        /\ jobs'[l].code = jobs[l].code /\ jobs'[l].step = jobs[l].step
            /\ Recording(j, c)' => c = d /\ jobs[j].step = "select"
            /\ ~Recording(j, c)
  BY <1>2 DEF Recording, Others, Alike
<1>6. \A i \in Jobs, c \in Cells :
            Querying(i, c)' => i # j /\ Querying(i, c) /\ jobs'[i].step = jobs[i].step /\ c # d
  <2>1. \A i \in Jobs, c \in Cells :
            Querying(i, c)' => i # j /\ Querying(i, c) /\ jobs'[i].step = jobs[i].step
    BY <1>2 DEF Querying, Sql, Others, Alike
  <2>2. \A i \in Jobs : Querying(i, d) => aborts[d] = i
    BY <1>1 DEF Querying, Sql, Tracked, Running
  <2> QED
    BY <1>3, <2>1, <2>2
<1>7. ASSUME NEW c \in Cells, NEW l \in Jobs, NEW i \in Jobs, Recording(l, c)', Querying(i, c)'
      PROVE  /\ jobs'[l].step = "explain" => jobs'[i].step \in {"create", "direct"} /\ Prior(l, i)'
             /\ jobs'[i].step = "select" => Prior(l, i)'
  <2>1. /\ Recording(l, c) /\ l # j /\ jobs'[l].step = jobs[l].step
        /\ i # j /\ jobs'[i].step = jobs[i].step /\ Querying(i, c)
    BY <1>5, <1>6, <1>7
  <2>2. /\ jobs[l].step = "explain" => jobs[i].step \in {"create", "direct"} /\ Prior(l, i)
        /\ jobs[i].step = "select" => Prior(l, i)
    BY <2>1 DEF Lineages, RecordingsLead
  <2> QED
    BY <1>2, <2>1, <2>2 DEF Beside
<1>8. LineageShown'
  <2> SUFFICES ASSUME NEW c \in Cells \ DOMAIN inputs, Live(c)', shown'[c].code \notin Direct
               PROVE  /\ \A l \in Jobs : Recording(l, c)' => jobs'[l].code = shown'[c].code
                      /\ (\A l \in Jobs : ~Recording(l, c)') => Noted(c)'
    BY <1>2 DEF LineageShown
  <2>1. CASE c = d
    <3>1. shown'[c] = Result(j)
      BY <1>1, <1>2, <1>4, <2>1 DEF Typed
    <3>2. shown'[c].code = jobs[j].code /\ jobs[j].step = "select"
      BY <1>2, <3>1 DEF Result
    <3>3. ASSUME NEW l \in Jobs, l # j PROVE ~Recording(l, c)'
      <4> SUFFICES ASSUME Recording(l, c) PROVE FALSE
        BY <1>5, <3>3
      <4>1. Querying(j, c)
        BY <1>2, <2>1 DEF Querying, Sql
      <4>2. Prior(l, j)
        BY <3>2, <4>1 DEF Lineages, RecordingsLead
      <4> QED
        BY <1>2, <4>2 DEF First
    <3>4. Recording(j, c)' /\ jobs'[j].code = jobs[j].code
      BY <1>2, <2>1, <3>2 DEF Recording
    <3> QED
      BY <3>2, <3>3, <3>4
  <2>2. CASE c # d
    <3>1. status'[c] = status[c] /\ shown'[c] = shown[c]
      BY <1>1, <1>4, <2>2 DEF Typed
    <3>2. /\ \A l \in Jobs : Recording(l, c) => jobs[l].code = shown[c].code
          /\ (\A l \in Jobs : ~Recording(l, c)) => Noted(c)
      BY <1>2, <3>1, LiveSame DEF Lineages, LineageShown, Listed
    <3>3. Noted(c) => Noted(c)'
      BY <1>2, <3>1 DEF Noted
    <3> QED
      BY <1>5, <2>2, <3>1, <3>2, <3>3
  <2> QED
    BY <2>1, <2>2
<1> QED
  BY <1>7, <1>8 DEF Lineages, RecordingsLead

LEMMA LineagesAfterJob ==
  ASSUME Basic, Controls, Lineages, NEW j \in Jobs, JobSteps(j)
  PROVE  Lineages'
<1>1. Typed /\ StepsOf(jobs[j])
  BY DEF Basic, Stepped
<1>2. CASE Ran(j)
  <2>1. /\ Others({}, j) /\ UNCHANGED <<doc, inputs, status, shown, lineage>>
        /\ jobs'[j].kind = jobs[j].kind /\ jobs'[j].cell = jobs[j].cell
        /\ jobs'[j].step = jobs[j].step /\ jobs'[j].code = jobs[j].code
        /\ jobs'[j].aborted = jobs[j].aborted
        /\ \A x, y \in Jobs : Prior(x, y)' <=> Prior(x, y)
    BY <1>2 DEF Ran, Executes
  <2>2. \A l \in Jobs, c \in Cells :
            /\ Recording(l, c)' <=> Recording(l, c)
            /\ jobs'[l].code = jobs[l].code /\ jobs'[l].step = jobs[l].step
            /\ Querying(l, c)' => Querying(l, c)
    BY <2>1 DEF Recording, Querying, Sql, Others, Alike
  <2>3. \A c \in Cells : Live(c)' => Live(c) /\ shown'[c] = shown[c]
    BY <2>1, LiveSame DEF Listed
  <2> QED
    BY <2>1, <2>2, <2>3, LineagesKept
<1>3. CASE Selects(j)
  BY <1>3, LineagesSelect
<1>4. CASE Asks(j)
  BY <1>4, LineagesAsk
<1>5. CASE Recorded(j)
  BY <1>5, LineagesRecord
<1>6. CASE Succeeds(j)
  BY <1>6, LineagesSucceed
<1>7. CASE Loads(j) \/ Buffers(j) \/ Drops(j) \/ Proceeds(j) \/ Dropped(j)
              \/ \E s \in LangSteps : Follows(j, s)
  <2>1. /\ Others({}, j) /\ Beside(j) /\ UNCHANGED <<doc, inputs, status, shown, lineage>>
        /\ jobs'[j].kind \in {"lang", "drop", "leave", "free"} /\ jobs[j].kind # "lineage"
    BY <1>7, BesideWhen DEF Loads, Buffers, Drops, Proceeds, Dropped, Follows, Advances, Frees, Free
  <2>2. \A c \in Cells : Live(c)' => Live(c) /\ shown'[c] = shown[c]
    BY <2>1, LiveSame DEF Listed
  <2> QED
    BY <2>1, <2>2, LineagesBeside
<1>8. CASE Departs(j)
  <2>1. /\ Others({}, j) /\ Beside(j) /\ UNCHANGED inputs /\ doc' = <<>>
        /\ jobs'[j].kind = "free" /\ jobs[j].kind # "lineage"
    BY <1>8, BesideWhen DEF Departs, Frees, Free
  <2>2. Range(doc') = {} /\ \A c \in Cells : ~Live(c)'
    BY <2>1 DEF Live, Listed, Range
  <2> QED
    BY <2>1, <2>2, LineagesBeside
<1>9. CASE Fails(j) \/ \E o \in {"success", "error"} : Finishes(j, o)
  <2>1. /\ Others({}, j) /\ Beside(j) /\ UNCHANGED <<doc, inputs, lineage>>
        /\ jobs'[j].kind = "free" /\ jobs[j].kind # "lineage"
    BY <1>9, BesideWhen DEF Fails, Finishes, Frees, Free
  <2>2. ASSUME NEW c \in Cells \ DOMAIN inputs, Live(c)' PROVE Live(c) /\ shown'[c] = shown[c]
    <3>1. CASE Fails(j)
      <4>1. (status'[c] = status[c] /\ shown'[c] = shown[c]) \/ status'[c] = "error"
        BY <1>1, <3>1 DEF Fails, Typed
      <4> QED
        BY <2>1, <2>2, <4>1, LiveSame DEF Live, Listed
    <3>2. ASSUME NEW o, Finishes(j, o) PROVE Live(c) /\ shown'[c] = shown[c]
      <4>1. status'[c] = status[c] /\ shown'[c] = shown[c]
        BY <1>1, <3>2 DEF Finishes, StepsOf, Typed
      <4> QED
        BY <2>1, <2>2, <4>1, LiveSame DEF Listed
    <3> QED
      BY <1>9, <3>1, <3>2
  <2> QED
    BY <2>1, <2>2, LineagesBeside
<1> QED
  BY <1>2, <1>3, <1>4, <1>5, <1>6, <1>7, <1>8, <1>9 DEF JobSteps

LEMMA LineagesInitially ==
  ASSUME Init
  PROVE  Lineages
<1>1. \A i \in Jobs : jobs[i].kind = "free"
  BY DEF Init, Free
<1>2. \A i \in Jobs : \A c : ~Recording(i, c) /\ ~Querying(i, c)
  BY <1>1 DEF Recording, Querying, Sql
<1>3. ASSUME NEW c \in Cells PROVE ~Live(c)
  <2>1. shown[c] = NoRows \/ shown[c].snapshot
    BY DEF Init
  <2> QED
    BY <2>1 DEF Live
<1> QED
  BY <1>2, <1>3 DEF Lineages, RecordingsLead, LineageShown

(* The lineage of a cell names what the statement behind its rows reads,   *)
(* not what the editor or an earlier run says (the recording at the end of *)
(* runCell).                                                               *)
THEOREM LineageOfRowsAlways == Spec => []LineageOfRows
<1> DEFINE Inv == Basic /\ Controls /\ Lineages
<1>1. Init => Inv
  BY BasicInitially, ControlsInitially, LineagesInitially
<1>2. Inv /\ [Next]_vars => Inv'
  BY StepsKeep, LineagesAfterUser, LineagesAfterJob
<1>3. Inv => LineageOfRows
  BY DEF LineageOfRows, Lineages, LineageShown, Noted, Recording
<1> QED
  BY <1>1, <1>2, <1>3, PTL DEF Spec

-----------------------------------------------------------------------------
(* What is behind a query of the notebook.                                 *)

Query(c) == Listed(c) /\ c \notin DOMAIN inputs

LEMMA NotebookCells ==
  ASSUME Typed
  PROVE  /\ \A i \in DOMAIN doc : doc[i] \in Cells /\ Notebook[i] = Cell(doc[i]) /\ Listed(doc[i])
         /\ \A i, k \in DOMAIN doc : doc[i] = doc[k] => i = k
         /\ \A c : Listed(c) => c \in Cells /\ Place(c) \in DOMAIN doc /\ doc[Place(c)] = c
         /\ \A i \in DOMAIN doc : Place(doc[i]) = i
         /\ G!RunnableCells(Notebook) = {i \in DOMAIN doc : Query(doc[i])}
<1>1. \A i \in DOMAIN doc : doc[i] \in Cells /\ Notebook[i] = Cell(doc[i]) /\ Listed(doc[i])
  BY DEF Typed, Notebook, Listed, Range
<1>2. \A i, k \in DOMAIN doc : doc[i] = doc[k] => i = k
  BY DEF Typed, IsInjective
<1>3. \A c : Listed(c) => c \in Cells /\ Place(c) \in DOMAIN doc /\ doc[Place(c)] = c
  BY <1>1, PlaceOf, SheetOfDoc DEF Listed, Range
<1>4. \A i \in DOMAIN doc : Place(doc[i]) = i
  BY <1>1, <1>2, <1>3
<1>5. ASSUME NEW i \in DOMAIN doc PROVE G!Runnable(Notebook, i) <=> Query(doc[i])
  <2>1. Cell(doc[i]).kind = "sql" <=> doc[i] \notin DOMAIN inputs
    BY DEF Cell
  <2>2. Notebook[i] = Cell(doc[i]) /\ Listed(doc[i])
    BY <1>1
  <2> QED
    BY <2>1, <2>2 DEF G!Runnable, Query
<1> QED
  BY <1>1, <1>2, <1>3, <1>4, <1>5, SheetOfDoc DEF G!RunnableCells

(* An @name finds the query of that name.                                  *)
LEMMA NameFinds ==
  ASSUME Typed, NEW x
  PROVE  /\ Query(x) => G!CellNamed(Notebook, x) = Place(x)
         /\ ~Query(x) => G!CellNamed(Notebook, x) = 0
<1> DEFINE S == {c \in DOMAIN Notebook : /\ Notebook[c].kind \in {"sql", "input"}
                                         /\ Notebook[c].name = x}
<1>1. G!CellNamed(Notebook, x) = IF S = {} THEN 0 ELSE G!Min(S)
  BY DEF G!CellNamed
<1>2. S = {i \in DOMAIN doc : doc[i] = x /\ doc[i] \notin DOMAIN inputs}
  BY NotebookCells, SheetOfDoc DEF Cell
<1>3. DOMAIN doc \in SUBSET Nat
  BY SheetOfDoc DEF Typed
<1> HIDE DEF S
<1>4. CASE Query(x)
  <2>1. S = {Place(x)}
    BY <1>2, <1>4, NotebookCells DEF Query
  <2>2. G!Min(S) \in S
    BY <2>1, <1>2, <1>3, MinIn
  <2> QED
    BY <1>1, <1>4, <2>1, <2>2
<1>5. CASE ~Query(x)
  <2>1. S = {}
    BY <1>2, <1>5, NotebookCells DEF Query
  <2> QED
    BY <1>1, <1>5, <2>1
<1> QED
  BY <1>4, <1>5

LEMMA ReadsAre ==
  ASSUME Typed, NEW i \in DOMAIN doc, Query(doc[i])
  PROVE  G!Reads(Notebook, i) = {Place(d) : d \in Resolved(code[doc[i]])}
<1> DEFINE k == code[doc[i]]
<1>1. Notebook[i].refs = RefsOf[k]
  <2>1. Cell(doc[i]).refs = IF doc[i] \in DOMAIN inputs THEN <<>> ELSE RefsOf[k]
    BY DEF Cell
  <2>2. Notebook[i] = Cell(doc[i]) /\ doc[i] \notin DOMAIN inputs
    BY NotebookCells DEF Query
  <2> QED
    BY <2>1, <2>2
<1>2. G!Range(G!Refs(Notebook, i)) = {G!CellNamed(Notebook, x) : x \in Names(k)}
  BY <1>1 DEF G!Range, G!Refs, Names, Range
<1>3. \A x : Query(x) => Place(x) \in DOMAIN doc /\ Place(x) # 0 /\ G!Runnable(Notebook, Place(x))
  <2>1. 0 \notin DOMAIN doc
    BY SheetOfDoc
  <2> QED
    BY <2>1, NotebookCells DEF Query, G!RunnableCells
<1>4. Resolved(k) = {x \in Names(k) : Query(x)}
  BY DEF Resolved, Query
<1> HIDE DEF k
<1>5. G!Reads(Notebook, i) = {d \in {G!CellNamed(Notebook, x) : x \in Names(k)} \ {0} :
                                 G!Runnable(Notebook, d)}
  BY <1>2 DEF G!Reads
<1>6. ASSUME NEW d \in G!Reads(Notebook, i) PROVE d \in {Place(x) : x \in Resolved(k)}
  <2>1. PICK x \in Names(k) : d = G!CellNamed(Notebook, x) /\ d # 0
    BY <1>5
  <2>2. Query(x) /\ d = Place(x)
    BY <2>1, NameFinds
  <2> QED
    BY <1>4, <2>1, <2>2
<1>7. ASSUME NEW x \in Resolved(k) PROVE Place(x) \in G!Reads(Notebook, i)
  <2>1. x \in Names(k) /\ Query(x) /\ G!CellNamed(Notebook, x) = Place(x)
    BY <1>4, NameFinds
  <2> QED
    BY <1>3, <1>5, <2>1
<1> QED
  BY <1>6, <1>7 DEF k

(* The queries behind a query are the least set that has what it reads and *)
(* what is read in the set.                                                *)
LEMMA BehindLeast ==
  ASSUME Typed, NEW c, Query(c)
  PROVE  /\ \A d \in Behind(c) : Query(d) /\ d \in Cells
         /\ Resolved(code[c]) \subseteq Behind(c)
         /\ \A d \in Behind(c) : Resolved(code[d]) \subseteq Behind(c)
         /\ \A T : /\ Resolved(code[c]) \subseteq T
                   /\ \A d \in T \cap Behind(c) : Resolved(code[d]) \subseteq T
                   => Behind(c) \subseteq T
<1> DEFINE i == Place(c)
           U == G!Upstream(Notebook, i)
<1>1. i \in DOMAIN doc /\ doc[i] = c
  BY NotebookCells DEF Query
<1>2. /\ U \in SUBSET {x \in DOMAIN doc : Query(doc[x])}
      /\ G!Reads(Notebook, i) \subseteq U
      /\ \A x \in U : G!Reads(Notebook, x) \subseteq U
      /\ \A T \in SUBSET DOMAIN doc :
              G!Reads(Notebook, i) \subseteq T /\ (\A x \in T : G!Reads(Notebook, x) \subseteq T)
                => U \subseteq T
  BY SheetOfDoc, UpstreamLeast, NotebookCells
<1>3. Behind(c) = {doc[x] : x \in U}
  BY DEF Behind
<1> HIDE DEF i, U
<1>4. \A x \in DOMAIN doc : Query(doc[x]) => 
        G!Reads(Notebook, x) = {Place(d) : d \in Resolved(code[doc[x]])}
  BY ReadsAre
<1>5. \A x \in DOMAIN doc : \A d \in Resolved(code[doc[x]]) : Place(d) \in DOMAIN doc /\ doc[Place(d)] = d
  BY NotebookCells DEF Resolved
<1>6. Resolved(code[c]) \subseteq Behind(c)
  <2> SUFFICES ASSUME NEW d \in Resolved(code[c]) PROVE d \in Behind(c)
    OBVIOUS
  <2>1. Place(d) \in U /\ doc[Place(d)] = d
    BY <1>1, <1>2, <1>4, <1>5
  <2> QED
    BY <1>3, <2>1
<1>7. ASSUME NEW d \in Behind(c), NEW e \in Resolved(code[d]) PROVE e \in Behind(c)
  <2>1. PICK x \in U : d = doc[x]
    BY <1>3
  <2>2. Place(e) \in U /\ doc[Place(e)] = e
    BY <1>2, <1>4, <1>5, <2>1
  <2> QED
    BY <1>3, <2>2
<1>8. ASSUME NEW T, Resolved(code[c]) \subseteq T,
             \A d \in T \cap Behind(c) : Resolved(code[d]) \subseteq T
      PROVE  Behind(c) \subseteq T
  <2> DEFINE V == {x \in U : doc[x] \in T}
  <2>1. V \in SUBSET DOMAIN doc
    BY <1>2
  <2>2. G!Reads(Notebook, i) \subseteq V
    <3> SUFFICES ASSUME NEW x \in G!Reads(Notebook, i) PROVE x \in V
      OBVIOUS
    <3>1. PICK d \in Resolved(code[c]) : x = Place(d)
      BY <1>1, <1>4
    <3>2. doc[x] = d
      BY <1>1, <1>5, <3>1
    <3> QED
      BY <1>2, <1>8, <3>1, <3>2
  <2>3. ASSUME NEW x \in V, NEW y \in G!Reads(Notebook, x) PROVE y \in V
    <3>1. x \in DOMAIN doc /\ Query(doc[x]) /\ doc[x] \in T \cap Behind(c) /\ y \in U
      BY <1>2, <1>3
    <3>2. PICK d \in Resolved(code[doc[x]]) : y = Place(d)
      BY <1>4, <3>1
    <3>3. doc[y] = d
      BY <1>5, <3>1, <3>2
    <3> QED
      BY <1>8, <3>1, <3>2, <3>3
  <2> HIDE DEF V
  <2>4. U \subseteq V
    BY <1>2, <2>1, <2>2, <2>3
  <2> QED
    BY <1>3, <2>4 DEF V
<1>9. \A d \in Behind(c) : Query(d) /\ d \in Cells
  BY <1>2, <1>3, NotebookCells DEF Query
<1> QED
  BY <1>6, <1>7, <1>8, <1>9

-----------------------------------------------------------------------------
(* What a batch has done so far.                                           *)

View(c) == [table |-> FALSE, code |-> code[c], sel |-> Selected(code[c]),
            reads |-> Resolved(code[c])]

BatchJob(i, b) == jobs[i].kind = "sql" /\ jobs[i].batch = b

Taken(b) == batches[b].order \ Range(batches[b].todo)

(* The cells of the batch whose run has ended.                             *)
Done(b) == {c \in Taken(b) : \A i \in Jobs : ~(BatchJob(i, b) /\ jobs[i].cell = c)}

(* A batch that may still end well, or has, in the present notebook.       *)
Active(b) == batches[b].clean /\ batches[b].state \in {"next", "await", "success"}

(* A batch has at most one run at a time, the one that it awaits.          *)
Awaited ==
    \A i \in Jobs, b \in Batches : BatchJob(i, b) =>
        batches[b].state = "await" /\ \A j \in Jobs : BatchJob(j, b) => i = j

(* Views do not name introspection, nor hold a selection they do not read. *)
Tidy ==
    /\ \A j \in Jobs : jobs[j].kind = "sql" /\ jobs[j].code \notin Crossed => jobs[j].sel = 0
    /\ \A c \in Cells : rel[c].code \notin Crossed => rel[c].sel = 0
    /\ \A c \in Cells \ DOMAIN inputs : rel[c].code \notin Direct

(* What the batch still has to do is in an order that works.               *)
Planned(b) ==
    LET todo == batches[b].todo
    IN  /\ IsInjective(todo) /\ Range(todo) \subseteq batches[b].order
        /\ \A c \in batches[b].order : Query(c)
        /\ batches[b].state = "success" => todo = <<>>
        /\ \A c \in Range(todo) :
              (\A d \in {c} \cup Behind(c) : d \notin Behind(d))
                 => \A d \in Behind(c) \cap Range(todo) : G!Before(todo, d, c)

Covered(b) ==
    \A c \in Cells :
        /\ Query(c) /\ code[c] \notin Empty
        /\ batches[b].brush => \E d \in {c} \cup Behind(c) : code[d] \in Crossed
        => c \in batches[b].order

(* Rows of the cell that are what BatchCurrent asks for.                   *)
Fine(b, c, rows) ==
    IF batches[b].brush
    THEN \A x \in rows : x[1] \in {c} \cup Behind(c) /\ x[2].code = code[x[1]]
                            => x[2].sel = Selected(code[x[1]])
    ELSE (\A d \in Behind(c) : code[d] \notin Empty) => rows = Fresh(c)

(* A cell is begun when what is behind it is done.                         *)
Begun(b) ==
    \A c \in Taken(b) : /\ Behind(c) \cap batches[b].order \subseteq Done(b)
                        /\ \A d \in Resolved(code[c]) : code[d] \notin Direct

Viewed(b) ==
    \A c \in Done(b) : code[c] \notin Direct =>
        /\ rel[c] = View(c)
        /\ \A i \in Jobs : Creating(i, c) => ViewOf(i) = View(c)

Queried(b) ==
    \A c \in Taken(b), i \in Jobs : Sql(i, c) /\ ~jobs[i].aborted =>
        /\ ViewOf(i) = View(c)
        /\ jobs[i].step = "select" /\ Answered(i) /\ jobs[i].ok => Fine(b, c, jobs[i].rows)

ShownBy(b) ==
    \A c \in Done(b) : shown[c] # NoRows =>
        shown[c].code = code[c] /\ (code[c] \notin Direct => Fine(b, c, shown[c].rows))

Upheld(b) == Planned(b) /\ Covered(b) /\ Begun(b) /\ Viewed(b) /\ Queried(b) /\ ShownBy(b)

Batched ==
    /\ Awaited /\ Tidy
    /\ Leaving => \A b \in Batches : ~batches[b].clean
    /\ \A b \in Batches : Active(b) => Upheld(b)

LEMMA BatchCurrentThen ==
  ASSUME Basic, Batched
  PROVE  BatchCurrent
<1> SUFFICES ASSUME NEW b \in Batches, batches[b].state = "success", batches[b].clean,
                    NEW c \in batches[b].order, Live(c), shown[c].code \notin Direct
             PROVE  IF batches[b].brush
                    THEN \A x \in shown[c].rows :
                            x[1] \in {c} \cup Behind(c) /\ x[2].code = code[x[1]]
                               => x[2].sel = Selected(code[x[1]])
                    ELSE (\A d \in Behind(c) : code[d] \notin Empty)
                            => shown[c].rows = Fresh(c)
  BY DEF BatchCurrent
<1>1. Upheld(b)
  BY DEF Batched, Active
<1>2. batches[b].todo = <<>>
  BY <1>1 DEF Upheld, Planned
<1>3. Range(batches[b].todo) = {}
  BY <1>2 DEF Range
<1>4. c \in Done(b)
  <2>1. \A i \in Jobs : ~BatchJob(i, b)
    BY DEF Batched, Awaited
  <2> QED
    BY <1>3, <2>1 DEF Done, Taken
<1>5. shown[c] # NoRows
  BY DEF Live
<1> QED
  BY <1>1, <1>4, <1>5 DEF Upheld, ShownBy, Fine

(* The rows of a view, when what is behind it is as it should be.          *)
LEMMA FineRows ==
  ASSUME Basic, NEW b \in Batches, Tidy, Covered(b), Begun(b), Viewed(b), Planned(b),
         NEW c \in Taken(b), rel[c] = View(c)
  PROVE  Fine(b, c, Rows({c}))
<1>1. Typed /\ Query(c) /\ c \in Cells /\ code \in [Cells -> Codes]
  BY NotebookCells DEF Basic, Planned, Taken, Query, Typed
<1>2. /\ \A d \in Behind(c) : Query(d) /\ d \in Cells
      /\ Resolved(code[c]) \subseteq Behind(c)
      /\ \A d \in Behind(c) : Resolved(code[d]) \subseteq Behind(c)
      /\ \A T : /\ Resolved(code[c]) \subseteq T
                /\ \A d \in T \cap Behind(c) : Resolved(code[d]) \subseteq T
                => Behind(c) \subseteq T
  BY <1>1, BehindLeast
<1>3. /\ Behind(c) \cap batches[b].order \subseteq Done(b)
      /\ \A d \in Resolved(code[c]) : code[d] \notin Direct
  BY DEF Begun
<1>4. CASE batches[b].brush
  <2> SUFFICES ASSUME NEW x \in Rows({c}), x[1] \in {c} \cup Behind(c), x[2].code = code[x[1]]
               PROVE  x[2].sel = Selected(code[x[1]])
    BY <1>4 DEF Fine
  <2>1. PICK d \in Reached({c}) : x = <<d, rel[d]>>
    BY DEF Rows
  <2>2. x[1] = d /\ x[2] = rel[d] /\ d \in Cells /\ Query(d)
    BY <1>1, <1>2, <2>1
  <2>3. CASE code[d] \notin Crossed
    BY <2>2, <2>3 DEF Tidy, Selected
  <2>4. CASE d = c
    BY <2>2, <2>4 DEF View
  <2>5. CASE code[d] \in Crossed /\ d \in Behind(c)
    <3>1. code[d] \notin Empty
      BY <2>5, CodesAssumption
    <3>2. d \in batches[b].order
      BY <2>2, <2>5, <3>1 DEF Covered
    <3>3. code[d] \notin Direct
      BY <2>2 DEF Tidy, Query
    <3>4. rel[d] = View(d)
      BY <1>3, <2>5, <3>2, <3>3 DEF Viewed
    <3> QED
      BY <2>2, <3>4 DEF View
  <2> QED
    BY <2>2, <2>3, <2>4, <2>5
<1>5. CASE ~batches[b].brush
  <2> SUFFICES ASSUME \A d \in Behind(c) : code[d] \notin Empty PROVE Rows({c}) = Fresh(c)
    BY <1>5 DEF Fine
  <2>1. Behind(c) \subseteq batches[b].order
    BY <1>2, <1>5 DEF Covered
  <2>2. \A d \in Behind(c) : d \in Done(b) /\ d \in Taken(b)
    BY <1>3, <2>1 DEF Done
  <2>3. \A d \in Behind(c) : code[d] \notin Direct
    <3> DEFINE T == {d \in Behind(c) : code[d] \notin Direct}
    <3>1. Resolved(code[c]) \subseteq T
      BY <1>2, <1>3
    <3>2. \A d \in Behind(c) : \A e \in Resolved(code[d]) : code[e] \notin Direct
      BY <2>2 DEF Begun
    <3>3. \A d \in T \cap Behind(c) : Resolved(code[d]) \subseteq T
      BY <1>2, <3>2
    <3>4. Behind(c) \subseteq T
      <4> HIDE DEF T
      <4> QED
        BY <1>2, <3>1, <3>3
    <3> QED
      BY <3>4
  <2>4. \A d \in {c} \cup Behind(c) : rel[d] = View(d)
    BY <2>2, <2>3 DEF Viewed
  <2>5. \A d \in {c} \cup Behind(c) : rel[d].reads = Resolved(code[d])
    <3>1. \A d : View(d).reads = Resolved(code[d])
      BY DEF View
    <3> QED
      BY <2>4, <3>1
  <2>6. Reached({c}) = {c} \cup Behind(c)
    <3> DEFINE next == [d \in Cells |-> rel[d].reads]
               R == G!Closure(next, {c})
    <3>1. next \in [Cells -> SUBSET Cells] /\ \A d \in Cells : next[d] = rel[d].reads
      BY <1>1 DEF Typed, Relations
    <3>2. R = Reached({c})
      BY DEF Reached
    <3> HIDE DEF next, R
    <3>3. {c} \in SUBSET Cells /\ {c} \cup Behind(c) \in SUBSET Cells
      BY <1>1, <1>2
    <3>4. /\ R \in SUBSET Cells /\ {c} \subseteq R
          /\ \A x \in R : next[x] \subseteq R
          /\ \A T \in SUBSET Cells :
               {c} \subseteq T /\ (\A x \in T : next[x] \subseteq T) => R \subseteq T
      BY <3>1, <3>3, ClosureLeast DEF R
    <3>5. \A x \in {c} \cup Behind(c) : next[x] = Resolved(code[x])
      BY <2>5, <3>1, <3>3
    <3>6. R \subseteq {c} \cup Behind(c)
      <4>1. \A x \in {c} \cup Behind(c) : next[x] \subseteq {c} \cup Behind(c)
        BY <1>2, <3>5
      <4> QED
        BY <3>3, <3>4, <4>1
    <3>7. Behind(c) \subseteq R
      <4>1. Resolved(code[c]) \subseteq R
        BY <3>4, <3>5
      <4>2. \A x \in R \cap Behind(c) : Resolved(code[x]) \subseteq R
        BY <3>4, <3>5
      <4> QED
        BY <1>2, <4>1, <4>2
    <3> QED
      BY <3>2, <3>4, <3>6, <3>7
  <2> QED
    BY <2>4, <2>6 DEF Rows, Fresh, View
<1> QED
  BY <1>4, <1>5

-----------------------------------------------------------------------------
(* What is behind a cell depends on the cells and on their code.           *)

LEMMA UpstreamAlike ==
  ASSUME NEW nb, IsSheet(nb), NEW mb, DOMAIN mb = DOMAIN nb,
         \A i \in DOMAIN nb : /\ nb[i].kind = mb[i].kind /\ nb[i].name = mb[i].name
                              /\ nb[i].refs = mb[i].refs
  PROVE  \A c \in DOMAIN nb : G!Upstream(nb, c) = G!Upstream(mb, c)
<1>1. \A x : G!CellNamed(nb, x) = G!CellNamed(mb, x)
  <2> TAKE x
  <2>1. {c \in DOMAIN nb : nb[c].kind \in {"sql", "input"} /\ nb[c].name = x}
           = {c \in DOMAIN mb : mb[c].kind \in {"sql", "input"} /\ mb[c].name = x}
    OBVIOUS
  <2> QED
    BY <2>1 DEF G!CellNamed
<1>2. ASSUME NEW c \in DOMAIN nb PROVE G!Reads(nb, c) = G!Reads(mb, c)
  <2>1. G!Refs(nb, c) = G!Refs(mb, c)
    BY <1>1 DEF G!Refs
  <2>2. G!Reads(nb, c) \in SUBSET DOMAIN nb /\ G!Reads(mb, c) \in SUBSET DOMAIN nb
    <3>1. IsSheet(mb)
      BY DEF IsSheet
    <3> QED
      BY <3>1, ReadsIn DEF G!RunnableCells
  <2>3. \A d \in DOMAIN nb : G!Runnable(nb, d) <=> G!Runnable(mb, d)
    BY DEF G!Runnable
  <2> QED
    BY <2>1, <2>2, <2>3 DEF G!Reads
<1>3. [d \in DOMAIN nb |-> G!Reads(nb, d)] = [d \in DOMAIN mb |-> G!Reads(mb, d)]
  BY <1>2
<1> QED
  BY <1>2, <1>3 DEF G!Upstream

SameNotebook == UNCHANGED <<doc, inputs, code, sel>>

LEMMA BehindSame ==
  ASSUME Typed, UNCHANGED <<doc, inputs, code>>, NEW c, Listed(c)
  PROVE  Behind(c)' = Behind(c)
<1>1. UNCHANGED <<doc, inputs, code>>
  OBVIOUS
<1> DEFINE mb == Notebook'
<1>2. DOMAIN mb = DOMAIN Notebook /\ DOMAIN Notebook = DOMAIN doc
  BY <1>1 DEF Notebook
<1>3. ASSUME NEW i \in DOMAIN doc
      PROVE  /\ Notebook[i].kind = mb[i].kind /\ Notebook[i].name = mb[i].name
             /\ Notebook[i].refs = mb[i].refs
  <2>1. mb[i] = Cell(doc[i])'
    BY <1>1 DEF Notebook
  <2>2. Notebook[i] = Cell(doc[i])
    BY DEF Notebook
  <2>3. /\ Cell(doc[i])'.kind = Cell(doc[i]).kind /\ Cell(doc[i])'.name = Cell(doc[i]).name
        /\ Cell(doc[i])'.refs = Cell(doc[i]).refs
    BY <1>1 DEF Cell
  <2> QED
    BY <2>1, <2>2, <2>3
<1>4. IsSheet(Notebook)
  BY SheetOfDoc
<1>5. Place(c)' = Place(c) /\ Place(c) \in DOMAIN doc
  BY <1>1, NotebookCells DEF Place
<1>6. G!Upstream(Notebook, Place(c)) = G!Upstream(mb, Place(c))
  <2> HIDE DEF mb
  <2> QED
    BY <1>2, <1>3, <1>4, <1>5, UpstreamAlike
<1>7. Behind(c)' = {doc[i] : i \in G!Upstream(mb, Place(c))}
  BY <1>1, <1>5 DEF Behind
<1> QED
  BY <1>6, <1>7 DEF Behind

LEMMA NotebookSame ==
  ASSUME Typed, SameNotebook
  PROVE  /\ \A c : (Query(c)' <=> Query(c)) /\ (Listed(c)' <=> Listed(c))
         /\ \A c : Query(c) => Behind(c)' = Behind(c) /\ \A d \in Behind(c) : Query(d)
         /\ \A k : Resolved(k)' = Resolved(k) /\ Selected(k)' = Selected(k)
         /\ \A c \in Cells : View(c)' = View(c)
         /\ \A c : Query(c) => Fresh(c)' = Fresh(c)
<1>1. UNCHANGED <<doc, inputs, code, sel>>
  BY DEF SameNotebook
<1>2. \A c : (Query(c)' <=> Query(c)) /\ (Listed(c)' <=> Listed(c))
  BY <1>1 DEF Query, Listed
<1>3. \A c : Query(c) => Behind(c)' = Behind(c) /\ \A d \in Behind(c) : Query(d)
  BY <1>1, BehindSame, BehindLeast DEF Query
<1>4. \A k : Resolved(k)' = Resolved(k) /\ Selected(k)' = Selected(k)
  BY <1>1 DEF Resolved, Selected, Listed
<1>5. \A c : View(c)' = View(c)
  BY <1>1, <1>4 DEF View, Resolved, Selected, Listed
<1>6. ASSUME NEW c, Query(c) PROVE Fresh(c)' = Fresh(c)
  <2>1. Fresh(c)' = {<<d, View(d)'>> : d \in {c} \cup Behind(c)'} /\ Fresh(c) = {<<d, View(d)>> : d \in {c} \cup Behind(c)}
    BY DEF Fresh, View
  <2> QED
    BY <1>3, <1>5, <1>6, <2>1
<1> QED
  BY <1>2, <1>3, <1>4, <1>5, <1>6

-----------------------------------------------------------------------------
(* What Run all and a brush set out to do.                                 *)

(* An order of places in which what is behind a cell comes before it.      *)
Leads(o) ==
    /\ o \in Seq(G!RunnableCells(Notebook)) /\ G!IsInjective(o)
    /\ \A i \in G!Range(o) :
          (\A x \in {i} \cup G!Upstream(Notebook, i) : x \notin G!Upstream(Notebook, x))
             => \A d \in G!Upstream(Notebook, i) \cap G!Range(o) : G!Before(o, d, i)

LEMMA TopoLeads ==
  ASSUME Typed
  PROVE  Leads(G!TopoOrder(Notebook)) /\ G!Range(G!TopoOrder(Notebook)) = G!RunnableCells(Notebook)
<1> DEFINE o == G!TopoOrder(Notebook)
<1>1. IsSheet(Notebook) /\ Placed(Notebook, o) /\ G!Range(o) = G!RunnableCells(Notebook)
  BY SheetOfDoc, TopoOrdered
<1> HIDE DEF o
<1>2. Leads(o)
  BY <1>1, UpstreamBefore DEF Placed, Leads
<1> QED
  BY <1>1, <1>2 DEF o

LEMMA BrushLeads ==
  ASSUME Typed
  PROVE  /\ Leads(G!BrushOrder(Notebook))
         /\ DependsOnFilter(Notebook) \subseteq G!Range(G!BrushOrder(Notebook))
<1> DEFINE o == G!TopoOrder(Notebook)
           r == G!BrushOrder(Notebook)
           U == G!Unrun(Notebook)
<1>1. IsSheet(Notebook) /\ Leads(o) /\ G!Range(o) = G!RunnableCells(Notebook)
  BY SheetOfDoc, TopoLeads
<1>2. r = G!Kept(o, U)
  BY DEF G!BrushOrder
<1>3. DependsOnFilter(Notebook) \subseteq U
  BY <1>1, DownstreamDepends, UnrunLeast
<1> HIDE DEF o, r, U
<1>4. o \in Seq(G!RunnableCells(Notebook)) /\ IsInjective(o)
  BY <1>1, RangeSame DEF Leads
<1>5. /\ r \in Seq(G!RunnableCells(Notebook)) /\ G!IsInjective(r)
      /\ G!Range(r) = G!Range(o) \cap U
      /\ \A c, d \in U : G!Before(o, c, d) => G!Before(r, c, d)
  BY <1>2, <1>4, KeptInjective, KeptOrder, RangeSame
<1>6. Leads(r)
  BY <1>1, <1>5 DEF Leads
<1>7. DependsOnFilter(Notebook) \subseteq G!Range(r)
  BY <1>1, <1>3, <1>5 DEF DependsOnFilter
<1> QED
  BY <1>6, <1>7 DEF r

(* The batch that is started with such an order.                           *)
LEMMA LeadsPlan ==
  ASSUME Typed, NEW o, Leads(o)
  PROVE  LET order == Named(o)
             todo == G!Kept(order, {c \in Cells : code[c] \notin Empty})
             all == {c \in Range(order) : code[c] \notin Empty}
         IN  /\ order \in Seq(Cells) /\ IsInjective(todo) /\ Range(todo) = all
             /\ \A c \in all : Query(c)
             /\ \A i \in G!Range(o) : doc[i] \in Range(order)
             /\ \A c \in all :
                  (\A d \in {c} \cup Behind(c) : d \notin Behind(d))
                     => \A d \in Behind(c) \cap all : G!Before(todo, d, c)
<1> DEFINE order == Named(o)
           S == {c \in Cells : code[c] \notin Empty}
           todo == G!Kept(order, S)
           all == {c \in Range(order) : code[c] \notin Empty}
<1>1. /\ \A i \in DOMAIN doc : doc[i] \in Cells /\ Place(doc[i]) = i
      /\ \A i, k \in DOMAIN doc : doc[i] = doc[k] => i = k
      /\ G!RunnableCells(Notebook) = {i \in DOMAIN doc : Query(doc[i])}
  BY NotebookCells
<1>2. o \in Seq(DOMAIN doc) /\ \A i \in DOMAIN o : o[i] \in DOMAIN doc /\ Query(doc[o[i]])
  <2>1. \A i \in DOMAIN o : o[i] \in G!RunnableCells(Notebook)
    BY DEF Leads
  <2>2. o \in Seq(DOMAIN doc)
    BY <1>1 DEF Leads
  <2> QED
    BY <1>1, <2>1, <2>2
<1>3. /\ order \in Seq(Cells) /\ DOMAIN order = DOMAIN o
      /\ \A i \in DOMAIN o : order[i] = doc[o[i]]
  BY <1>2, NamedTyped DEF Named
<1> HIDE DEF order
<1>4. IsInjective(order)
  BY <1>1, <1>2, <1>3 DEF Leads, G!IsInjective, IsInjective
<1>5. \A i \in G!Range(o) : doc[i] \in Range(order) /\ i \in DOMAIN doc
  BY <1>2, <1>3 DEF G!Range, Range
<1>6. \A c \in Range(order) : c \in Cells /\ Query(c) /\ Place(c) \in G!Range(o) /\ doc[Place(c)] = c
  <2>1. ASSUME NEW c \in Range(order)
        PROVE  c \in Cells /\ Query(c) /\ Place(c) \in G!Range(o) /\ doc[Place(c)] = c
    <3>1. PICK i \in DOMAIN o : c = doc[o[i]]
      BY <1>3 DEF Range
    <3>2. Place(c) = o[i]
      BY <1>1, <1>2, <3>1
    <3> QED
      BY <1>1, <1>2, <3>1, <3>2 DEF G!Range
  <2> QED
    BY <2>1
<1>7. ASSUME NEW i, NEW k, G!Before(o, i, k) PROVE G!Before(order, doc[i], doc[k])
  <2>1. PICK x, y \in DOMAIN o : x < y /\ o[x] = i /\ o[y] = k
    BY <1>7 DEF G!Before
  <2> QED
    BY <1>3, <2>1 DEF G!Before
<1>8. /\ IsInjective(todo) /\ Range(todo) = Range(order) \cap S
      /\ \A c, d \in S : G!Before(order, c, d) => G!Before(todo, c, d)
  BY <1>3, <1>4, KeptInjective, KeptOrder
<1>9. Range(todo) = all
  BY <1>6, <1>8
<1> HIDE DEF todo
<1>10. ASSUME NEW c \in all, \A d \in {c} \cup Behind(c) : d \notin Behind(d),
             NEW d \in Behind(c), d \in all
       PROVE  G!Before(todo, d, c)
  <2> DEFINE i == Place(c)
             U(x) == G!Upstream(Notebook, x)
  <2>1. i \in G!Range(o) /\ doc[i] = c /\ Behind(c) = {doc[x] : x \in U(i)}
    BY <1>6 DEF Behind
  <2>2. \A x \in DOMAIN doc : Behind(doc[x]) = {doc[y] : y \in U(x)}
    BY <1>1 DEF Behind
  <2>3. \A x \in DOMAIN doc : U(x) \in SUBSET DOMAIN doc
    <3>1. IsSheet(Notebook)
      BY SheetOfDoc
    <3> QED
      BY <1>1, <3>1, UpstreamLeast
  <2>4. i \in DOMAIN doc
    BY <1>5, <2>1
  <2> HIDE DEF U, i
  <2>5. ASSUME NEW x \in {i} \cup U(i) PROVE x \notin U(x)
    <3>1. x \in DOMAIN doc /\ doc[x] \in {c} \cup Behind(c)
      BY <2>1, <2>3, <2>4
    <3>2. doc[x] \notin Behind(doc[x])
      BY <1>10, <3>1
    <3> QED
      BY <2>2, <3>1, <3>2
  <2>6. PICK x \in U(i) : d = doc[x]
    BY <2>1
  <2>7. x \in G!Range(o)
    <3>1. x \in DOMAIN doc /\ d \in Range(order)
      BY <2>3, <2>4, <2>6, <1>10
    <3> QED
      BY <1>1, <1>6, <2>6, <3>1
  <2>8. G!Before(o, x, i)
    BY <2>1, <2>5, <2>6, <2>7 DEF Leads, U
  <2>9. G!Before(order, d, c)
    BY <1>7, <2>1, <2>6, <2>8
  <2> QED
    BY <1>6, <1>8, <1>10, <2>9
<1> QED
  BY <1>3, <1>5, <1>6, <1>8, <1>9, <1>10 DEF order, todo

LEMMA FilterBehind ==
  ASSUME Typed, NEW c, Query(c), NEW d \in {c} \cup Behind(c), code[d] \in Crossed
  PROVE  Place(c) \in DependsOnFilter(Notebook)
<1>1. Place(c) \in G!RunnableCells(Notebook) /\ doc[Place(c)] = c
  BY NotebookCells DEF Query
<1>2. IsSheet(Notebook) /\ G!Upstream(Notebook, Place(c)) \in SUBSET G!RunnableCells(Notebook)
  BY SheetOfDoc, UpstreamLeast
<1>3. PICK x \in {Place(c)} \cup G!Upstream(Notebook, Place(c)) : doc[x] = d
  BY <1>1 DEF Behind
<1>4. Notebook[x].filter
  <2>1. x \in DOMAIN doc /\ Notebook[x] = Cell(d)
    BY <1>1, <1>2, <1>3, NotebookCells
  <2>2. Cell(d).filter = (code[d] \in Crossed)
    BY DEF Cell
  <2> QED
    BY <2>1, <2>2
<1> QED
  BY <1>1, <1>3, <1>4 DEF DependsOnFilter

(* What the check before the run of a query rules out.                     *)
LEMMA IssueBehind ==
  ASSUME Typed, NEW c, Query(c), G!RefIssue(Notebook, Place(c)) = "none"
  PROVE  /\ \A d \in {c} \cup Behind(c) : d \notin Behind(d)
         /\ \A d \in Resolved(code[c]) : code[d] \notin Direct
<1> DEFINE i == Place(c)
           U(x) == G!Upstream(Notebook, x)
<1>1. i \in G!RunnableCells(Notebook) /\ doc[i] = c /\ i \in DOMAIN doc
  BY NotebookCells DEF Query
<1>2. IsSheet(Notebook) /\ \A x \in DOMAIN doc : U(x) \in SUBSET DOMAIN doc
  BY SheetOfDoc, UpstreamLeast, NotebookCells
<1>3. G!Clean(Notebook, i)
  BY <1>1, <1>2, IssueClean
<1>4. \A x \in DOMAIN doc : Place(doc[x]) = x /\ Behind(doc[x]) = {doc[y] : y \in U(x)}
  BY NotebookCells DEF Behind
<1>5. \A x, y \in DOMAIN doc : doc[x] = doc[y] => x = y
  BY NotebookCells
<1>6. \A x \in {i} \cup U(i) : x \notin U(x)
  BY <1>3 DEF G!Clean
<1>7. G!Reads(Notebook, i) = {Place(d) : d \in Resolved(code[c])}
  <2>1. Query(doc[i])
    BY <1>1
  <2> QED
    BY <1>1, <2>1, ReadsAre
<1>8. G!Reads(Notebook, i) \subseteq U(i)
  BY <1>2, UpstreamLeast
<1>9. \A x \in G!Deps(Notebook, i) : ~Notebook[x].direct
  BY <1>3 DEF G!Clean
<1> HIDE DEF i, U
<1>10. ASSUME NEW d \in {c} \cup Behind(c) PROVE d \notin Behind(d)
  <2>1. PICK x \in {i} \cup U(i) : d = doc[x] /\ x \in DOMAIN doc
    BY <1>1, <1>2, <1>4
  <2> QED
    BY <1>2, <1>4, <1>5, <1>6, <2>1
<1>11. ASSUME NEW d \in Resolved(code[c]) PROVE code[d] \notin Direct
  <2>1. Place(d) \in G!Reads(Notebook, i) /\ Place(d) # i
    BY <1>6, <1>7, <1>8
  <2>2. ~Notebook[Place(d)].direct
    BY <1>9, <2>1 DEF G!Deps
  <2>3. Place(d) \in DOMAIN doc /\ doc[Place(d)] = d
    BY NotebookCells DEF Resolved
  <2>4. Notebook[Place(d)] = Cell(d)
    BY <2>3, NotebookCells
  <2>5. Cell(d).direct = (code[d] \in Direct)
    BY DEF Cell
  <2> QED
    BY <2>2, <2>4, <2>5
<1> QED
  BY <1>10, <1>11

-----------------------------------------------------------------------------
(* Steps in the notebook that a batch was started for.                     *)

(* The run j of a query returns its rows.                                  *)
Returns(j, c) ==
    /\ Sql(j, c) /\ ~jobs[j].aborted /\ jobs[j].ok /\ Answered(j)
    /\ jobs[j].step \in {"direct", "select"} /\ shown'[c] = Result(j)

(* The run i goes on, and may have had its rows.                           *)
Persists(i, c) ==
    /\ Sql(i, c) /\ ViewOf(i)' = ViewOf(i)
    /\ ~jobs'[i].aborted => ~jobs[i].aborted
    /\ Creating(i, c)' => Creating(i, c)
    /\ jobs'[i].step = "select" /\ Answered(i)' /\ jobs'[i].ok /\ ~jobs'[i].aborted
         => \/ /\ jobs[i].step = "select" /\ Answered(i) /\ jobs[i].ok
               /\ jobs'[i].rows = jobs[i].rows
            \/ jobs'[i].rows = Rows({c}) /\ rel[c] = ViewOf(i)

Begins(i, c) == ViewOf(i)' = View(c) /\ jobs'[i].step \in {"create", "direct"}

(* What a step may do to the queries.                                      *)
Effects ==
    /\ \A c \in Cells, i \in Jobs : Query(c) /\ Sql(i, c)' => Persists(i, c) \/ Begins(i, c)
    /\ \A c \in Cells : Query(c) =>
          /\ rel'[c] = rel[c] \/ \E j \in Jobs : Creating(j, c) /\ rel'[c] = ViewOf(j)
          /\ shown'[c] = shown[c] \/ shown'[c] = NoRows \/ \E j \in Jobs : Returns(j, c)

(* The batch has done more, if anything: one run of it has returned.       *)
Furthers(b) ==
    /\ batches'[b].order = batches[b].order /\ batches'[b].brush = batches[b].brush
    /\ batches'[b].todo = batches[b].todo
    /\ batches'[b].state = "success" => batches[b].todo = <<>>
    /\ \A c \in Done(b) : c \in Done(b)'
    /\ \A c \in Taken(b) : c \in Done(b)' /\ c \notin Done(b) =>
          \E j \in Jobs :
             /\ Returns(j, c)
             /\ jobs[j].step = "select" => rel'[c] = ViewOf(j) /\ \A i \in Jobs : ~Creating(i, c)'

LEMMA PlanSame ==
  ASSUME Basic, SameNotebook, NEW b \in Batches, Planned(b), Covered(b),
         batches'[b].order = batches[b].order, batches'[b].brush = batches[b].brush
  PROVE  /\ Covered(b)'
         /\ batches'[b].todo = batches[b].todo
              /\ (batches'[b].state = "success" => batches[b].todo = <<>>) => Planned(b)'
<1>1. /\ UNCHANGED <<doc, inputs, code, sel>> /\ Typed
      /\ \A c : Query(c)' <=> Query(c)
      /\ \A c : Query(c) => Behind(c)' = Behind(c) /\ \A d \in Behind(c) : Query(d)
  BY NotebookSame DEF SameNotebook, Basic
<1>2. Covered(b)'
  BY <1>1 DEF Covered
<1>3. ASSUME batches'[b].todo = batches[b].todo,
             batches'[b].state = "success" => batches[b].todo = <<>>
      PROVE  Planned(b)'
  <2> DEFINE todo == batches[b].todo
  <2>1. /\ IsInjective(todo) /\ Range(todo) \subseteq batches[b].order
        /\ \A c \in batches[b].order : Query(c)
        /\ \A c \in Range(todo) :
              (\A d \in {c} \cup Behind(c) : d \notin Behind(d))
                 => \A d \in Behind(c) \cap Range(todo) : G!Before(todo, d, c)
    BY DEF Planned
  <2> HIDE DEF todo
  <2>2. \A c \in Range(todo) : Behind(c)' = Behind(c) /\ \A d \in {c} \cup Behind(c) : Behind(d)' = Behind(d)
    BY <1>1, <2>1
  <2>3. \A c \in Range(todo) :
              (\A d \in {c} \cup Behind(c)' : d \notin Behind(d)')
                 => \A d \in Behind(c)' \cap Range(todo) : G!Before(todo, d, c)
    BY <2>1, <2>2
  <2>4. batches'[b].todo = todo /\ (batches'[b].state = "success" => todo = <<>>)
    BY <1>3 DEF todo
  <2> QED
    BY <1>1, <2>1, <2>3, <2>4 DEF Planned
<1> QED
  BY <1>2, <1>3

LEMMA FineSame ==
  ASSUME Basic, SameNotebook, NEW b \in Batches, NEW c, Query(c), NEW rows, Fine(b, c, rows),
         batches'[b].brush = batches[b].brush
  PROVE  IF batches'[b].brush
         THEN \A x \in rows : x[1] \in {c} \cup Behind(c)' /\ x[2].code = code'[x[1]]
                                => x[2].sel = Selected(code[x[1]])'
         ELSE (\A d \in Behind(c)' : code'[d] \notin Empty) => rows = Fresh(c)'
<1>1. /\ code' = code /\ Behind(c)' = Behind(c) /\ Fresh(c)' = Fresh(c)
      /\ \A x : Selected(code[x[1]])' = Selected(code[x[1]])
  <2>1. code' = code /\ sel' = sel
    BY DEF SameNotebook
  <2> QED
    BY <2>1, NotebookSame DEF Basic, Selected
<1> QED
  BY <1>1 DEF Fine

LEMMA UpheldFurther ==
  ASSUME Basic, SameNotebook, Effects, NEW b \in Batches, Upheld(b), Furthers(b), Tidy
  PROVE  Upheld(b)'
<1>1. /\ UNCHANGED <<doc, inputs, code, sel>> /\ Typed /\ Stepped
      /\ \A c : Query(c)' <=> Query(c)
      /\ \A c : Query(c) => Behind(c)' = Behind(c)
      /\ \A c \in Cells : View(c)' = View(c)
      /\ \A k : Resolved(k)' = Resolved(k)
  BY NotebookSame DEF SameNotebook, Basic
<1>2. Planned(b)' /\ Covered(b)'
  BY PlanSame DEF Upheld, Furthers
<1>3. Taken(b)' = Taken(b) /\ \A c \in Taken(b) : Query(c) /\ c \in Cells
  <2>1. Taken(b)' = Taken(b)
    BY DEF Furthers, Taken
  <2>2. \A c \in Taken(b) : Query(c)
    BY DEF Upheld, Planned, Taken
  <2> QED
    BY <1>1, <2>1, <2>2, NotebookCells DEF Query
<1>4. Begun(b)'
  <2> SUFFICES ASSUME NEW c \in Taken(b)
               PROVE  /\ Behind(c)' \cap batches'[b].order \subseteq Done(b)'
                      /\ \A d \in Resolved(code[c]) : code[d] \notin Direct
    BY <1>1, <1>3 DEF Begun, Resolved, Listed
  <2> QED
    BY <1>1, <1>3 DEF Upheld, Begun, Furthers
<1>5. \A c \in Done(b)' : c \in Taken(b)
  BY <1>3 DEF Done
<1>6. ASSUME NEW c \in Taken(b), NEW j \in Jobs, Returns(j, c)
      PROVE  /\ ViewOf(j) = View(c) /\ shown'[c] = Result(j) /\ jobs[j].code = code[c]
             /\ jobs[j].step = "direct" => code[c] \in Direct
             /\ code[c] \notin Direct => Fine(b, c, Result(j).rows) /\ jobs[j].step = "select"
  <2>1. ViewOf(j) = View(c) /\ (jobs[j].step = "select" => Fine(b, c, jobs[j].rows))
    BY <1>6 DEF Upheld, Queried, Returns
  <2>2. jobs[j].code = code[c]
    BY <2>1 DEF ViewOf, View
  <2>3. jobs[j].step = "direct" <=> code[c] \in Direct
    BY <1>1, <1>6, <2>2 DEF Stepped, StepsOf, Returns, Sql
  <2>4. Result(j).rows = jobs[j].rows
    BY DEF Result
  <2> QED
    BY <1>6, <2>1, <2>2, <2>3, <2>4 DEF Returns
<1>7. Viewed(b)'
  <2> SUFFICES ASSUME NEW c \in Done(b)', code[c] \notin Direct
               PROVE  /\ rel'[c] = View(c)
                      /\ \A i \in Jobs : Creating(i, c)' => ViewOf(i)' = View(c)
    BY <1>1, <1>3, <1>5 DEF Viewed
  <2>1. c \in Taken(b) /\ Query(c) /\ c \in Cells
    BY <1>3, <1>5
  <2>2. CASE c \in Done(b)
    <3>1. rel[c] = View(c) /\ \A i \in Jobs : Creating(i, c) => ViewOf(i) = View(c)
      BY <2>2 DEF Upheld, Viewed
    <3>2. rel'[c] = View(c)
      BY <2>1, <3>1 DEF Effects
    <3>3. ASSUME NEW i \in Jobs, Creating(i, c)' PROVE ViewOf(i)' = View(c)
      <4>1. Persists(i, c) \/ Begins(i, c)
        BY <2>1, <3>3 DEF Effects, Creating
      <4> QED
        BY <3>1, <3>3, <4>1 DEF Persists, Begins
    <3> QED
      BY <3>2, <3>3
  <2>3. CASE c \notin Done(b)
    <3>1. PICK j \in Jobs :
             /\ Returns(j, c)
             /\ jobs[j].step = "select" => rel'[c] = ViewOf(j) /\ \A i \in Jobs : ~Creating(i, c)'
      BY <2>1, <2>3 DEF Furthers
    <3> QED
      BY <1>6, <2>1, <3>1
  <2> QED
    BY <2>2, <2>3
<1>8. Queried(b)'
  <2> SUFFICES ASSUME NEW c \in Taken(b), NEW i \in Jobs, Sql(i, c)', ~jobs'[i].aborted
               PROVE  /\ ViewOf(i)' = View(c)'
                      /\ jobs'[i].step = "select" /\ Answered(i)' /\ jobs'[i].ok
                           => Fine(b, c, jobs[i].rows)'
    BY <1>3 DEF Queried
  <2>1. Query(c) /\ c \in Cells /\ View(c)' = View(c)
    BY <1>1, <1>3
  <2>2. CASE Begins(i, c)
    BY <2>1, <2>2 DEF Begins
  <2>3. CASE Persists(i, c)
    <3>1. Sql(i, c) /\ ~jobs[i].aborted /\ ViewOf(i)' = ViewOf(i)
      BY <2>3 DEF Persists
    <3>2. /\ ViewOf(i) = View(c)
          /\ jobs[i].step = "select" /\ Answered(i) /\ jobs[i].ok => Fine(b, c, jobs[i].rows)
      BY <3>1 DEF Upheld, Queried
    <3>3. ASSUME jobs'[i].step = "select", Answered(i)', jobs'[i].ok
          PROVE  Fine(b, c, jobs[i].rows)'
      <4> DEFINE rows == jobs'[i].rows
      <4>1. Fine(b, c, rows)
        <5>1. CASE jobs[i].step = "select" /\ Answered(i) /\ jobs[i].ok /\ rows = jobs[i].rows
          BY <3>2, <5>1
        <5>2. CASE rows = Rows({c}) /\ rel[c] = ViewOf(i)
          BY <3>2, <5>2, FineRows DEF Upheld
        <5> QED
          BY <2>3, <3>3, <5>1, <5>2 DEF Persists
      <4>2. batches'[b].brush = batches[b].brush
        BY DEF Furthers
      <4> HIDE DEF rows
      <4>3. IF batches'[b].brush
            THEN \A x \in rows : x[1] \in {c} \cup Behind(c)' /\ x[2].code = code'[x[1]]
                                   => x[2].sel = Selected(code[x[1]])'
            ELSE (\A d \in Behind(c)' : code'[d] \notin Empty) => rows = Fresh(c)'
        BY <2>1, <4>1, <4>2, FineSame
      <4> QED
        BY <4>3 DEF Fine, rows
    <3> QED
      BY <2>1, <3>1, <3>2, <3>3
  <2> QED
    BY <2>1, <2>2, <2>3 DEF Effects
<1>9. ShownBy(b)'
  <2> SUFFICES ASSUME NEW c \in Done(b)', shown'[c] # NoRows
               PROVE  /\ shown'[c].code = code[c]
                      /\ code[c] \notin Direct => Fine(b, c, shown[c].rows)'
    BY <1>1 DEF ShownBy
  <2>1. c \in Taken(b) /\ Query(c) /\ c \in Cells
    BY <1>3, <1>5
  <2> DEFINE rows == shown'[c].rows
  <2>2. shown'[c].code = code[c] /\ (code[c] \notin Direct => Fine(b, c, rows))
    <3>1. CASE \E j \in Jobs : Returns(j, c)
      <4>1. PICK j \in Jobs : Returns(j, c)
        BY <3>1
      <4>2. Result(j).code = jobs[j].code
        BY DEF Result
      <4> QED
        BY <1>6, <2>1, <4>1, <4>2
    <3>2. CASE c \in Done(b) /\ shown'[c] = shown[c]
      BY <3>2 DEF Upheld, ShownBy
    <3> QED
      BY <2>1, <3>1, <3>2 DEF Effects, Furthers
  <2>3. batches'[b].brush = batches[b].brush
    BY DEF Furthers
  <2> HIDE DEF rows
  <2>4. Fine(b, c, rows) =>
          IF batches'[b].brush
          THEN \A x \in rows : x[1] \in {c} \cup Behind(c)' /\ x[2].code = code'[x[1]]
                                 => x[2].sel = Selected(code[x[1]])'
          ELSE (\A d \in Behind(c)' : code'[d] \notin Empty) => rows = Fresh(c)'
    BY <2>1, <2>3, FineSame
  <2> QED
    BY <2>2, <2>4 DEF Fine, rows
<1> QED
  BY <1>2, <1>4, <1>7, <1>8, <1>9 DEF Upheld

-----------------------------------------------------------------------------
(* What the steps do to the queries, and to the order of their views.      *)

LEMMA PersistsBeside ==
  ASSUME NEW S, NEW j, Others(S, j), Beside(j), NEW i \in Jobs, i # j, NEW c, Sql(i, c)'
  PROVE  Persists(i, c)
<1>1. /\ Alike(jobs'[i], jobs[i]) /\ (~jobs'[i].aborted => ~jobs[i].aborted)
      /\ Asked(i)' <=> Asked(i)
      /\ Answered(i)' <=> Answered(i)
  BY DEF Others, Beside
<1> QED
  BY <1>1 DEF Alike, Persists, Sql, Creating, ViewOf

LEMMA EffectsUser ==
  ASSUME Basic, SameNotebook, UserSteps
  PROVE  Effects
<1>1. Typed /\ None \notin Jobs /\ UNCHANGED <<doc, inputs>>
  BY RecordsAre DEF Basic, SameNotebook
<1>2. ASSUME NEW S, NEW j, Others(S, j), Beside(j), UNCHANGED rel,
             \A c \in Cells : shown'[c] \in {shown[c], NoRows},
             \A c \in Cells : Query(c) /\ j \in Jobs /\ Sql(j, c)' => Begins(j, c)
      PROVE  Effects
  BY <1>2, PersistsBeside DEF Effects
<1>3. CASE Idle \/ Quiet \/ \E c \in Cells : Refuses(c)
  <2>1. Stays /\ UNCHANGED <<rel, jobs>>
    BY <1>3 DEF Idle, Quiet, Still, Refuses
  <2>2. Others({}, None) /\ Beside(None)
    BY <2>1, BesideWhen DEF Others, Alike
  <2>3. \A c \in Cells : shown'[c] \in {shown[c], NoRows}
    BY <1>1, <1>3 DEF Idle, Quiet, Still, Refuses, Typed
  <2> QED
    BY <1>1, <1>2, <2>1, <2>2, <2>3
<1>4. ASSUME NEW c \in Cells, Gives(c) PROVE Effects
  <2>1. Stays /\ UNCHANGED rel /\ Others(Controllers(c), None)
    BY <1>4 DEF Gives
  <2>2. \A d \in Cells : shown'[d] \in {shown[d], NoRows}
    BY <1>1, <1>4 DEF Gives, Typed
  <2> QED
    BY <1>1, <1>2, <2>1, <2>2, BesideWhen
<1>5. ASSUME NEW S \in SUBSET Jobs, Escapes(S) PROVE Effects
  <2>1. Stays /\ UNCHANGED <<rel, shown>> /\ Others(S, None)
    BY <1>5 DEF Escapes
  <2> QED
    BY <1>1, <1>2, <2>1, BesideWhen
<1>6. ASSUME NEW c \in Cells, NEW j \in Jobs, Starts(c, j) PROVE Effects
  <2>1. Posts(j) /\ UNCHANGED <<rel, shown>> /\ Others(Controllers(c), j)
    BY <1>6 DEF Starts
  <2>2. ASSUME NEW d \in Cells, Query(d), Sql(j, d)' PROVE Begins(j, d)
    BY <1>6, <2>2 DEF Starts, Sql, Begins, ViewOf, View, Query
  <2> QED
    BY <1>2, <2>1, <2>2, BesideWhen
<1>7. ASSUME NEW c \in Cells, NEW j \in Jobs, Deletes(c, j) PROVE FALSE
  BY <1>1, <1>7 DEF Deletes, Listed
<1>8. ASSUME NEW j \in Jobs, Leaves(j) PROVE Effects
  <2>1. /\ Posts(j) /\ UNCHANGED <<rel, shown>>
        /\ Others(UNION {Controllers(c) : c \in Cells}, j) /\ jobs'[j].kind = "leave"
    BY <1>8 DEF Leaves
  <2>2. \A c \in Cells : ~Sql(j, c)'
    BY <2>1 DEF Sql
  <2> QED
    BY <1>2, <2>1, <2>2, BesideWhen
<1> QED
  BY <1>3, <1>4, <1>5, <1>6, <1>7, <1>8 DEF UserSteps

LEMMA EffectsJob ==
  ASSUME Basic, Controls, Sqls, ~Leaving, NEW j \in Jobs, JobSteps(j)
  PROVE  Effects
<1>1. Typed /\ StepsOf(jobs[j]) /\ \A c : Query(c) => c \notin DOMAIN inputs /\ Listed(c)
  BY DEF Basic, Stepped, Query
<1>2. ASSUME Others({}, j), Beside(j),
             \A c \in Cells : Query(c) /\ Sql(j, c)' => Persists(j, c),
             \A c \in Cells : Query(c) =>
                /\ rel'[c] = rel[c] \/ \E i \in Jobs : Creating(i, c) /\ rel'[c] = ViewOf(i)
                /\ shown'[c] = shown[c] \/ shown'[c] = NoRows \/ \E i \in Jobs : Returns(i, c)
      PROVE  Effects
  BY <1>2, PersistsBeside DEF Effects
<1>3. CASE Ran(j)
  <2>1. /\ Executes(j) /\ Others({}, j) /\ Beside(j) /\ UNCHANGED shown
        /\ jobs[j].cell \in Cells /\ Asked(j)
        /\ jobs'[j].kind = jobs[j].kind /\ jobs'[j].cell = jobs[j].cell
        /\ jobs'[j].step = jobs[j].step /\ jobs'[j].aborted = jobs[j].aborted
        /\ \A c \in Cells : c # jobs[j].cell => rel'[c] = rel[c]
        /\ jobs[j].kind = "sql" /\ jobs[j].step = "create" /\ jobs'[j].ok
              => rel'[jobs[j].cell] = ViewOf(j)
        /\ \/ rel'[jobs[j].cell] = rel[jobs[j].cell]
           \/ jobs[j].kind = "sql" /\ jobs[j].step = "create"
           \/ jobs[j].kind = "lang" /\ jobs[j].step \in {"table", "dropView", "dropTable"}
           \/ jobs[j].kind \in {"drop", "leave"}
    BY <1>3, EffectIs
  <2>2. /\ ~Asked(j)' /\ ViewOf(j)' = ViewOf(j)
        /\ jobs'[j].ok /\ jobs[j].step = "select" => jobs'[j].rows = Rows({jobs[j].cell})
    BY <1>3 DEF Ran, Executes, ViewOf
  <2>3. jobs[j].step = "create" /\ ~jobs'[j].ok => rel'[jobs[j].cell] = rel[jobs[j].cell]
    BY <1>1, <1>3 DEF Ran, Effect, Typed
  <2>4. ASSUME NEW c \in Cells, Query(c), Sql(j, c)' PROVE Persists(j, c)
    <3>1. Sql(j, c) /\ jobs[j].cell = c
      BY <2>1, <2>4 DEF Sql
    <3>2. jobs[j].step = "select" /\ ~jobs[j].aborted => rel[c] = ViewOf(j)
      BY <3>1 DEF Sqls, SqlCreated
    <3> QED
      BY <2>1, <2>2, <3>1, <3>2 DEF Persists, Creating
  <2>5. ASSUME NEW c \in Cells, Query(c)
        PROVE  rel'[c] = rel[c] \/ \E i \in Jobs : Creating(i, c) /\ rel'[c] = ViewOf(i)
    <3>1. jobs[j].kind = "lang" => jobs[j].cell # c
      BY <1>1, <2>5 DEF StepsOf
    <3>2. jobs[j].kind \in {"drop", "leave"} => jobs[j].cell # c
      BY <1>1, <2>5 DEF Controls, Parting, Leaving
    <3> QED
      BY <2>1, <2>3, <3>1, <3>2 DEF Creating, Sql
  <2> QED
    BY <1>2, <2>1, <2>4, <2>5
<1>4. CASE Selects(j)
  <2>1. /\ Others({}, j) /\ Reposts(j) /\ UNCHANGED <<shown, rel>>
        /\ jobs'[j].step = "select" /\ jobs'[j].kind = jobs[j].kind
        /\ jobs'[j].cell = jobs[j].cell /\ jobs'[j].aborted = jobs[j].aborted
        /\ ViewOf(j)' = ViewOf(j)
    BY <1>4 DEF Selects, Advances, ViewOf
  <2>2. ~Answered(j)'
    BY <2>1 DEF Reposts
  <2>3. \A c \in Cells : Sql(j, c)' => Persists(j, c)
    BY <2>1, <2>2 DEF Persists, Sql, Creating
  <2> QED
    BY <1>2, <2>1, <2>3, BesideWhen
<1>5. CASE \/ Loads(j) \/ Buffers(j) \/ Drops(j) \/ Asks(j) \/ \E s \in LangSteps : Follows(j, s)
           \/ Proceeds(j) \/ Dropped(j) \/ Recorded(j) \/ Departs(j)
  <2>1. /\ Others({}, j) /\ UNCHANGED <<rel, shown>> /\ (Takes(j) \/ Reposts(j) \/ Posts(j))
        /\ jobs'[j].kind # "sql"
    BY <1>5 DEF Loads, Buffers, Drops, Asks, Follows, Advances, Proceeds, Dropped, Recorded,
       Departs, Frees, Free
  <2>2. \A c \in Cells : ~Sql(j, c)'
    BY <2>1 DEF Sql
  <2> QED
    BY <1>2, <2>1, <2>2, BesideWhen
<1>6. CASE Fails(j)
  <2>1. Others({}, j) /\ UNCHANGED rel /\ Takes(j) /\ jobs'[j].kind # "sql"
    BY <1>6 DEF Fails, Frees, Free
  <2>2. \A c \in Cells : ~Sql(j, c)' /\ shown'[c] \in {shown[c], NoRows}
    BY <1>1, <1>6, <2>1 DEF Sql, Fails, Typed
  <2> QED
    BY <1>2, <2>1, <2>2, BesideWhen
<1>7. CASE Succeeds(j)
  <2>1. /\ Others({}, j) /\ UNCHANGED rel /\ (Takes(j) \/ Reposts(j)) /\ jobs'[j].kind # "sql"
        /\ jobs[j].kind = "sql" /\ jobs[j].ok /\ ~jobs[j].aborted
        /\ jobs[j].step \in {"direct", "select"}
        /\ shown' = IF IsLatest(j) THEN [shown EXCEPT ![jobs[j].cell] = Result(j)] ELSE shown
    BY <1>7 DEF Succeeds, Frees, Free
  <2>2. Answered(j)
    BY <2>1 DEF Takes, Reposts, First
  <2>3. \A c \in Cells : ~Sql(j, c)' /\ (shown'[c] = shown[c] \/ Returns(j, c))
    BY <1>1, <2>1, <2>2 DEF Sql, Returns, Typed
  <2> QED
    BY <1>2, <2>1, <2>3, BesideWhen
<1>8. ASSUME NEW o \in {"success", "error"}, Finishes(j, o) PROVE Effects
  <2>1. /\ Others({}, j) /\ UNCHANGED rel /\ (Takes(j) \/ Stays) /\ jobs'[j].kind # "sql"
        /\ jobs[j].kind = "lang"
    BY <1>8 DEF Finishes, Frees, Free
  <2>2. ASSUME NEW c \in Cells, Query(c) PROVE shown'[c] = shown[c]
    <3>1. jobs[j].cell # c
      BY <1>1, <2>1, <2>2 DEF StepsOf
    <3> QED
      BY <1>1, <1>8, <3>1 DEF Finishes, Typed
  <2>3. \A c \in Cells : ~Sql(j, c)'
    BY <2>1 DEF Sql
  <2> QED
    BY <1>2, <2>1, <2>2, <2>3, BesideWhen
<1> QED
  BY <1>3, <1>4, <1>5, <1>6, <1>7, <1>8 DEF JobSteps

(* Views stay tidy.                                                        *)
LEMMA TidyStays ==
  ASSUME Basic, Tidy, UserSteps \/ \E j \in Jobs : JobSteps(j)
  PROVE  Tidy'
<1>1. /\ Typed /\ Stepped /\ None \notin Jobs /\ None \notin Crossed \cup Direct
      /\ UNCHANGED inputs
  <2>1. None \notin Crossed \cup Direct
    BY BoundsAssumption, CodesAssumption
  <2>2. UNCHANGED inputs
    <3>1. CASE UserSteps
      <4>1. CASE Idle \/ Quiet \/ \E c \in Cells : Refuses(c) \/ Gives(c)
        BY <4>1 DEF Idle, Quiet, Still, Refuses, Gives
      <4>2. CASE \E c \in Cells, j \in Jobs : Starts(c, j) \/ Deletes(c, j)
        BY <4>2 DEF Starts, Deletes
      <4>3. CASE (\E S \in SUBSET Jobs : Escapes(S)) \/ \E j \in Jobs : Leaves(j)
        BY <4>3 DEF Escapes, Leaves
      <4> QED
        BY <3>1, <4>1, <4>2, <4>3 DEF UserSteps
    <3>2. ASSUME NEW j \in Jobs, JobSteps(j) PROVE UNCHANGED inputs
      <4>1. CASE Selects(j) \/ (\E s \in LangSteps : Follows(j, s)) \/ Loads(j) \/ Buffers(j)
                   \/ Drops(j) \/ Asks(j)
        BY <4>1 DEF Selects, Follows, Loads, Buffers, Drops, Asks, Advances
      <4>2. CASE Ran(j) \/ Proceeds(j) \/ Dropped(j) \/ Recorded(j) \/ Departs(j)
        BY <4>2 DEF Ran, Proceeds, Dropped, Recorded, Departs
      <4>3. CASE Fails(j) \/ Succeeds(j) \/ (\E o \in {"success", "error"} : Finishes(j, o))
        BY <4>3 DEF Fails, Succeeds, Finishes
      <4> QED
        BY <3>2, <4>1, <4>2, <4>3 DEF JobSteps
    <3> QED
      BY <3>1, <3>2
  <2> QED
    BY <2>1, <2>2, RecordsAre DEF Basic
<1>2. ASSUME NEW S, NEW j, Others(S, j), UNCHANGED rel,
             j \in Jobs /\ jobs'[j].kind = "sql" /\ jobs'[j].code \notin Crossed => jobs'[j].sel = 0
      PROVE  Tidy'
  <2>1. \A i \in Jobs : jobs'[i].kind = "sql" /\ jobs'[i].code \notin Crossed => jobs'[i].sel = 0
    BY <1>2 DEF Tidy, Others, Alike
  <2> QED
    BY <1>1, <1>2, <2>1 DEF Tidy
<1>3. ASSUME NEW j \in Jobs, Others({}, j), UNCHANGED rel,
             \/ jobs'[j].kind # "sql"
             \/ jobs[j].kind = "sql" /\ jobs'[j].code = jobs[j].code /\ jobs'[j].sel = jobs[j].sel
      PROVE  Tidy'
  BY <1>2, <1>3 DEF Tidy
<1>4. CASE Idle \/ Quiet \/ \E c \in Cells : Refuses(c)
  <2>1. UNCHANGED <<rel, jobs>>
    BY <1>4 DEF Idle, Quiet, Still, Refuses
  <2> QED
    BY <1>1, <2>1 DEF Tidy
<1>5. CASE \/ \E c \in Cells : Gives(c)
           \/ \E S \in SUBSET Jobs : Escapes(S)
  <2>1. UNCHANGED rel /\ \E S : Others(S, None)
    BY <1>5 DEF Gives, Escapes
  <2> QED
    BY <1>1, <1>2, <2>1
<1>6. ASSUME NEW c \in Cells, NEW j \in Jobs, Starts(c, j) PROVE Tidy'
  <2>1. UNCHANGED rel /\ Others(Controllers(c), j)
    BY <1>6 DEF Starts
  <2>2. jobs'[j].kind = "sql" /\ jobs'[j].code \notin Crossed => jobs'[j].sel = 0
    BY <1>6 DEF Starts, Selected
  <2> QED
    BY <1>2, <2>1, <2>2
<1>7. ASSUME NEW j \in Jobs, Leaves(j) \/ \E c \in Cells : Deletes(c, j) PROVE Tidy'
  <2>1. UNCHANGED rel /\ (\E S : Others(S, j)) /\ jobs'[j].kind # "sql"
    BY <1>7 DEF Deletes, Leaves
  <2> QED
    BY <1>2, <2>1
<1>8. ASSUME NEW j \in Jobs, JobSteps(j) PROVE Tidy'
  <2>1. CASE Ran(j)
    <3>1. /\ StepsOf(jobs[j]) /\ Others({}, j) /\ jobs[j].cell \in Cells
          /\ jobs'[j].kind = jobs[j].kind /\ jobs'[j].code = jobs[j].code
          /\ jobs'[j].sel = jobs[j].sel
          /\ rel' = [rel EXCEPT ![jobs[j].cell] = Effect(jobs[j], jobs'[j].ok)]
      BY <1>1, <2>1 DEF Ran, Stepped
    <3>2. \A i \in Jobs : jobs'[i].kind = "sql" /\ jobs'[i].code \notin Crossed => jobs'[i].sel = 0
      BY <3>1 DEF Tidy, Others, Alike
    <3>3. /\ jobs[j].kind = "free" => jobs[j].step = "none"
          /\ jobs[j].step = "create" => jobs[j].kind = "sql"
          /\ jobs[j].step = "table" => jobs[j].kind = "lang"
      BY <1>1, <3>1 DEF StepsOf, LangSteps, Typed, JobRecords, Kinds
    <3>4. LET r == Effect(jobs[j], jobs'[j].ok)
          IN  \/ r = rel[jobs[j].cell] \/ r = NoRelation
              \/ /\ jobs[j].kind = "sql" /\ jobs[j].step = "create"
                 /\ r.code = jobs[j].code /\ r.sel = jobs[j].sel
              \/ jobs[j].kind = "lang" /\ r.sel = 0
      BY <3>3 DEF Effect
    <3>5. jobs[j].kind = "sql" /\ jobs[j].step = "create" => jobs[j].code \notin Direct
      BY <3>1 DEF StepsOf
    <3>6. jobs[j].kind = "lang" => jobs[j].cell \in DOMAIN inputs
      BY <3>1 DEF StepsOf
    <3>7. NoRelation.code = None /\ NoRelation.sel = 0
      BY DEF NoRelation
    <3>8. ASSUME NEW c \in Cells
          PROVE  /\ rel'[c].code \notin Crossed => rel'[c].sel = 0
                 /\ c \notin DOMAIN inputs => rel'[c].code \notin Direct
      <4>1. CASE c # jobs[j].cell
        BY <1>1, <3>1, <4>1 DEF Tidy, Typed
      <4>2. CASE c = jobs[j].cell
        <5>1. rel'[c] = Effect(jobs[j], jobs'[j].ok)
          BY <1>1, <3>1, <4>2 DEF Typed
        <5> QED
          BY <1>1, <3>4, <3>5, <3>6, <3>7, <4>2, <5>1 DEF Tidy
      <4> QED
        BY <4>1, <4>2
    <3> QED
      BY <1>1, <3>2, <3>8 DEF Tidy
  <2>2. CASE ~Ran(j)
    <3>1. /\ Others({}, j) /\ UNCHANGED rel
          /\ \/ jobs'[j].kind # "sql"
             \/ jobs[j].kind = "sql" /\ jobs'[j].code = jobs[j].code /\ jobs'[j].sel = jobs[j].sel
      <4>1. CASE Selects(j)
        BY <4>1 DEF Selects, Advances
      <4>2. CASE \/ Loads(j) \/ Buffers(j) \/ Drops(j) \/ Asks(j)
                 \/ \E s \in LangSteps : Follows(j, s)
        BY <4>2 DEF Loads, Buffers, Drops, Asks, Follows, Advances
      <4>3. CASE \/ Proceeds(j) \/ Dropped(j) \/ Recorded(j) \/ Departs(j)
        BY <4>3 DEF Proceeds, Dropped, Recorded, Departs, Frees, Free
      <4>4. CASE \/ Fails(j) \/ Succeeds(j) \/ \E o \in {"success", "error"} : Finishes(j, o)
        BY <4>4 DEF Fails, Succeeds, Finishes, Frees, Free
      <4> QED
        BY <1>8, <2>2, <4>1, <4>2, <4>3, <4>4 DEF JobSteps
    <3> QED
      BY <1>3, <3>1
  <2> QED
    BY <2>1, <2>2
<1> QED
  BY <1>4, <1>5, <1>6, <1>7, <1>8 DEF UserSteps

-----------------------------------------------------------------------------
(* What a step does to the batches.                                        *)

SameJobs(x) ==
    \A i \in Jobs : /\ BatchJob(i, x)' <=> BatchJob(i, x)
                    /\ BatchJob(i, x) => jobs'[i].cell = jobs[i].cell

Carries(x) ==
    /\ batches'[x].order = batches[x].order /\ batches'[x].brush = batches[x].brush
    /\ batches'[x].clean = batches[x].clean

Held(x) == batches'[x] = batches[x] /\ SameJobs(x)

Halted(x) ==
    batches'[x].state = "stopped" /\ batches'[x].clean = batches[x].clean
        /\ \A i \in Jobs : ~BatchJob(i, x)'

Ended(x) ==
    /\ batches[x].state = "next" /\ batches[x].todo = <<>>
    /\ batches'[x].state = "success" /\ batches'[x].todo = <<>>
    /\ Carries(x) /\ SameJobs(x)

(* The run that the batch awaits has returned.                             *)
Back(x) ==
    /\ batches'[x].state = "next" /\ batches'[x].todo = batches[x].todo /\ Carries(x)
    /\ \E j \in Jobs :
         /\ BatchJob(j, x) /\ Succeeds(j) /\ IsLatest(j)
         /\ \A i \in Jobs : BatchJob(i, x)' <=> BatchJob(i, x) /\ i # j

(* The batch has begun the run of its next cell.                           *)
Called(x) ==
    /\ batches[x].state = "next" /\ batches[x].todo # <<>>
    /\ batches'[x].state = "await" /\ batches'[x].todo = Tail(batches[x].todo) /\ Carries(x)
    /\ LET h == Head(batches[x].todo)
       IN  /\ Query(h) /\ G!RefIssue(Notebook, Place(h)) = "none"
           /\ \E j \in Jobs : Starts(h, j) /\ \A i \in Jobs : BatchJob(i, x)' <=> i = j

Turning ==
    /\ SameNotebook /\ (Leaving' => Leaving)
    /\ \A x \in Batches : Held(x) \/ Halted(x) \/ Ended(x) \/ Back(x) \/ Called(x)

(* No batch is one of the present notebook any more.                       *)
Soiling ==
    /\ \A x \in Batches : ~batches'[x].clean /\ batches'[x].state = batches[x].state
    /\ \A i \in Jobs, x \in Batches : BatchJob(i, x)' => BatchJob(i, x)

(* One batch is planned; the others are held, or soiled.                   *)
Opening ==
    \E b \in Batches :
       /\ ~Leaving /\ UNCHANGED jobs
       /\ batches[b].state # "await" /\ batches'[b].state = "next" /\ Upheld(b)'
       /\ \A x \in Batches \ {b} :
             /\ batches'[x].state = batches[x].state
             /\ ~batches'[x].clean \/ (SameNotebook /\ batches'[x] = batches[x])

LEMMA SameJobsWhen ==
  ASSUME NEW S, NEW j, Others(S, j), NEW x \in Batches,
         j \in Jobs => /\ BatchJob(j, x)' <=> BatchJob(j, x)
                       /\ BatchJob(j, x) => jobs'[j].cell = jobs[j].cell
  PROVE  SameJobs(x)
BY DEF Others, Alike, SameJobs, BatchJob

LEMMA LeavingWhen ==
  ASSUME NEW S, NEW j, Others(S, j), j \in Jobs /\ jobs'[j].kind = "leave" => jobs[j].kind = "leave"
  PROVE  Leaving' => Leaving
BY DEF Others, Alike, Leaving

LEMMA RunTurns ==
  ASSUME Basic, Apt, NEW c \in Cells, NEW b \in Batches \cup {0},
         NEW bs \in [Batches -> BatchRecords], RunCell(c, b, bs)
  PROVE  /\ SameNotebook /\ (Leaving' => Leaving)
         /\ \/ batches' = Outcome(bs, b, FALSE) /\ \A x \in Batches : SameJobs(x)
            \/ /\ batches' = bs /\ Query(c) /\ G!RefIssue(Notebook, Place(c)) = "none"
               /\ \E j \in Jobs : /\ Starts(c, j) /\ BatchJob(j, b)'
                                  /\ \A x \in Batches \ {b} : SameJobs(x)
                                  /\ \A i \in Jobs \ {j} : BatchJob(i, b)' <=> BatchJob(i, b)
<1>1. Typed /\ None \notin Jobs
  BY RecordsAre DEF Basic
<1>2. CASE NotRunnable(c, b, bs) \/ Refused(c, b, bs)
  <2>1. SameNotebook /\ UNCHANGED jobs /\ batches' = Outcome(bs, b, FALSE)
    BY <1>2 DEF NotRunnable, Refused, SameNotebook, screen
  <2> QED
    BY <2>1 DEF Leaving, SameJobs, BatchJob
<1>3. CASE Unexpandable(c, b, bs)
  <2>1. SameNotebook /\ jobs' = Aborted(jobs, Controllers(c)) /\ batches' = Outcome(bs, b, FALSE)
    BY <1>3 DEF Unexpandable, SameNotebook
  <2>2. Others(Controllers(c), None)
    BY <1>1, <2>1, AbortsOnly
  <2> QED
    BY <1>1, <2>1, <2>2, SameJobsWhen, LeavingWhen
<1>4. CASE Begin(c, b, bs)
  <2>1. /\ SameNotebook /\ batches' = bs /\ Query(c) /\ G!RefIssue(Notebook, Place(c)) = "none"
        /\ HasFreeJob /\ aborts' = [aborts EXCEPT ![c] = FreeJob] /\ gen' = [gen EXCEPT ![c] = @ + 1]
    BY <1>4 DEF Begin, Claims, Query, SameNotebook
  <2>2. FreeJob \in Jobs /\ jobs[FreeJob].kind = "free"
    BY <2>1, FreeJobIs
  <2>3. aborts'[c] = FreeJob /\ gen'[c] # gen[c]
    BY <1>1, <2>1 DEF Typed
  <2>4. PICK j \in Jobs : Starts(c, j)
    <3>1. Quiet \/ Refuses(c) \/ Gives(c) \/ \E j \in Jobs : Starts(c, j)
      BY RunCellStep
    <3>2. ~Quiet /\ ~Refuses(c) /\ ~Gives(c)
      BY <1>1, <2>2, <2>3 DEF Quiet, Still, Refuses, Gives, Typed
    <3> QED
      BY <3>1, <3>2
  <2>5. j = FreeJob
    <3>1. aborts'[c] = j
      BY <1>1, <2>4 DEF Starts, Typed
    <3> QED
      BY <2>3, <3>1
  <2>6. jobs'[j].kind = "sql" /\ jobs[j].kind = "free" /\ Others(Controllers(c), j)
    BY <2>1, <2>4 DEF Starts, Query
  <2>7. jobs'[j].batch = b
    <3> DEFINE r == [Free EXCEPT !.kind = "sql", !.cell = c, !.code = code[c], !.batch = b,
                               !.sel = Selected(code[c]), !.gen = gen'[c],
                               !.reads = Resolved(code[c]),
                               !.step = IF code[c] \in Direct THEN "direct" ELSE "create"]
               f == Aborted(jobs, Controllers(c))
    <3>1. jobs' = [f EXCEPT ![FreeJob] = r]
      BY <1>4 DEF Begin
    <3>2. r.batch = b
      BY DEF Free
    <3>3. DOMAIN f = Jobs
      BY DEF Aborted
    <3> HIDE DEF r, f
    <3> QED
      BY <2>2, <2>5, <3>1, <3>2, <3>3
  <2>8. \A x \in Batches \ {b} : SameJobs(x)
    BY <2>6, <2>7, SameJobsWhen DEF BatchJob
  <2>9. Leaving' => Leaving
    BY <2>6, LeavingWhen
  <2>10. \A i \in Jobs \ {j} : BatchJob(i, b)' <=> BatchJob(i, b)
    BY <2>6 DEF Others, Alike, BatchJob
  <2>11. BatchJob(j, b)'
    BY <2>6, <2>7 DEF BatchJob
  <2> QED
    BY <2>1, <2>4, <2>8, <2>9, <2>10, <2>11
<1> QED
  BY <1>2, <1>3, <1>4 DEF RunCell

LEMMA NextTurns ==
  ASSUME Basic, Awaited, NEW b \in Batches, NextCell(b)
  PROVE  Turning
<1>1. Typed /\ Apt /\ batches[b].state = "next" /\ 0 \notin Batches
  BY DEF Basic, NextCell, Apt, Settled, Batches
<1>2. \A i \in Jobs : ~BatchJob(i, b)
  BY <1>1 DEF Awaited
<1>3. CASE batches[b].todo = <<>>
  <2>1. /\ batches' = [batches EXCEPT ![b].state = "success"]
        /\ UNCHANGED <<doc, inputs, code, sel, jobs>>
    BY <1>3 DEF NextCell, screen
  <2>2. batches \in [Batches -> BatchRecords]
    BY <1>1 DEF Typed
  <2>3. /\ \A x \in Batches \ {b} : batches'[x] = batches[x]
        /\ batches'[b].state = "success" /\ batches'[b].todo = <<>> /\ Carries(b)
    BY <1>3, <2>1, <2>2 DEF Carries, BatchRecords
  <2>4. (Leaving' => Leaving) /\ \A x \in Batches : SameJobs(x)
    BY <2>1 DEF Leaving, SameJobs, BatchJob
  <2> QED
    BY <1>1, <1>3, <2>1, <2>3, <2>4 DEF Turning, SameNotebook, Held, Ended
<1>4. CASE batches[b].todo # <<>>
  <2> DEFINE bs == [batches EXCEPT ![b].todo = Tail(@), ![b].state = "await"]
             h == Head(batches[b].todo)
  <2>1. /\ bs \in [Batches -> BatchRecords] /\ h \in Cells
        /\ \A x \in Batches :
             /\ bs[x].order = batches[x].order
             /\ bs[x].brush = batches[x].brush /\ bs[x].clean = batches[x].clean
             /\ bs[x].state = IF x = b THEN "await" ELSE batches[x].state
             /\ bs[x].todo = IF x = b THEN Tail(batches[x].todo) ELSE batches[x].todo
    BY <1>1, <1>4, NextTyped
  <2>2. \A x \in Batches \ {b} : bs[x] = batches[x]
    BY <1>1 DEF Typed
  <2>3. RunCell(h, b, bs)
    BY <1>4 DEF NextCell
  <2>4. h = Head(batches[b].todo)
    OBVIOUS
  <2> HIDE DEF bs, h
  <2>5. /\ SameNotebook /\ (Leaving' => Leaving)
        /\ \/ batches' = Outcome(bs, b, FALSE) /\ \A x \in Batches : SameJobs(x)
           \/ /\ batches' = bs /\ Query(h) /\ G!RefIssue(Notebook, Place(h)) = "none"
              /\ \E j \in Jobs : /\ Starts(h, j) /\ BatchJob(j, b)'
                                 /\ \A x \in Batches \ {b} : SameJobs(x)
                                 /\ \A i \in Jobs \ {j} : BatchJob(i, b)' <=> BatchJob(i, b)
    BY <1>1, <2>1, <2>3, RunTurns
  <2>6. CASE batches' = Outcome(bs, b, FALSE) /\ \A x \in Batches : SameJobs(x)
    <3>1. batches' = [bs EXCEPT ![b].state = "stopped"]
      BY <1>1, <2>1, <2>6 DEF Outcome
    <3>2. /\ \A x \in Batches \ {b} : batches'[x] = batches[x]
          /\ batches'[b].state = "stopped" /\ batches'[b].clean = batches[b].clean
      BY <2>1, <2>2, <3>1 DEF BatchRecords
    <3>3. \A i \in Jobs : ~BatchJob(i, b)'
      BY <1>2, <2>6 DEF SameJobs
    <3> QED
      BY <2>5, <2>6, <3>2, <3>3 DEF Turning, Held, Halted
  <2>7. CASE /\ batches' = bs /\ Query(h) /\ G!RefIssue(Notebook, Place(h)) = "none"
             /\ \E j \in Jobs : /\ Starts(h, j) /\ BatchJob(j, b)'
                                /\ \A x \in Batches \ {b} : SameJobs(x)
                                /\ \A i \in Jobs \ {j} : BatchJob(i, b)' <=> BatchJob(i, b)
    <3>1. Called(b)
      BY <1>1, <1>2, <1>4, <2>1, <2>4, <2>7 DEF Called, Carries
    <3>2. \A x \in Batches \ {b} : Held(x)
      BY <2>2, <2>7 DEF Held
    <3> QED
      BY <2>5, <3>1, <3>2 DEF Turning
  <2> QED
    BY <2>5, <2>6, <2>7
<1> QED
  BY <1>3, <1>4

(* The run of a batch, or of the user's, ends.                             *)
LEMMA SqlTurns ==
  ASSUME Basic, Awaited, NEW j, Answers(j), SqlStep(j)
  PROVE  Turning
<1>1. /\ Typed /\ j \in Jobs /\ jobs[j] \in JobRecords /\ jobs[j].kind = "sql"
      /\ batches \in [Batches -> BatchRecords] /\ 0 \notin Batches
  BY AnswerIs DEF Basic, Typed, SqlStep, Batches
<1>2. PICK b \in Batches \cup {0} : b = jobs[j].batch
  BY <1>1 DEF JobRecords
<1>3. b \in Batches => /\ batches[b].state = "await" /\ BatchJob(j, b)
                       /\ \A i \in Jobs : BatchJob(i, b) => i = j
  BY <1>1, <1>2 DEF Awaited, BatchJob
<1>4. CASE Goes(j, "select")
  <2>1. /\ UNCHANGED <<doc, inputs, code, sel, batches>>
        /\ jobs' = [jobs EXCEPT ![j].step = "select"]
    BY <1>4 DEF Goes, screen
  <2>2. Advances(j, "select")
    BY <1>4, GoesOn DEF Steps
  <2>3. /\ Others({}, j) /\ jobs'[j].kind = jobs[j].kind /\ jobs'[j].cell = jobs[j].cell
        /\ jobs'[j].batch = jobs[j].batch
    BY <2>2 DEF Advances
  <2>4. (Leaving' => Leaving) /\ \A x \in Batches : SameJobs(x)
    BY <2>3, SameJobsWhen, LeavingWhen DEF BatchJob
  <2> QED
    BY <2>1, <2>4 DEF Turning, SameNotebook, Held
<1>5. ASSUME NEW ok \in BOOLEAN, batches' = Outcome(batches, b, ok), Others({}, j),
             jobs'[j].kind \notin {"sql", "leave"}, SameNotebook, ok => Succeeds(j) /\ IsLatest(j)
      PROVE  Turning
  <2>1. Leaving' => Leaving
    BY <1>5, LeavingWhen
  <2>2. \A x \in Batches : x # b => SameJobs(x) /\ batches'[x] = batches[x]
    <3>1. \A x \in Batches : x # b => SameJobs(x)
      BY <1>1, <1>2, <1>5, SameJobsWhen DEF BatchJob
    <3>2. \A x \in Batches : x # b => batches'[x] = batches[x]
      BY <1>1, <1>5 DEF Outcome
    <3> QED
      BY <3>1, <3>2
  <2>3. ASSUME b \in Batches PROVE Halted(b) \/ Back(b)
    <3>1. \A i \in Jobs : ~BatchJob(i, b)'
      BY <1>3, <1>5, <2>3 DEF Others, Alike, BatchJob
    <3>2. /\ batches'[b].todo = batches[b].todo /\ batches'[b].order = batches[b].order
          /\ batches'[b].brush = batches[b].brush /\ batches'[b].clean = batches[b].clean
          /\ batches'[b].state = IF ok THEN "next" ELSE "stopped"
      BY <1>1, <1>2, <1>3, <1>5, <2>3, OutcomeTyped
    <3>3. ~ok => Halted(b)
      BY <3>1, <3>2 DEF Halted
    <3>4. ok => Back(b)
      <4>1. \A i \in Jobs : ~(BatchJob(i, b) /\ i # j)
        BY <1>3, <2>3
      <4> QED
        BY <1>1, <1>3, <1>5, <2>3, <3>1, <3>2, <4>1 DEF Back, Carries
    <3> QED
      BY <3>3, <3>4
  <2> QED
    BY <1>5, <2>1, <2>2, <2>3 DEF Turning, Held
<1>6. CASE (~jobs[j].ok \/ jobs[j].aborted) /\ SqlFails(j)
  <2>1. batches' = Outcome(batches, b, FALSE) /\ jobs' = [jobs EXCEPT ![j] = Free] /\ SameNotebook
    BY <1>2, <1>6 DEF SqlFails, Ends, SameNotebook
  <2>2. Others({}, j) /\ jobs'[j] = Free
    BY <1>1, <2>1, SetJob, RecordsAre
  <2>3. jobs'[j].kind \notin {"sql", "leave"}
    BY <2>2 DEF Free
  <2> QED
    BY <1>5, <2>1, <2>2, <2>3
<1>7. ASSUME NEW record \in BOOLEAN, SqlSucceeds(j, record), jobs[j].ok, ~jobs[j].aborted PROVE Turning
  <2>1. batches' = Outcome(batches, b, IsLatest(j)) /\ SameNotebook
    BY <1>2, <1>7 DEF SqlSucceeds, Ends, SameNotebook
  <2>2. Selects(j) \/ Fails(j) \/ Succeeds(j)
    BY SqlContinues
  <2>3. ~Selects(j) /\ ~Fails(j)
    <3>1. jobs'[j].kind # "sql"
      BY <1>1, <1>7 DEF SqlSucceeds, Free, Typed
    <3> QED
      BY <1>1, <1>7, <3>1 DEF Selects, Advances, Fails
  <2>4. Succeeds(j)
    BY <2>2, <2>3
  <2>5. Others({}, j) /\ jobs'[j].kind \notin {"sql", "leave"}
    BY <2>4 DEF Succeeds, Frees, Free
  <2>6. PICK ok \in BOOLEAN : ok = IsLatest(j)
    BY DEF IsLatest
  <2> QED
    BY <1>5, <2>1, <2>4, <2>5, <2>6
<1>8. jobs[j].step \in {"create", "direct", "select"}
  BY <1>1 DEF Basic, Stepped, StepsOf
<1> QED
  BY <1>4, <1>6, <1>7, <1>8 DEF SqlStep

-----------------------------------------------------------------------------
(* A batch as it is planned.                                               *)

LEMMA OpenUpheld ==
  ASSUME Typed, UNCHANGED <<doc, inputs, code>>, NEW o, Leads(o), NEW b \in Batches,
         batches'[b].state = "next",
         batches'[b].todo = G!Kept(Named(o), {c \in Cells : code[c] \notin Empty}),
         batches'[b].order = {c \in Range(Named(o)) : code[c] \notin Empty},
         \A c : /\ Query(c)
                /\ batches'[b].brush => \E d \in {c} \cup Behind(c) : code[d] \in Crossed
                => Place(c) \in G!Range(o)
  PROVE  Upheld(b)'
<1> DEFINE todo == G!Kept(Named(o), {c \in Cells : code[c] \notin Empty})
           all == {c \in Range(Named(o)) : code[c] \notin Empty}
<1>1. /\ IsInjective(todo) /\ Range(todo) = all
      /\ \A c \in all : Query(c)
      /\ \A i \in G!Range(o) : doc[i] \in Range(Named(o))
      /\ \A c \in all :
           (\A d \in {c} \cup Behind(c) : d \notin Behind(d))
              => \A d \in Behind(c) \cap all : G!Before(todo, d, c)
  BY LeadsPlan
<1>2. batches'[b].todo = todo /\ batches'[b].order = all
  OBVIOUS
<1> HIDE DEF todo
<1>3. /\ \A c : Query(c)' <=> Query(c)
      /\ \A c : Query(c) => Behind(c)' = Behind(c) /\ \A d \in Behind(c) : Query(d)
  BY BehindSame, BehindLeast DEF Query, Listed
<1>4. Planned(b)'
  <2>1. ASSUME NEW c \in all PROVE Behind(c)' = Behind(c) /\ \A d \in {c} \cup Behind(c) : Behind(d)' = Behind(d)
    BY <1>1, <1>3
  <2>2. \A c \in all :
           (\A d \in {c} \cup Behind(c)' : d \notin Behind(d)')
              => \A d \in Behind(c)' \cap all : G!Before(todo, d, c)
    BY <1>1, <2>1
  <2> HIDE DEF all
  <2> QED
    BY <1>1, <1>2, <1>3, <2>2 DEF Planned
<1>5. Covered(b)'
  <2> SUFFICES ASSUME NEW c \in Cells, Query(c), code[c] \notin Empty,
                      batches'[b].brush => \E d \in {c} \cup Behind(c) : code[d] \in Crossed
               PROVE  c \in all
    BY <1>2, <1>3 DEF Covered
  <2>1. Place(c) \in G!Range(o) /\ doc[Place(c)] = c
    BY NotebookCells DEF Query
  <2> QED
    BY <1>1, <2>1
<1>6. Taken(b)' = {}
  BY <1>1, <1>2 DEF Taken
<1>7. Done(b)' = {}
  BY <1>6 DEF Done
<1> QED
  BY <1>4, <1>5, <1>6, <1>7 DEF Upheld, Begun, Viewed, Queried, ShownBy

LEMMA RunAllOpens ==
  ASSUME Basic, RunAll
  PROVE  Opening
<1> DEFINE o == G!TopoOrder(Notebook)
<1>1. /\ Typed /\ Leads(o) /\ G!Range(o) = G!RunnableCells(Notebook)
      /\ Named(o) \in Seq(Cells)
  BY TopoLeads, LeadsPlan DEF Basic
<1>2. /\ ~Leaving /\ StartBatch(Named(o), FALSE, batches) /\ UNCHANGED <<doc, inputs, code, sel, jobs>>
      /\ batches \in [Batches -> BatchRecords]
  BY <1>1, ActApt DEF RunAll, screen, Typed
<1> HIDE DEF o
<1>3. PICK b \in Batches :
        /\ batches[b].state \in {"none", "stopped", "success"}
        /\ batches' = [batches EXCEPT ![b] =
             [state |-> "next", todo |-> G!Kept(Named(o), {c \in Cells : code[c] \notin Empty}),
              order |-> {c \in Range(Named(o)) : code[c] \notin Empty},
              brush |-> FALSE, clean |-> TRUE]]
  BY <1>1, <1>2, StartTyped
<1>4. /\ batches'[b].state = "next" /\ ~batches'[b].brush
      /\ batches'[b].todo = G!Kept(Named(o), {c \in Cells : code[c] \notin Empty})
      /\ batches'[b].order = {c \in Range(Named(o)) : code[c] \notin Empty}
      /\ \A x \in Batches \ {b} : batches'[x] = batches[x]
  BY <1>2, <1>3
<1>5. \A c : Query(c) => Place(c) \in G!Range(o)
  BY <1>1, NotebookCells DEF Query
<1>6. Upheld(b)'
  BY <1>1, <1>2, <1>4, <1>5, OpenUpheld
<1> QED
  BY <1>2, <1>3, <1>4, <1>6 DEF Opening, SameNotebook

LEMMA BrushOpens ==
  ASSUME Basic, Brush
  PROVE  Opening \/ Soiling
<1> DEFINE o == G!BrushOrder(Notebook)
           order == Named(o)
<1>1. /\ Typed /\ Leads(o) /\ DependsOnFilter(Notebook) \subseteq G!Range(o)
      /\ order \in Seq(Cells)
  BY BrushLeads, LeadsPlan DEF Basic
<1>2. /\ ~Leaving /\ UNCHANGED <<doc, inputs, code, jobs>>
      /\ IF order = <<>> THEN batches' = Soiled ELSE StartBatch(order, TRUE, Soiled)
  BY ActApt DEF Brush
<1>3. /\ Soiled \in [Batches -> BatchRecords]
      /\ \A b \in Batches : ~Soiled[b].clean /\ Soiled[b].state = batches[b].state
  BY <1>1, SoiledTyped
<1> HIDE DEF o
<1>4. CASE batches' = Soiled
  BY <1>2, <1>3, <1>4 DEF Soiling, BatchJob
<1>5. CASE StartBatch(order, TRUE, Soiled)
  <2>1. PICK b \in Batches :
          /\ batches[b].state \in {"none", "stopped", "success"}
          /\ batches' = [Soiled EXCEPT ![b] =
               [state |-> "next", todo |-> G!Kept(Named(o), {c \in Cells : code[c] \notin Empty}),
                order |-> {c \in Range(Named(o)) : code[c] \notin Empty},
                brush |-> TRUE, clean |-> TRUE]]
    BY <1>1, <1>3, <1>5, StartTyped
  <2>2. /\ batches'[b].state = "next" /\ batches'[b].brush
        /\ batches'[b].todo = G!Kept(Named(o), {c \in Cells : code[c] \notin Empty})
        /\ batches'[b].order = {c \in Range(Named(o)) : code[c] \notin Empty}
        /\ \A x \in Batches \ {b} : batches'[x] = Soiled[x]
    BY <1>3, <2>1
  <2>3. ASSUME NEW c, Query(c), NEW d \in {c} \cup Behind(c), code[d] \in Crossed
        PROVE  Place(c) \in G!Range(o)
    BY <1>1, <2>3, FilterBehind
  <2>4. Upheld(b)'
    BY <1>1, <1>2, <2>2, <2>3, OpenUpheld
  <2> QED
    BY <1>2, <1>3, <2>1, <2>2, <2>4 DEF Opening
<1> QED
  BY <1>2, <1>4, <1>5

(* Every step turns the batches, soils them or opens one.                  *)
LEMMA EveryTurn ==
  ASSUME Basic, Controls, Awaited, Leaving => \A x \in Batches : ~batches[x].clean, [Next]_vars
  PROVE  Turning \/ Soiling \/ Opening
<1>1. Typed /\ LeavesListed /\ 0 \notin Batches /\ None \notin Jobs
  BY RecordsAre DEF Basic, Controls, Parting, Batches
<1>2. ASSUME SameNotebook, UNCHANGED batches, NEW S, NEW j, Others(S, j),
             j \in Jobs => \/ jobs'[j].kind \notin {"sql", "leave"} /\ jobs[j].kind # "sql"
                           \/ /\ jobs'[j].kind = jobs[j].kind /\ jobs'[j].batch = jobs[j].batch
                              /\ jobs[j].kind = "sql" => jobs'[j].cell = jobs[j].cell
      PROVE  Turning
  <2>1. \A x \in Batches : SameJobs(x)
    BY <1>2, SameJobsWhen DEF BatchJob
  <2>2. Leaving' => Leaving
    BY <1>2, LeavingWhen
  <2> QED
    BY <1>2, <2>1, <2>2 DEF Turning, Held
<1>3. ASSUME batches' = Soiled, NEW S, NEW j, Others(S, j), j \in Jobs => jobs'[j].kind # "sql"
      PROVE  Soiling
  <2>1. \A b \in Batches : ~batches'[b].clean /\ batches'[b].state = batches[b].state
    BY <1>1, <1>3, SoiledTyped
  <2>2. \A i \in Jobs, x \in Batches : BatchJob(i, x)' => BatchJob(i, x)
    BY <1>3 DEF Others, Alike, BatchJob
  <2> QED
    BY <2>1, <2>2 DEF Soiling
<1>4. CASE \E e \in Edits : Type(e[1], e[2])
  <2>1. batches' = Soiled /\ UNCHANGED jobs
    BY <1>4 DEF Type
  <2>2. Others({}, None)
    BY <2>1 DEF Others, Alike
  <2> QED
    BY <1>1, <1>3, <2>1, <2>2
<1>5. ASSUME NEW c \in Cells, Run(c) PROVE Turning
  <2>1. Apt /\ RunCell(c, 0, batches) /\ batches \in [Batches -> BatchRecords]
    BY <1>1, <1>5, ActApt DEF Run, Typed
  <2>2. SameNotebook /\ (Leaving' => Leaving) /\ batches' = batches /\ \A x \in Batches : SameJobs(x)
    BY <1>1, <2>1, RunTurns DEF Outcome
  <2> QED
    BY <2>2 DEF Turning, Held
<1>6. ASSUME NEW c \in Cells, DeleteCell(c) PROVE Soiling
  <2>1. batches' = Soiled
    BY <1>6 DEF DeleteCell
  <2>2. PICK j \in Jobs : Deletes(c, j)
    BY <1>6, DeleteStep
  <2> QED
    BY <1>3, <2>1, <2>2 DEF Deletes
<1>7. ASSUME NEW c \in Cells, RunLanguage(c) PROVE Turning
  <2>1. SameNotebook /\ UNCHANGED batches /\ c \in DOMAIN inputs
    BY <1>7 DEF RunLanguage, SameNotebook
  <2>2. PICK j \in Jobs : Starts(c, j)
    BY <1>7, LanguageStep
  <2> QED
    BY <1>2, <2>1, <2>2 DEF Starts
<1>8. CASE RunAll \/ Brush
  BY <1>8, RunAllOpens, BrushOpens
<1>9. CASE Escape
  <2>1. SameNotebook /\ UNCHANGED batches
    BY <1>9 DEF Escape, SameNotebook
  <2>2. PICK S \in SUBSET Jobs : Escapes(S)
    BY <1>9, EscapeStep
  <2> QED
    BY <1>1, <1>2, <2>1, <2>2 DEF Escapes
<1>10. CASE Leave
  <2>1. batches' = Soiled
    BY <1>10 DEF Leave
  <2>2. PICK j \in Jobs : Leaves(j)
    BY <1>10, LeaveBegins
  <2> QED
    BY <1>3, <2>1, <2>2 DEF Leaves
<1>11. ASSUME NEW j \in Jobs, SameNotebook, UNCHANGED batches,
              \/ Ran(j) \/ Loads(j) \/ Buffers(j) \/ Drops(j) \/ Asks(j)
              \/ (\E s \in LangSteps : Follows(j, s))
              \/ Proceeds(j) \/ Dropped(j) \/ Recorded(j)
              \/ \E o \in {"success", "error"} : Finishes(j, o)
       PROVE  Turning
  <2>1. CASE Ran(j)
    BY <1>2, <1>11, <2>1 DEF Ran
  <2>2. CASE \/ Loads(j) \/ Buffers(j) \/ Drops(j) \/ Asks(j) \/ \E s \in LangSteps : Follows(j, s)
    <3>1. Others({}, j) /\ jobs'[j].kind = jobs[j].kind /\ jobs'[j].batch = jobs[j].batch
          /\ jobs'[j].cell = jobs[j].cell
      BY <2>2 DEF Loads, Buffers, Drops, Asks, Follows, Advances
    <3> QED
      BY <1>2, <1>11, <3>1
  <2>3. CASE Dropped(j) \/ Recorded(j) \/ \E o \in {"success", "error"} : Finishes(j, o)
    <3>1. Others({}, j) /\ jobs'[j].kind = "free" /\ jobs[j].kind # "sql"
      BY <2>3 DEF Dropped, Recorded, Finishes, Frees, Free
    <3> QED
      BY <1>2, <1>11, <3>1
  <2>4. CASE Proceeds(j)
    <3>1. Others({}, j) /\ jobs'[j].kind = "leave" /\ jobs[j].kind = "leave"
      BY <2>4 DEF Proceeds
    <3>2. \A x \in Batches : SameJobs(x)
      BY <3>1, SameJobsWhen DEF BatchJob
    <3>3. Leaving' => Leaving
      BY <3>1, LeavingWhen
    <3> QED
      BY <1>11, <3>2, <3>3 DEF Turning, Held
  <2> QED
    BY <1>11, <2>1, <2>2, <2>3, <2>4
<1>12. CASE Execute
  <2>1. SameNotebook /\ UNCHANGED batches
    BY <1>12 DEF Execute, SameNotebook, screen
  <2> QED
    BY <1>11, <1>12, <2>1, ExecuteStep
<1>13. CASE Continue
  <2> DEFINE j == Head(answered)
  <2>1. Answers(j) /\ (SqlStep(j) \/ LangStep(j) \/ LineageStep(j) \/ DropStep(j) \/ LeaveStep(j))
    BY <1>13 DEF Continue, Answers
  <2> HIDE DEF j
  <2>2. j \in Jobs
    BY <2>1, AnswerIs
  <2>3. CASE SqlStep(j)
    BY <2>1, <2>3, SqlTurns
  <2>4. CASE LangStep(j)
    <3>1. SameNotebook /\ UNCHANGED batches
      BY <2>4 DEF LangStep, LangEnds, Goes, SameNotebook, screen
    <3> QED
      BY <1>11, <2>1, <2>2, <2>4, <3>1, LangContinues
  <2>5. CASE LineageStep(j)
    <3>1. SameNotebook /\ UNCHANGED batches
      BY <2>5 DEF LineageStep, Goes, SameNotebook, screen
    <3> QED
      BY <1>11, <2>1, <2>2, <2>5, <3>1, LineageContinues
  <2>6. CASE DropStep(j)
    <3>1. SameNotebook /\ UNCHANGED batches
      BY <2>6 DEF DropStep, Goes, SameNotebook, screen
    <3> QED
      BY <1>11, <2>1, <2>2, <2>6, <3>1, DropContinues
  <2>7. CASE LeaveStep(j)
    <3>1. Drops(j) \/ Proceeds(j) \/ Departs(j)
      BY <1>1, <2>1, <2>2, <2>7, LeaveContinues DEF LeavesListed, LeaveStep
    <3>2. UNCHANGED batches /\ Leaving
      BY <2>2, <2>7 DEF LeaveStep, Goes, Leaving
    <3>3. Others({}, j) /\ jobs'[j].kind # "sql"
      BY <3>1 DEF Drops, Proceeds, Departs, Advances, Frees, Free
    <3>4. \A i \in Jobs, x \in Batches : BatchJob(i, x)' => BatchJob(i, x)
      BY <3>3 DEF Others, Alike, BatchJob
    <3> QED
      BY <3>2, <3>4 DEF Soiling
  <2> QED
    BY <2>1, <2>3, <2>4, <2>5, <2>6, <2>7
<1>14. ASSUME NEW b \in Batches, NextCell(b) PROVE Turning
  BY <1>14, NextTurns
<1>15. ASSUME NEW j \in Jobs, Computed(j) PROVE Turning
  <2>1. SameNotebook /\ UNCHANGED batches
    BY <1>15 DEF Computed, LangEnds, SameNotebook, screen
  <2> QED
    BY <1>11, <1>15, <2>1, ComputedStep
<1>16. CASE UNCHANGED vars
  <2>1. SameNotebook /\ UNCHANGED <<batches, jobs>>
    BY <1>16 DEF vars, screen, SameNotebook
  <2>2. Others({}, None)
    BY <2>1 DEF Others, Alike
  <2> QED
    BY <1>1, <1>2, <2>1, <2>2
<1> QED
  BY <1>4, <1>5, <1>6, <1>7, <1>8, <1>9, <1>10, <1>12, <1>13, <1>14, <1>15, <1>16
     DEF Next, User, System

-----------------------------------------------------------------------------
(* The batches stay what they are.                                         *)

(* The cell that a batch has come to has all that is behind it done.       *)
LEMMA UpheldCalled ==
  ASSUME Basic, Controls, Awaited, SameNotebook, NEW b \in Batches, Upheld(b), Called(b)
  PROVE  Upheld(b)'
<1> DEFINE todo == batches[b].todo
           h == Head(todo)
           t == Tail(todo)
<1>1. /\ UNCHANGED <<doc, inputs, code, sel>> /\ Typed /\ Tracked /\ None \notin Jobs
      /\ \A c : Query(c)' <=> Query(c)
      /\ \A c : Query(c) => Behind(c)' = Behind(c) /\ \A d \in Behind(c) : Query(d)
      /\ \A c \in Cells : View(c)' = View(c)
      /\ \A k : Resolved(k)' = Resolved(k)
  BY NotebookSame, RecordsAre DEF SameNotebook, Basic, Controls
<1>2. /\ todo \in Seq(Cells) /\ todo # <<>> /\ IsInjective(todo)
      /\ Range(todo) \subseteq batches[b].order
      /\ \A c \in batches[b].order : Query(c) /\ c \in Cells
      /\ \A c \in Range(todo) :
            (\A d \in {c} \cup Behind(c) : d \notin Behind(d))
               => \A d \in Behind(c) \cap Range(todo) : G!Before(todo, d, c)
  BY <1>1, NotebookCells DEF Upheld, Planned, Called, Typed, BatchRecords, Query
<1>3. /\ batches[b].state = "next" /\ batches'[b].state = "await" /\ batches'[b].todo = t
      /\ batches'[b].order = batches[b].order /\ batches'[b].brush = batches[b].brush
      /\ G!RefIssue(Notebook, Place(h)) = "none"
  BY DEF Called, Carries
<1>4. PICK j \in Jobs : Starts(h, j) /\ \A i \in Jobs : BatchJob(i, b)' <=> i = j
  BY DEF Called
<1>5. /\ IsInjective(t) /\ Range(t) = Range(todo) \ {h} /\ h \in Range(todo)
      /\ \A x, y : x # h /\ y # h /\ G!Before(todo, x, y) => G!Before(t, x, y)
      /\ \A x : ~G!Before(todo, x, h)
  BY <1>2, BeforeTail
<1> HIDE DEF todo, h, t
<1>6. Query(h) /\ h \in Cells /\ h \in batches[b].order
  BY <1>2, <1>5
<1>7. /\ \A d \in {h} \cup Behind(h) : d \notin Behind(d)
      /\ \A d \in Resolved(code[h]) : code[d] \notin Direct
  BY <1>1, <1>3, <1>6, IssueBehind
<1>8. /\ Taken(b) = batches[b].order \ Range(todo)
      /\ Taken(b)' = Taken(b) \cup {h} /\ h \notin Taken(b)
      /\ Done(b) = Taken(b) /\ Done(b)' = Taken(b)
  <2>1. Taken(b) = batches[b].order \ Range(todo) /\ Taken(b)' = batches[b].order \ Range(t)
    BY <1>3 DEF Taken, todo
  <2>2. Taken(b)' = Taken(b) \cup {h} /\ h \notin Taken(b)
    BY <1>5, <1>6, <2>1
  <2>3. Done(b) = Taken(b)
    BY <1>3 DEF Awaited, Done
  <2>4. jobs'[j].cell = h
    BY <1>4 DEF Starts
  <2>5. Done(b)' = Taken(b)' \ {h}
    BY <1>4, <2>4 DEF Done
  <2> QED
    BY <2>1, <2>2, <2>3, <2>5
<1>9. Covered(b)'
  BY <1>3, PlanSame DEF Upheld
<1>10. Planned(b)'
  <2>1. \A c \in Range(t) : Behind(c)' = Behind(c) /\ \A d \in {c} \cup Behind(c) : Behind(d)' = Behind(d)
    BY <1>1, <1>2, <1>5
  <2>2. ASSUME NEW c \in Range(t), \A d \in {c} \cup Behind(c)' : d \notin Behind(d)',
               NEW d \in Behind(c)' \cap Range(t)
        PROVE  G!Before(t, d, c)
    <3>1. \A e \in {c} \cup Behind(c) : e \notin Behind(e)
      BY <2>1, <2>2
    <3>2. G!Before(todo, d, c)
      BY <1>2, <1>5, <2>1, <3>1
    <3> QED
      BY <1>5, <3>2
  <2>3. \A c \in batches[b].order : Query(c)'
    BY <1>1, <1>2
  <2>4. IsInjective(t) /\ Range(t) \subseteq batches[b].order
    BY <1>2, <1>5
  <2> QED
    BY <1>3, <2>2, <2>3, <2>4 DEF Planned
<1>11. Begun(b)'
  <2>1. ASSUME NEW c \in Taken(b)'
        PROVE  /\ Behind(c)' \cap batches'[b].order \subseteq Done(b)'
               /\ \A d \in Resolved(code[c])' : code'[d] \notin Direct
    <3>1. Query(c) /\ Behind(c)' = Behind(c) /\ Resolved(code[c])' = Resolved(code[c])
      BY <1>1, <1>2, <1>6, <1>8 DEF Resolved, Listed
    <3>2. CASE c \in Taken(b)
      BY <1>1, <1>3, <1>8, <3>1, <3>2 DEF Upheld, Begun
    <3>3. CASE c = h
      <4>1. \A d \in Behind(h) : d \notin Range(todo)
        BY <1>2, <1>5, <1>7
      <4> QED
        BY <1>1, <1>3, <1>7, <1>8, <3>1, <3>3, <4>1
    <3> QED
      BY <1>8, <3>2, <3>3
  <2> QED
    BY <2>1 DEF Begun
<1>12. /\ UNCHANGED <<rel, shown>> /\ Posts(j) /\ Others(Controllers(h), j)
       /\ jobs[j].kind = "free" /\ jobs'[j].kind = "sql" /\ jobs'[j].cell = h
       /\ jobs'[j].step \in {"create", "direct"} /\ ViewOf(j)' = View(h)
  BY <1>4, <1>6 DEF Starts, Query, ViewOf, View
<1>13. Viewed(b)'
  <2> SUFFICES ASSUME NEW c \in Done(b), code[c] \notin Direct
               PROVE  rel[c] = View(c) /\ \A i \in Jobs : Creating(i, c)' => ViewOf(i)' = View(c)
    BY <1>1, <1>2, <1>8, <1>12 DEF Viewed
  <2>1. rel[c] = View(c) /\ \A i \in Jobs : Creating(i, c) => ViewOf(i) = View(c)
    BY DEF Upheld, Viewed
  <2>2. ASSUME NEW i \in Jobs, Creating(i, c)' PROVE Creating(i, c) /\ ViewOf(i)' = ViewOf(i)
    <3>1. i # j
      BY <1>8, <1>12, <2>2 DEF Creating, Sql
    <3>2. Persists(i, c)
      BY <1>12, <2>2, <3>1, BesideWhen, PersistsBeside DEF Creating
    <3> QED
      BY <2>2, <3>2 DEF Persists
  <2> QED
    BY <2>1, <2>2
<1>14. Queried(b)'
  <2> SUFFICES ASSUME NEW c \in Taken(b)', NEW i \in Jobs, Sql(i, c)', ~jobs'[i].aborted
               PROVE  /\ ViewOf(i)' = View(c)'
                      /\ jobs'[i].step = "select" /\ Answered(i)' /\ jobs'[i].ok
                           => Fine(b, c, jobs[i].rows)'
    BY DEF Queried
  <2>1. View(c)' = View(c) /\ Query(c)
    BY <1>1, <1>2, <1>6, <1>8
  <2>2. CASE i = j
    BY <1>12, <2>1, <2>2 DEF Sql
  <2>3. CASE i # j
    <3>1. Persists(i, c) /\ Alike(jobs'[i], jobs[i]) /\ i \notin Controllers(h)
      BY <1>12, <2>3, BesideWhen, PersistsBeside DEF Others
    <3>2. Sql(i, c) /\ ~jobs[i].aborted /\ ViewOf(i)' = ViewOf(i)
      BY <3>1 DEF Persists
    <3>3. c # h
      <4>1. aborts[c] = i
        BY <1>1, <3>2 DEF Tracked, Running, Sql
      <4> QED
        BY <1>1, <3>1, <4>1 DEF Controllers
    <3>4. c \in Taken(b)
      BY <1>8, <3>3
    <3>5. /\ ViewOf(i) = View(c)
          /\ jobs[i].step = "select" /\ Answered(i) /\ jobs[i].ok => Fine(b, c, jobs[i].rows)
      BY <3>2, <3>4 DEF Upheld, Queried
    <3>6. ASSUME jobs'[i].step = "select", Answered(i)', jobs'[i].ok
          PROVE  Fine(b, c, jobs[i].rows)'
      <4> DEFINE rows == jobs'[i].rows
      <4>1. Fine(b, c, rows)
        <5>1. Answered(i)
          BY <1>12, <3>6 DEF Posts
        <5> QED
          BY <3>1, <3>5, <3>6, <5>1 DEF Alike
      <4> HIDE DEF rows
      <4>2. IF batches'[b].brush
            THEN \A x \in rows : x[1] \in {c} \cup Behind(c)' /\ x[2].code = code'[x[1]]
                                   => x[2].sel = Selected(code[x[1]])'
            ELSE (\A d \in Behind(c)' : code'[d] \notin Empty) => rows = Fresh(c)'
        BY <1>3, <2>1, <4>1, FineSame
      <4> QED
        BY <4>2 DEF Fine, rows
    <3> QED
      BY <2>1, <3>2, <3>5, <3>6
  <2> QED
    BY <2>2, <2>3
<1>15. ShownBy(b)'
  <2> SUFFICES ASSUME NEW c \in Done(b), shown[c] # NoRows
               PROVE  /\ shown[c].code = code[c]
                      /\ code[c] \notin Direct => Fine(b, c, shown[c].rows)'
    BY <1>1, <1>8, <1>12 DEF ShownBy
  <2> DEFINE rows == shown[c].rows
  <2>1. shown[c].code = code[c] /\ (code[c] \notin Direct => Fine(b, c, rows)) /\ Query(c)
    BY <1>2, <1>8 DEF Upheld, ShownBy
  <2>2. rows = shown'[c].rows
    BY <1>12
  <2> HIDE DEF rows
  <2>3. Fine(b, c, rows) =>
          IF batches'[b].brush
          THEN \A x \in rows : x[1] \in {c} \cup Behind(c)' /\ x[2].code = code'[x[1]]
                                 => x[2].sel = Selected(code[x[1]])'
          ELSE (\A d \in Behind(c)' : code'[d] \notin Empty) => rows = Fresh(c)'
    BY <1>3, <2>1, FineSame
  <2> QED
    BY <2>1, <2>2, <2>3 DEF Fine
<1> QED
  BY <1>9, <1>10, <1>11, <1>13, <1>14, <1>15 DEF Upheld

(* One step of a batch that is, and was, one of the present notebook.      *)
LEMMA UpheldTurned ==
  ASSUME Basic, Controls, Sqls, Batched, Effects, SameNotebook, NEW b \in Batches,
         Held(b) \/ Halted(b) \/ Ended(b) \/ Back(b) \/ Called(b), Active(b)'
  PROVE  Upheld(b)'
<1>1. /\ Tidy /\ Awaited /\ Tracked /\ Typed /\ \A i \in Jobs : Asked(i) => ~Answered(i)
      /\ UNCHANGED <<doc, inputs>>
  BY DEF Batched, Controls, Basic, Queues, OneQueue, Asked, Answered, SameNotebook
<1>2. ~Halted(b) /\ batches[b].clean /\ Upheld(b)
  <2>1. ~Halted(b) /\ batches'[b].clean
    BY DEF Active, Halted
  <2>2. batches[b].clean
    BY <2>1 DEF Held, Ended, Back, Called, Carries
  <2>3. batches[b].state \in {"next", "await", "success"}
    BY <1>1, <2>1 DEF Active, Held, Ended, Back, Called, Awaited
  <2> QED
    BY <2>1, <2>2, <2>3 DEF Batched, Active
<1>3. ASSUME SameJobs(b), batches'[b].todo = batches[b].todo,
             batches'[b].order = batches[b].order, batches'[b].brush = batches[b].brush,
             batches'[b].state = "success" => batches[b].todo = <<>>
      PROVE  Upheld(b)'
  <2>1. Done(b)' = Done(b) /\ Taken(b)' = Taken(b)
    BY <1>3 DEF Taken, Done, SameJobs
  <2>2. Furthers(b)
    BY <1>3, <2>1 DEF Furthers
  <2> QED
    BY <1>1, <1>2, <2>2, UpheldFurther
<1>4. CASE Held(b)
  <2>1. batches[b].state = "success" => batches[b].todo = <<>>
    BY <1>2 DEF Upheld, Planned
  <2> QED
    BY <1>3, <1>4, <2>1 DEF Held
<1>5. CASE Ended(b)
  BY <1>3, <1>5 DEF Ended, Carries
<1>6. CASE Back(b)
  <2>1. PICK j \in Jobs :
          /\ BatchJob(j, b) /\ Succeeds(j) /\ IsLatest(j)
          /\ \A i \in Jobs : BatchJob(i, b)' <=> BatchJob(i, b) /\ i # j
    BY <1>6 DEF Back
  <2>2. Taken(b)' = Taken(b)
    BY <1>6 DEF Back, Carries, Taken
  <2>3. \A i \in Jobs : (BatchJob(i, b) => i = j) /\ ~BatchJob(i, b)'
    BY <1>1, <2>1 DEF Awaited
  <2>4. Done(b)' = Taken(b)
    BY <2>2, <2>3 DEF Done
  <2>5. \A c \in Taken(b) : c \in Cells
    BY <1>2, <1>1, NotebookCells DEF Upheld, Planned, Taken, Query
  <2>6. /\ jobs[j].kind = "sql" /\ jobs[j].ok /\ ~jobs[j].aborted /\ Answered(j) /\ ~Asked(j)
        /\ jobs[j].step \in {"direct", "select"} /\ Others({}, j) /\ Beside(j)
        /\ UNCHANGED rel /\ jobs'[j].kind # "sql"
        /\ shown' = [shown EXCEPT ![jobs[j].cell] = Result(j)]
    BY <2>1, BesideWhen DEF Succeeds, Takes, Reposts, First, Frees, Free
  <2>7. ASSUME NEW c \in Taken(b), c \notin Done(b)
        PROVE  /\ Returns(j, c)
               /\ jobs[j].step = "select" => rel'[c] = ViewOf(j) /\ \A i \in Jobs : ~Creating(i, c)'
    <3>1. Sql(j, c) /\ c \in Cells
      BY <2>3, <2>5, <2>6, <2>7 DEF Done, BatchJob, Sql
    <3>2. Returns(j, c)
      BY <1>1, <2>6, <3>1 DEF Returns, Sql, Typed
    <3>3. jobs[j].step = "select" => rel'[c] = ViewOf(j)
      BY <2>6, <3>1 DEF Sqls, SqlCreated
    <3>4. aborts[c] = j
      BY <1>1, <2>6, <3>1 DEF Tracked, Running, Sql
    <3>5. \A i \in Jobs : i # j => ~Creating(i, c)
      BY <2>6, <3>1, <3>4 DEF Sqls, SqlOrdered
    <3>6. \A i \in Jobs : ~Creating(i, c)'
      BY <2>6, <3>5 DEF Creating, Sql, Others, Alike, Beside
    <3> QED
      BY <3>2, <3>3, <3>6
  <2>8. Done(b) \subseteq Taken(b)
    BY DEF Done
  <2>9. Furthers(b)
    BY <1>6, <2>4, <2>7, <2>8 DEF Furthers, Back, Carries
  <2> QED
    BY <1>1, <1>2, <2>9, UpheldFurther
<1>7. CASE Called(b)
  BY <1>1, <1>2, <1>7, UpheldCalled
<1> QED
  BY <1>2, <1>4, <1>5, <1>6, <1>7

LEMMA AwaitedStays ==
  ASSUME Basic, Awaited, Turning \/ Soiling \/ Opening
  PROVE  Awaited'
<1>1. SUFFICES ASSUME NEW i \in Jobs, NEW b \in Batches, BatchJob(i, b)'
               PROVE  batches'[b].state = "await" /\ \A k \in Jobs : BatchJob(k, b)' => i = k
  BY DEF Awaited
<1>2. CASE Turning
  <2>1. CASE Held(b)
    BY <1>1, <2>1 DEF Held, SameJobs, Awaited
  <2>2. ~Halted(b) /\ ~Ended(b) /\ ~Back(b)
    BY <1>1 DEF Halted, Ended, Back, SameJobs, Awaited
  <2>3. CASE Called(b)
    BY <1>1, <2>3 DEF Called
  <2> QED
    BY <1>2, <2>1, <2>2, <2>3 DEF Turning
<1>3. CASE Soiling
  BY <1>1, <1>3 DEF Soiling, Awaited
<1>4. CASE Opening
  <2>1. /\ BatchJob(i, b) /\ \A k \in Jobs : BatchJob(k, b)' => BatchJob(k, b)
        /\ batches[b].state = "await" => batches'[b].state = "await"
    BY <1>1, <1>4 DEF Opening, BatchJob
  <2> QED
    BY <2>1 DEF Awaited
<1> QED
  BY <1>2, <1>3, <1>4

LEMMA BatchedStays ==
  ASSUME Basic, Controls, Sqls, Batched, [Next]_vars
  PROVE  Batched'
<1>1. /\ Awaited /\ Tidy /\ Typed /\ (Leaving => \A x \in Batches : ~batches[x].clean)
      /\ \A b \in Batches : Active(b) => Upheld(b)
  BY DEF Batched, Basic
<1>2. (UserSteps \/ \E j \in Jobs : JobSteps(j)) /\ (Turning \/ Soiling \/ Opening)
  BY <1>1, StepsKeep, EveryTurn
<1>3. Awaited' /\ Tidy'
  BY <1>1, <1>2, AwaitedStays, TidyStays
<1>4. SameNotebook /\ ~Leaving => Effects
  BY <1>2, EffectsUser, EffectsJob
<1>5. CASE Soiling
  BY <1>3, <1>5 DEF Soiling, Batched, Active
<1>6. CASE Opening
  <2>1. PICK b \in Batches :
          /\ ~Leaving /\ UNCHANGED jobs
          /\ batches[b].state # "await" /\ batches'[b].state = "next" /\ Upheld(b)'
          /\ \A x \in Batches \ {b} :
                /\ batches'[x].state = batches[x].state
                /\ ~batches'[x].clean \/ (SameNotebook /\ batches'[x] = batches[x])
    BY <1>6 DEF Opening
  <2>2. ~Leaving'
    BY <2>1 DEF Leaving
  <2>3. ASSUME NEW x \in Batches, Active(x)', x # b PROVE Upheld(x)'
    <3>1. SameNotebook /\ batches'[x] = batches[x]
      BY <2>1, <2>3 DEF Active
    <3>2. Held(x) /\ Effects
      BY <1>4, <2>1, <3>1 DEF Held, SameJobs, BatchJob
    <3> QED
      BY <2>3, <3>1, <3>2, UpheldTurned
  <2> QED
    BY <1>3, <2>1, <2>2, <2>3 DEF Batched
<1>7. CASE Turning
  <2>1. ASSUME Leaving, NEW b \in Batches PROVE ~batches'[b].clean
    BY <1>1, <1>7, <2>1 DEF Turning, Held, Halted, Ended, Back, Called, Carries
  <2>2. ASSUME NEW b \in Batches, Active(b)' PROVE Upheld(b)'
    <3>1. ~Leaving
      BY <2>1, <2>2 DEF Active
    <3>2. Effects /\ SameNotebook
      BY <1>4, <1>7, <3>1 DEF Turning
    <3> QED
      BY <1>7, <2>2, <3>2, UpheldTurned DEF Turning
  <2>3. Leaving' => Leaving
    BY <1>7 DEF Turning
  <2> QED
    BY <1>3, <2>1, <2>2, <2>3 DEF Batched
<1> QED
  BY <1>2, <1>5, <1>6, <1>7

LEMMA BatchedInitially ==
  ASSUME Init
  PROVE  Batched
<1>1. /\ jobs = [j \in Jobs |-> Free] /\ batches = [b \in Batches |-> NoBatch]
      /\ rel = [c \in Cells |-> NoRelation]
  BY DEF Init
<1>2. /\ \A j \in Jobs : jobs[j].kind = "free"
      /\ \A b \in Batches : ~batches[b].clean
      /\ \A c \in Cells : rel[c].code = None /\ rel[c].sel = 0
  BY <1>1 DEF Free, NoBatch, NoRelation
<1>3. None \notin Direct
  BY BoundsAssumption, CodesAssumption
<1> QED
  BY <1>2, <1>3 DEF Batched, Awaited, Tidy, Active, BatchJob, Leaving

(* A batch that ended well in the notebook it was started for shows rows   *)
(* of what the cells say now (runCellsInOrder, applyCrossfilter).          *)
THEOREM BatchCurrentAlways == Spec => []BatchCurrent
<1> DEFINE Inv == Basic /\ Controls /\ Sqls /\ Batched
<1>1. Init => Inv
  BY BasicInitially, ControlsInitially, SqlsInitially, BatchedInitially
<1>2. Inv /\ [Next]_vars => Inv'
  <2> SUFFICES ASSUME Inv, [Next]_vars PROVE Inv'
    OBVIOUS
  <2>1. Basic' /\ Controls' /\ (UserSteps \/ \E j \in Jobs : JobSteps(j))
    BY StepsKeep
  <2> QED
    BY <2>1, SqlsAfterUser, SqlsAfterJob, BatchedStays
<1>3. Inv => BatchCurrent
  BY BatchCurrentThen
<1> QED
  BY <1>1, <1>2, <1>3, PTL DEF Spec

-----------------------------------------------------------------------------
(* The invariants of the graph hold of every notebook.                     *)
LEMMA SameGraph ==
  /\ \A nb, c : /\ Upstream(nb, c) = G!Upstream(nb, c) /\ Deps(nb, c) = G!Deps(nb, c)
                /\ RefIssue(nb, c) = G!RefIssue(nb, c) /\ Root(nb, c) = G!Root(nb, c)
                /\ Clean(nb, c) <=> G!Clean(nb, c)
  /\ \A nb : /\ RunnableCells(nb) = G!RunnableCells(nb)
             /\ TopoOrder(nb) = G!TopoOrder(nb) /\ BrushOrder(nb) = G!BrushOrder(nb)
  /\ \A nb, r : ReportOrder(nb, r) = G!ReportOrder(nb, r)
  /\ \A o, c, d : Before(o, c, d) <=> G!Before(o, c, d)
  /\ \A o : Range(o) = G!Range(o) /\ (IsInjective(o) <=> G!IsInjective(o))
<1>1. /\ \A S : Min(S) = G!Min(S)
      /\ \A o : Range(o) = G!Range(o) /\ (IsInjective(o) <=> G!IsInjective(o))
  BY DEF Min, G!Min, Range, G!Range, IsInjective, G!IsInjective
<1>2. \A nb, name : CellNamed(nb, name) = G!CellNamed(nb, name)
  BY <1>1 DEF CellNamed, G!CellNamed
<1>3. \A nb : /\ RunnableCells(nb) = G!RunnableCells(nb)
              /\ \A c : /\ Runnable(nb, c) <=> G!Runnable(nb, c)
                        /\ Refs(nb, c) = G!Refs(nb, c)
  BY <1>2 DEF RunnableCells, G!RunnableCells, Runnable, G!Runnable, Refs, G!Refs
<1>4. \A nb, c : Reads(nb, c) = G!Reads(nb, c) /\ Deps(nb, c) = G!Deps(nb, c)
  BY <1>1, <1>3 DEF Reads, G!Reads, Deps, G!Deps
<1>5. \A next, S : Closure(next, S) = G!Closure(next, S)
  BY DEF Closure, G!Closure
<1>6. \A nb, c : Upstream(nb, c) = G!Upstream(nb, c)
  BY <1>4, <1>5 DEF Upstream, G!Upstream
<1>7. \A o, c, d : Before(o, c, d) <=> G!Before(o, c, d)
  BY DEF Before, G!Before
<1>8. \A nb, c : Clean(nb, c) <=> G!Clean(nb, c)
  BY <1>4, <1>6 DEF Clean, G!Clean
<1>9. \A nb, c : Root(nb, c) = G!Root(nb, c)
  BY <1>3, <1>5 DEF Root, G!Root
<1>10. \A nb : Search(nb) = G!Search(nb)
  BY DEF Reads, G!Reads, Refs, G!Refs, CellNamed, G!CellNamed, Runnable, G!Runnable,
      RunnableCells, G!RunnableCells, Min, G!Min, Range, G!Range,
      Search, G!Search
<1>11. \A nb : TopoOrder(nb) = G!TopoOrder(nb)
  BY DEF Reads, G!Reads, Refs, G!Refs, CellNamed, G!CellNamed, Runnable, G!Runnable,
      RunnableCells, G!RunnableCells, Min, G!Min, Range, G!Range,
      Deps, G!Deps, TopoOrder, G!TopoOrder, Visits, G!Visits
<1>12. \A o, S : Kept(o, S) = G!Kept(o, S)
  BY DEF Kept, G!Kept
<1>13. \A nb, c : Dependents(nb, c) = G!Dependents(nb, c)
  BY <1>3, <1>4 DEF Dependents, G!Dependents
<1>14. \A nb : Downstream(nb) = G!Downstream(nb)
  BY <1>3, <1>5, <1>13 DEF Downstream, G!Downstream, Seeds, G!Seeds
<1>15. \A nb : Unrun(nb) = G!Unrun(nb)
  BY <1>4, <1>5, <1>14 DEF Unrun, G!Unrun
<1>16. \A nb, r : ReportCells(nb, r) = G!ReportCells(nb, r)
  BY <1>1, <1>3, <1>5, <1>9 DEF ReportCells, G!ReportCells
<1>17. \A nb : BrushOrder(nb) = G!BrushOrder(nb)
  BY <1>11, <1>12, <1>15 DEF BrushOrder, G!BrushOrder
<1>18. \A nb, r : ReportOrder(nb, r) = G!ReportOrder(nb, r)
  BY <1>11, <1>12, <1>16 DEF ReportOrder, G!ReportOrder
<1>19. \A nb, c : RefIssue(nb, c) = G!RefIssue(nb, c)
  <2>1. \A nb, c : /\ NamesItself(nb, c) <=> G!NamesItself(nb, c)
                   /\ NamesDirect(nb, c) <=> G!NamesDirect(nb, c)
                   /\ InCycle(nb, c) = G!InCycle(nb, c)
    BY <1>1, <1>2, <1>3, <1>4, <1>10
    DEF NamesItself, G!NamesItself, NoName, G!NoName, NamesDirect, G!NamesDirect,
        InCycle, G!InCycle, Itself, G!Itself
  <2> QED
    BY <1>3, <2>1 DEF RefIssue, G!RefIssue
<1> QED
  BY <1>1, <1>3, <1>4, <1>6, <1>7, <1>8, <1>9, <1>11, <1>17, <1>18, <1>19

LEMMA SpecSheet == GraphSpec => []IsSheet(cells)
<1> DEFINE Built == cells \in Seq(NewCells)
<1>1. GraphInit => Built
  BY DEF GraphInit
<1>2. Built /\ [GraphNext]_cells => Built'
  BY DEF GraphNext, AddCell
<1>3. Built => IsSheet(cells)
  BY DEF IsSheet
<1> QED
  BY <1>1, <1>2, <1>3, PTL DEF GraphSpec

(* A cell that the static check lets run can reach no cycle.               *)
THEOREM IssueFoundAlways == GraphSpec => []IssueFound
<1>1. IsSheet(cells) => IssueFound
  BY IssueClean, SameGraph DEF IssueFound
<1> QED
  BY <1>1, SpecSheet, PTL

(* Run all runs every cell once, after what it reads.                      *)
THEOREM RunAllOrderedAlways == GraphSpec => []RunAllOrdered
<1>1. ASSUME IsSheet(cells) PROVE RunAllOrdered
  <2> DEFINE o == G!TopoOrder(cells)
  <2>1. Placed(cells, o) /\ G!Range(o) = G!RunnableCells(cells)
    BY <1>1, TopoOrdered
  <2> HIDE DEF o
  <2>2. ASSUME NEW c \in G!Range(o), G!RefIssue(cells, c) = "none", NEW d \in G!Deps(cells, c)
        PROVE  G!Before(o, d, c)
    <3>1. c \notin G!Upstream(cells, c)
      BY <2>1, <2>2, <1>1, IssueClean DEF G!Clean
    <3> QED
      BY <3>1, <2>1, <2>2, SortedBefore DEF Placed
  <2>3. G!IsInjective(o)
    BY <2>1 DEF Placed
  <2> QED
    BY <2>1, <2>2, <2>3, SameGraph DEF RunAllOrdered, o
<1> QED
  BY <1>1, SpecSheet, PTL

(* A brush runs what depends on the crossfilter, and nothing too early.    *)
THEOREM BrushCoversAlways == GraphSpec => []BrushCovers
<1>1. ASSUME IsSheet(cells) PROVE BrushCovers
  <2> DEFINE o == G!TopoOrder(cells)
             b == G!BrushOrder(cells)
  <2>1. Placed(cells, o) /\ G!Range(o) = G!RunnableCells(cells)
    BY <1>1, TopoOrdered
  <2>2. b = G!Kept(o, G!Unrun(cells))
    BY DEF G!BrushOrder
  <2> HIDE DEF o, b
  <2>3. /\ G!Range(b) = G!RunnableCells(cells) \cap G!Unrun(cells)
        /\ \A c, d \in G!Unrun(cells) : G!Before(o, c, d) => G!Before(b, c, d)
    BY <2>1, <2>2, KeptOrder DEF Placed
  <2>4. DependsOnFilter(cells) \subseteq G!Range(b)
    BY <2>3, <1>1, DownstreamDepends, UnrunLeast DEF DependsOnFilter
  <2>5. \A c \in G!Range(b) : c \in DependsOnFilter(cells) \/ ~cells[c].ran
    BY <2>3, <1>1, UnrunDepends
  <2>6. ASSUME NEW c \in G!Range(b), G!RefIssue(cells, c) = "none", NEW d \in G!Deps(cells, c),
               ~cells[d].ran
        PROVE  G!Before(b, d, c)
    <3>1. c \in G!RunnableCells(cells) /\ c \in G!Unrun(cells)
      BY <2>3
    <3>2. c \notin G!Upstream(cells, c)
      BY <3>1, <2>6, <1>1, IssueClean DEF G!Clean
    <3>3. G!Before(o, d, c)
      BY <3>1, <3>2, <2>1, <2>6, SortedBefore DEF Placed
    <3>4. d \in G!Unrun(cells)
      BY <3>1, <2>6, <1>1, UnrunLeast
    <3> QED
      BY <3>1, <3>3, <3>4, <2>3
  <2> QED
    BY <2>4, <2>5, <2>6, SameGraph DEF BrushCovers, DependsOnFilter, b
<1> QED
  BY <1>1, SpecSheet, PTL

(* A refresh runs what the report shows after all that is upstream of it.  *)
THEOREM ReportCoversAlways == GraphSpec => []ReportCovers
<1>1. ASSUME IsSheet(cells), NEW r PROVE
        LET order == G!ReportOrder(cells, r)
            shows == Shown(cells, r)
        IN  /\ G!Range(order) = shows \cup UNION {G!Upstream(cells, c) : c \in shows}
            /\ \A c \in shows : G!RefIssue(cells, c) = "none"
                  => \A d \in G!Upstream(cells, c) : G!Before(order, d, c)
  <2> DEFINE o == G!TopoOrder(cells)
             p == G!ReportOrder(cells, r)
             shows == Shown(cells, r)
  <2>1. Placed(cells, o) /\ G!Range(o) = G!RunnableCells(cells)
    BY <1>1, TopoOrdered
  <2>2. p = G!Kept(o, G!ReportCells(cells, r))
    BY DEF G!ReportOrder
  <2> HIDE DEF o, p, shows
  <2>3. /\ G!Range(p) = G!RunnableCells(cells) \cap G!ReportCells(cells, r)
        /\ \A c, d \in G!ReportCells(cells, r) : G!Before(o, c, d) => G!Before(p, c, d)
    BY <2>1, <2>2, KeptOrder DEF Placed
  <2>4. G!RunnableCells(cells) \cap G!ReportCells(cells, r)
            = shows \cup UNION {G!Upstream(cells, c) : c \in shows}
    BY <1>1, ReportCellsRun DEF shows
  <2>5. ASSUME NEW c \in shows, G!RefIssue(cells, c) = "none", NEW d \in G!Upstream(cells, c)
        PROVE  G!Before(p, d, c)
    <3>1. /\ c \in G!RunnableCells(cells) /\ c \in G!ReportCells(cells, r)
          /\ d \in G!RunnableCells(cells) /\ d \in G!ReportCells(cells, r)
      BY <2>4, <2>5
    <3>2. \A x \in {c} \cup G!Upstream(cells, c) : x \notin G!Upstream(cells, x)
      BY <3>1, <2>5, <1>1, IssueClean DEF G!Clean
    <3>3. G!Before(o, d, c)
      BY <3>1, <3>2, <2>1, <1>1, UpstreamBefore
    <3> QED
      BY <3>1, <3>3, <2>3
  <2> QED
    BY <2>3, <2>4, <2>5 DEF p, shows
<1>2. IsSheet(cells) => ReportCovers
  BY <1>1, SameGraph DEF ReportCovers, Shown
<1> QED
  BY <1>2, SpecSheet, PTL
=============================================================================
