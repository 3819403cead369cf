----------------------------- MODULE Mounts_proofs -----------------------------
(***************************************************************************)
(* Proofs about Mounts, for any sources and files.                         *)
(***************************************************************************)
EXTENDS Mounts, FiniteSetTheorems, SequenceTheorems, TLAPS

(* A switch waits for the mounts, and folders stay away until the user      *)
(* attaches them: what else the code allows is in Mounts_restored_folder.   *)
Apart == Overlap = FALSE /\ "folder" \notin Restored

(***************************************************************************)
(* Where the sources are.                                                  *)
(***************************************************************************)
Listed == {"mounted", "removing", "released"}
ComingBack == {"waiting", "remounted"}

Places ==
  /\ ToSet(sources) = {s \in Sources : at[s] \in Listed}
  /\ phase # "none" => \A s \in Sources : at[s] \notin {"removing", "released"}
  /\ phase = "restoring" =>
       /\ ToSet(queue) = {s \in Sources : at[s] = "waiting"}
       /\ ToSet(back) = {s \in Sources : at[s] = "remounted"}
  /\ phase # "restoring" =>
       \A s \in Sources : at[s] \notin ComingBack /\ ~again[s]
  /\ \A s \in Sources : again[s] => kind[s] \in Restored

TInv == TypeOK /\ Places

(* With Apart: no source is mounted anew during a reopening.               *)
OneAtATime ==
  /\ phase = "dropped" => \A s \in Sources : ~InFlight(s)
  /\ phase = "restoring" => \A s \in Sources : InFlight(s) => again[s]

(***************************************************************************)
(* What a source has at each point of its mount.                           *)
(***************************************************************************)
Holding == {"reading", "creating", "counting", "keeping", "mounted", "remounted"}

Shape(s) ==
  /\ Vending(s) => kind[s] = "iceberg"
  /\ ~IsList(s) => file[s] = 1
  /\ Vending(s) \/ at[s] \in {"new", "waiting"} => tables[s] = {}
  /\ at[s] \in {"reading", "creating"} => \A t \in tables[s] : t.origin < file[s]
  /\ at[s] = "counting" =>
       \A t \in tables[s] :
         t.origin < file[s] \/ (t.origin = file[s] /\ t.name \in Made(s))
  /\ at[s] \in {"keeping", "mounted", "remounted"} => tables[s] # {}
  /\ at[s] = "keeping" => kind[s] \in {"folder", "s3", "catalog", "iceberg"}
  /\ kind[s] = "folder" => at[s] # "remounted" /\ (at[s] = "mounted" => s \in handles)

(* s makes the relation of this name from its file f. *)
Of(s, n, f) == [name |-> n, by |-> s, origin |-> f]
Has(s, n, f) == Of(s, n, f) \in relations /\ (HasFile(s) => <<s, f>> \in registered)

Known(s, r) ==
  /\ at[s] \in Holding /\ phase # "dropped"
  /\ \/ \E t \in tables[s] : r = Of(s, t.name, t.origin)
     \/ at[s] = "counting" /\ \E n \in Made(s) : r = Of(s, n, file[s])

(* A relation of a folder's book that is not, or not yet, among the tables. *)
Spare(s, ts, r) ==
  kind[s] = "folder" /\ r.origin \in Books /\ r.name \notin NamesOf(ts)

Owned(s) ==
  \A r \in relations : r.by = s => Partial(s) \/ Spare(s, tables[s], r) \/ Known(s, r)

(* The files of s come one after the other.                                *)
InTurn(s) ==
  \A r \in relations : r.by = s =>
    /\ at[s] # "new"
    /\ at[s] \in {"reading", "creating"} => r.origin < file[s]
    /\ at[s] = "counting" => r.origin <= file[s]

Backed(s) ==
  /\ at[s] \in Holding /\ phase # "dropped" => \A t \in tables[s] : Has(s, t.name, t.origin)
  /\ at[s] = "counting" /\ phase # "dropped" => \A n \in Made(s) : Has(s, n, file[s])
  /\ at[s] = "creating" /\ HasFile(s) => <<s, file[s]>> \in registered

NoFileLeft(s) ==
  \A f \in 1..Files :
    <<s, f>> \in registered =>
      Reads(relations, <<s, f>>) \/ (at[s] = "creating" /\ file[s] = f)

(* The labels s has reserved and not given back. *)
Holds(s, l) ==
  \/ at[s] \in Holding \cup {"removing"} /\ \E t \in tables[s] : t.name.label = l
  \/ at[s] \in {"reading", "creating", "counting", "undoing"} /\ l = label[s]

Local(s) ==
  /\ Shape(s)
  /\ Owned(s)
  /\ InTurn(s)
  /\ Backed(s)
  /\ NoFileLeft(s)
  /\ \A l \in Labels : Holds(s, l) => l \in reserved

Separate == \A s, q \in Sources, l \in Labels : Holds(s, l) /\ Holds(q, l) => s = q

MInv ==
  /\ TInv
  /\ OneAtATime
  /\ \A s \in Sources : Local(s)
  /\ Separate

(***************************************************************************)
(* Credentials.  A session is that of a mount under way, of a source of    *)
(* the workbook, or of one whose mount could not be undone.                *)
(***************************************************************************)
Fresh == {"new", "waiting", "vending", "rolling", "cleaning"}

SessionsInv ==
  /\ secrets \subseteq sessions
  /\ \A s \in sessions :
       /\ kind[s] = "iceberg"
       /\ at[s] \notin Fresh \cup {"removed"}

(* No other source vends for the provider of s.                            *)
Alone(s) == \A q \in Sources : s \in Named(q) => q = s

SecretsInv == \A s \in sessions : Alone(s) => s \in secrets
-----------------------------------------------------------------------------
(***************************************************************************)
(* Sequences without repetitions.                                          *)
(***************************************************************************)

Distinct(S) == {q \in Seq(S) : IsInjective(q)}

LEMMA AppendDistinct ==
  ASSUME NEW S, NEW q \in Distinct(S), NEW x \in S, x \notin ToSet(q)
  PROVE  Append(q, x) \in Distinct(S) /\ ToSet(Append(q, x)) = ToSet(q) \cup {x}
<1> DEFINE a == Append(q, x)
<1>1. /\ a \in Seq(S) /\ Len(a) = Len(q) + 1 /\ Len(q) \in Nat
      /\ \A i \in 1..Len(q) : a[i] = q[i]
      /\ a[Len(q) + 1] = x
  BY DEF Distinct
<1>2. DOMAIN a = 1..(Len(q) + 1) /\ DOMAIN q = 1..Len(q)
  BY <1>1 DEF Distinct
<1> HIDE DEF a
<1>3. \A i \in 1..Len(q) : a[i] # x
  BY <1>1, <1>2 DEF ToSet
<1>4. IsInjective(a)
  BY <1>1, <1>2, <1>3 DEF IsInjective, Distinct
<1>5. ToSet(a) = ToSet(q) \cup {x}
  BY <1>1, <1>2 DEF ToSet
<1> QED BY <1>1, <1>4, <1>5 DEF Distinct, a

LEMMA TailDistinct ==
  ASSUME NEW S, NEW q \in Distinct(S), q # <<>>
  PROVE  /\ Tail(q) \in Distinct(S) /\ ToSet(Tail(q)) = ToSet(q) \ {Head(q)}
         /\ Head(q) \in ToSet(q) /\ ToSet(q) \subseteq S
<1> DEFINE t == Tail(q)
<1>1. /\ t \in Seq(S) /\ Len(q) \in Nat \ {0} /\ Len(t) = Len(q) - 1 /\ Head(q) = q[1]
      /\ \A i \in 1..(Len(q) - 1) : t[i] = q[i + 1]
  BY DEF Distinct
<1>2. DOMAIN t = 1..(Len(q) - 1) /\ DOMAIN q = 1..Len(q)
  BY <1>1 DEF Distinct
<1> HIDE DEF t
<1>3. IsInjective(t)
  <2> SUFFICES ASSUME NEW i \in 1..(Len(q) - 1), NEW j \in 1..(Len(q) - 1), t[i] = t[j]
               PROVE  i = j
    BY <1>2 DEF IsInjective
  <2>1. i + 1 \in 1..Len(q) /\ j + 1 \in 1..Len(q) /\ q[i + 1] = q[j + 1]
    BY <1>1
  <2>2. i + 1 = j + 1
    BY <1>2, <2>1 DEF IsInjective, Distinct
  <2> QED BY <2>2
<1>4. ASSUME NEW x \in ToSet(t) PROVE x \in ToSet(q) \ {Head(q)}
  <2>1. PICK i \in 1..(Len(q) - 1) : x = t[i]
    BY <1>2 DEF ToSet
  <2>2. i + 1 \in 1..Len(q) /\ 1 \in 1..Len(q) /\ i + 1 # 1 /\ x = q[i + 1]
    BY <1>1, <2>1
  <2>3. q[i + 1] # q[1]
    BY <1>2, <2>2 DEF IsInjective, Distinct
  <2> QED BY <1>1, <1>2, <2>2, <2>3 DEF ToSet
<1>5. ASSUME NEW x \in ToSet(q) \ {Head(q)} PROVE x \in ToSet(t)
  <2>1. PICK i \in 1..Len(q) : x = q[i]
    BY <1>2 DEF ToSet
  <2>2. i # 1 /\ i - 1 \in 1..(Len(q) - 1) /\ t[i - 1] = q[i]
    BY <1>1, <2>1
  <2> QED BY <1>2, <2>1, <2>2 DEF ToSet
<1>6. Head(q) \in ToSet(q) /\ ToSet(q) \subseteq S
  BY <1>1, <1>2 DEF ToSet, Distinct
<1> QED BY <1>1, <1>3, <1>4, <1>5, <1>6 DEF Distinct, t

LEMMA RemoveDistinct ==
  ASSUME NEW S, NEW q \in Distinct(S), NEW k \in DOMAIN q
  PROVE  /\ RemoveAt(q, k) \in Distinct(S)
         /\ ToSet(RemoveAt(q, k)) = ToSet(q) \ {q[k]}
<1> DEFINE r == RemoveAt(q, k)
<1>1. /\ Len(q) \in Nat /\ k \in 1..Len(q) /\ DOMAIN q = 1..Len(q) /\ q \in Seq(S)
  BY DEF Distinct
<1>2. /\ r \in Seq(S) /\ Len(r) = Len(q) - 1
      /\ \A i \in 1..(Len(q) - 1) : r[i] = IF i < k THEN q[i] ELSE q[i + 1]
  <2> DEFINE a == SubSeq(q, 1, k - 1)
             b == SubSeq(q, k + 1, Len(q))
  <2>1. /\ a \in Seq(S) /\ Len(a) = k - 1
        /\ \A i \in 1..(k - 1) : a[i] = q[i]
    BY <1>1, SMTT(30)
  <2>2. /\ b \in Seq(S) /\ Len(b) = Len(q) - k
        /\ \A i \in 1..(Len(q) - k) : b[i] = q[k + i]
    <3>1. k + 1 \in Int /\ Len(q) \in Int /\ \A i \in (k + 1)..Len(q) : q[i] \in S
      BY <1>1
    <3>2. /\ b \in Seq(S)
          /\ Len(b) = IF k + 1 <= Len(q) THEN Len(q) - (k + 1) + 1 ELSE 0
          /\ \A i \in 1..(Len(q) - (k + 1) + 1) : b[i] = q[(k + 1) + i - 1]
      BY <3>1, SubSeqProperties
    <3>3. \A i \in 1..(Len(q) - k) : (k + 1) + i - 1 = k + i
      BY <1>1
    <3> QED BY <1>1, <3>2, <3>3
  <2>3. r = a \o b
    BY DEF RemoveAt
  <2> HIDE DEF a, b
  <2>4. /\ r \in Seq(S) /\ Len(r) = Len(a) + Len(b)
        /\ \A i \in 1..Len(r) : r[i] = IF i <= Len(a) THEN a[i] ELSE b[i - Len(a)]
    <3>1. a \in Seq(S) /\ b \in Seq(S)
      BY <2>1, <2>2
    <3>2. /\ a \o b \in Seq(S) /\ Len(a \o b) = Len(a) + Len(b)
          /\ \A i \in 1..(Len(a) + Len(b)) :
               (a \o b)[i] = IF i <= Len(a) THEN a[i] ELSE b[i - Len(a)]
      BY <3>1, ConcatProperties
    <3> QED BY <2>3, <3>2
  <2> HIDE DEF r
  <2>5. Len(r) = Len(q) - 1
    BY <1>1, <2>1, <2>2, <2>4
  <2>6. ASSUME NEW i \in 1..(Len(q) - 1) PROVE r[i] = IF i < k THEN q[i] ELSE q[i + 1]
    <3>1. CASE i < k
      BY <1>1, <2>1, <2>4, <2>5, <3>1
    <3>2. CASE ~(i < k)
      <4>1. i - Len(a) \in 1..(Len(q) - k) /\ k + (i - Len(a)) = i + 1 /\ ~(i <= Len(a))
        BY <1>1, <2>1, <3>2
      <4> QED BY <1>1, <2>2, <2>4, <2>5, <3>2, <4>1
    <3> QED BY <3>1, <3>2
  <2> QED BY <2>4, <2>5, <2>6
<1>3. DOMAIN r = 1..(Len(q) - 1)
  BY <1>2
<1> HIDE DEF r
<1>4. IsInjective(r)
  <2> DEFINE m(i) == IF i < k THEN i ELSE i + 1
  <2>1. \A i \in 1..(Len(q) - 1) : m(i) \in 1..Len(q) /\ r[i] = q[m(i)]
    BY <1>1, <1>2
  <2>2. \A i, j \in 1..(Len(q) - 1) : m(i) = m(j) => i = j
    BY <1>1
  <2> HIDE DEF m
  <2>3. \A i, j \in 1..Len(q) : q[i] = q[j] => i = j
    BY <1>1 DEF IsInjective, Distinct
  <2> QED BY <1>3, <2>1, <2>2, <2>3 DEF IsInjective
<1>5. ASSUME NEW x \in ToSet(r) PROVE x \in ToSet(q) \ {q[k]}
  <2>1. PICK i \in 1..(Len(q) - 1) : x = r[i]
    BY <1>3 DEF ToSet
  <2>2. PICK j \in 1..Len(q) : x = q[j] /\ j # k
    BY <1>1, <1>2, <2>1
  <2> QED BY <1>1, <2>2 DEF ToSet, IsInjective, Distinct
<1>6. ASSUME NEW x \in ToSet(q) \ {q[k]} PROVE x \in ToSet(r)
  <2>1. PICK j \in 1..Len(q) : x = q[j] /\ j # k
    BY <1>1 DEF ToSet
  <2>2. PICK i \in 1..(Len(q) - 1) : x = r[i]
    <3>1. CASE j < k
      BY <1>1, <1>2, <2>1, <3>1
    <3>2. CASE j > k
      <4>1. j - 1 \in 1..(Len(q) - 1) /\ r[j - 1] = q[j]
        BY <1>1, <1>2, <2>1, <3>2
      <4> QED BY <2>1, <4>1
    <3> QED BY <1>1, <2>1, <3>1, <3>2
  <2> QED BY <1>3, <2>2 DEF ToSet
<1> QED BY <1>2, <1>4, <1>5, <1>6 DEF Distinct, r

LEMMA ConcatDistinct ==
  ASSUME NEW S, NEW p \in Distinct(S), NEW q \in Distinct(S), ToSet(p) \cap ToSet(q) = {}
  PROVE  p \o q \in Distinct(S) /\ ToSet(p \o q) = ToSet(p) \cup ToSet(q)
<1> DEFINE r == p \o q
<1>1. /\ r \in Seq(S) /\ Len(r) = Len(p) + Len(q) /\ Len(p) \in Nat /\ Len(q) \in Nat
      /\ \A i \in 1..Len(r) : r[i] = IF i <= Len(p) THEN p[i] ELSE q[i - Len(p)]
      /\ DOMAIN p = 1..Len(p) /\ DOMAIN q = 1..Len(q)
  BY DEF Distinct
<1>2. DOMAIN r = 1..(Len(p) + Len(q))
  BY <1>1
<1> HIDE DEF r
<1>3. \A i \in 1..Len(p), j \in 1..Len(q) : p[i] # q[j]
  BY <1>1 DEF ToSet
<1>4. IsInjective(r)
  <2> SUFFICES ASSUME NEW i \in 1..Len(r), NEW j \in 1..Len(r), r[i] = r[j] PROVE i = j
    BY <1>1, <1>2 DEF IsInjective
  <2>1. CASE i <= Len(p) /\ j <= Len(p)
    BY <1>1, <2>1 DEF IsInjective, Distinct
  <2>2. CASE ~(i <= Len(p)) /\ ~(j <= Len(p))
    <3>1. i - Len(p) \in 1..Len(q) /\ j - Len(p) \in 1..Len(q)
      BY <1>1, <2>2
    <3>2. q[i - Len(p)] = q[j - Len(p)]
      BY <1>1, <2>2
    <3>3. i - Len(p) = j - Len(p)
      BY <1>1, <3>1, <3>2 DEF IsInjective, Distinct
    <3> QED BY <1>1, <3>3
  <2>3. CASE i <= Len(p) /\ ~(j <= Len(p))
    <3>1. j - Len(p) \in 1..Len(q) /\ i \in 1..Len(p)
      BY <1>1, <2>3
    <3> QED BY <1>1, <1>3, <2>3, <3>1
  <2>4. CASE ~(i <= Len(p)) /\ j <= Len(p)
    <3>1. i - Len(p) \in 1..Len(q) /\ j \in 1..Len(p)
      BY <1>1, <2>4
    <3> QED BY <1>1, <1>3, <2>4, <3>1
  <2> QED BY <2>1, <2>2, <2>3, <2>4
<1>5. ASSUME NEW x \in ToSet(r) PROVE x \in ToSet(p) \cup ToSet(q)
  <2>1. PICK i \in 1..Len(r) : x = r[i]
    BY <1>1, <1>2 DEF ToSet
  <2>2. CASE i <= Len(p)
    BY <1>1, <2>1, <2>2 DEF ToSet
  <2>3. CASE ~(i <= Len(p))
    <3>1. i - Len(p) \in 1..Len(q)
      BY <1>1, <2>3
    <3> QED BY <1>1, <2>1, <2>3, <3>1 DEF ToSet
  <2> QED BY <2>2, <2>3
<1>6. ASSUME NEW x \in ToSet(p) PROVE x \in ToSet(r)
  <2>1. PICK i \in 1..Len(p) : x = p[i]
    BY <1>1 DEF ToSet
  <2>2. i \in 1..Len(r) /\ r[i] = x
    BY <1>1, <2>1
  <2> QED BY <1>1, <1>2, <2>2 DEF ToSet
<1>7. ASSUME NEW x \in ToSet(q) PROVE x \in ToSet(r)
  <2>1. PICK i \in 1..Len(q) : x = q[i]
    BY <1>1 DEF ToSet
  <2>2. i + Len(p) \in 1..Len(r) /\ r[i + Len(p)] = x
    <3>1. i + Len(p) \in 1..Len(r) /\ ~(i + Len(p) <= Len(p)) /\ i + Len(p) - Len(p) = i
      BY <1>1, <2>1
    <3> QED BY <1>1, <2>1, <3>1
  <2> QED BY <1>1, <1>2, <2>2 DEF ToSet
<1> QED BY <1>1, <1>4, <1>5, <1>6, <1>7 DEF Distinct, r

LEMMA EmptyDistinct ==
  ASSUME NEW S
  PROVE  <<>> \in Distinct(S) /\ ToSet(<<>>) = {}
BY DEF Distinct, IsInjective, ToSet

-----------------------------------------------------------------------------
(***************************************************************************)
(* Types.                                                                  *)
(***************************************************************************)
Points == {"new", "vending", "rolling", "cleaning", "configuring", "revoking",
           "undoing", "reading", "creating", "counting", "keeping", "failed",
           "mounted", "removing", "released", "removed",
           "waiting", "remounted", "away"}

LEMMA FirstLabel ==
  /\ Files \in Nat \ {0} /\ MaxReopens \in Nat
  /\ Sources # {} => 1 \in Labels
<1>1. Files \in Nat \ {0} /\ MaxReopens \in Nat
  BY BoundsAssumption
<1>2. ASSUME Sources # {} PROVE 1 \in Labels
  <2>1. Cardinality(Sources) \in Nat /\ Cardinality(Sources) # 0
    BY <1>2, SourcesAssumption, FS_CardinalityType, FS_EmptySet
  <2>2. \A n, m \in Nat \ {0} : 1 <= 2 * n * m /\ 2 * n * m \in Nat
    OBVIOUS
  <2> QED BY <1>1, <2>1, <2>2 DEF Labels
<1> QED BY <1>1, <1>2

LEMMA InitTyped ==
  ASSUME Init
  PROVE  TInv
<1>1. TypeOK
  <2>1. \A s \in Sources : 1 \in Labels
    BY FirstLabel
  <2>2. <<>> \in Seq(Sources) /\ IsInjective(<<>>)
    BY EmptyDistinct DEF Distinct
  <2>3. kind \in [Sources -> AllKinds] /\ file \in [Sources -> 1..Files]
    BY FirstLabel, KindsAssumption DEF Init
  <2>4. label \in [Sources -> Labels]
    BY <2>1 DEF Init
  <2>5. at \in [Sources -> Points]
    BY DEF Init, Points
  <2>6. reopens \in 0..MaxReopens
    BY FirstLabel DEF Init
  <2> QED BY <2>2, <2>3, <2>4, <2>5, <2>6 DEF Init, TypeOK, Points
<1>2. Places
  BY EmptyDistinct DEF Init, Places, Listed, ComingBack
<1> QED BY <1>1, <1>2 DEF TInv

LEMMA AfterType ==
  ASSUME TypeOK, NEW s \in Sources, NEW f, NEW remount
  PROVE  After(s, f, remount) \subseteq 1..Files
<1>1. OriginsOf(saved[s]) \subseteq 1..Files
  BY DEF TypeOK, OriginsOf, Table
<1>2. {1} \subseteq 1..Files
  BY FirstLabel
<1> QED BY <1>1, <1>2 DEF After

LEMMA ChosenType ==
  ASSUME NEW found \in SUBSET Table, NEW t \in Table
  PROVE  /\ (IF found = {} THEN t
             ELSE [t EXCEPT !.id = (CHOOSE p \in found : TRUE).id]) \in Table
         /\ (IF found = {} THEN t
             ELSE LET p == CHOOSE p \in found : TRUE
                  IN  [t EXCEPT !.id = p.id, !.name = p.name]) \in Table
<1>1. \A q \in Table : /\ [t EXCEPT !.id = q.id] \in Table
                       /\ [t EXCEPT !.id = q.id, !.name = q.name] \in Table
  BY DEF Table
<1> DEFINE p == CHOOSE p \in found : TRUE
<1>2. found # {} => p \in Table
  OBVIOUS
<1> HIDE DEF p
<1>3. found # {} => /\ [t EXCEPT !.id = p.id] \in Table
                    /\ [t EXCEPT !.id = p.id, !.name = p.name] \in Table
  BY <1>1, <1>2
<1> QED BY <1>3 DEF p

LEMMA RenumberedType ==
  ASSUME TypeOK, NEW s \in Sources, NEW ts \in SUBSET Table
  PROVE  Renumbered(s, ts) \in SUBSET Table
<1>1. ASSUME NEW t \in ts
      PROVE  LET same == {p \in saved[s] : Rank(saved[s], p) = Rank(ts, t)}
             IN  (IF same = {} THEN t
                  ELSE [t EXCEPT !.id = (CHOOSE p \in same : TRUE).id]) \in Table
  <2> DEFINE same == {p \in saved[s] : Rank(saved[s], p) = Rank(ts, t)}
  <2>1. t \in Table /\ same \in SUBSET Table
    BY DEF TypeOK
  <2> QED BY <2>1, ChosenType
<1> QED BY <1>1, Zenon DEF Renumbered

LEMMA ReconciledType ==
  ASSUME TypeOK, NEW s \in Sources, NEW ts \in SUBSET Table
  PROVE  Reconciled(s, ts) \in SUBSET Table
<1>1. ASSUME NEW t \in ts, NEW taken
      PROVE  LET found == Candidates(s, t, taken)
             IN  (IF found = {} THEN t
                  ELSE LET p == CHOOSE p \in found : TRUE
                       IN  [t EXCEPT !.id = p.id, !.name = p.name]) \in Table
  <2>1. t \in Table /\ Candidates(s, t, taken) \in SUBSET Table
    BY DEF TypeOK, Candidates
  <2> QED BY <2>1, ChosenType
<1> QED BY <1>1, Zenon DEF Reconciled

LEMMA IdentifiedType ==
  ASSUME TypeOK, NEW s \in Sources, NEW ts \in SUBSET Table
  PROVE  Identified(s, ts) \in SUBSET Table
BY RenumberedType, ReconciledType DEF Identified

-----------------------------------------------------------------------------
(***************************************************************************)
(* The parts the actions share.                                            *)
(***************************************************************************)

(* s goes on: it is neither complete, nor has it been. *)
StepsOn(s) ==
  /\ at' \in [Sources -> Points]
  /\ \A q \in Sources : q # s => at'[q] = at[q]
  /\ \/ /\ at'[s] \notin Listed \cup ComingBack
        /\ sources' = sources /\ back' = back
     \/ /\ at'[s] = "mounted" /\ ~again[s]
        /\ sources' = Append(sources, s) /\ back' = back
     \/ /\ at'[s] = "remounted" /\ again[s]
        /\ sources' = sources /\ back' = Append(back, s)

DataTyped ==
  /\ file' \in [Sources -> 1..Files]
  /\ label' \in [Sources -> Labels]
  /\ tables' \in [Sources -> SUBSET Table]
  /\ reserved' \in SUBSET Labels

LEMMA StepsOnPlaces ==
  ASSUME TInv, NEW s \in Sources, InFlight(s) \/ at[s] = "new",
         StepsOn(s), UNCHANGED <<kind, again, queue, phase>>
  PROVE  /\ Places' /\ at' \in [Sources -> Points]
         /\ sources' \in Distinct(Sources) /\ back' \in Distinct(Sources)
<1>1. /\ sources \in Distinct(Sources) /\ back \in Distinct(Sources)
      /\ at[s] \notin Listed \cup ComingBack
      /\ s \notin ToSet(sources)
  BY DEF TInv, TypeOK, Places, Distinct, InFlight, Vending, Scanning, Listed, ComingBack
<1>2. CASE at'[s] \notin Listed \cup ComingBack /\ sources' = sources /\ back' = back
  BY <1>1, <1>2 DEF StepsOn, TInv, Places, Listed, ComingBack
<1>3. CASE /\ at'[s] = "mounted" /\ ~again[s]
           /\ sources' = Append(sources, s) /\ back' = back
  <2>1. sources' \in Distinct(Sources) /\ ToSet(sources') = ToSet(sources) \cup {s}
    BY <1>1, <1>3, AppendDistinct
  <2> QED BY <1>1, <1>3, <2>1 DEF StepsOn, TInv, Places, Listed, ComingBack
<1>4. CASE /\ at'[s] = "remounted" /\ again[s]
           /\ sources' = sources /\ back' = Append(back, s)
  <2>1. phase = "restoring" /\ s \notin ToSet(back)
    BY <1>1, <1>4 DEF TInv, Places, ComingBack
  <2>2. back' \in Distinct(Sources) /\ ToSet(back') = ToSet(back) \cup {s}
    BY <1>1, <1>4, <2>1, AppendDistinct
  <2> QED BY <1>1, <1>4, <2>1, <2>2 DEF StepsOn, TInv, Places, Listed, ComingBack
<1> QED BY <1>2, <1>3, <1>4 DEF StepsOn

LEMMA ScanTyped ==
  ASSUME TypeOK, NEW s \in Sources, NEW f \in 1..Files, Scan(s, f)
  PROVE  /\ at' = [at EXCEPT ![s] = "reading"]
         /\ file' \in [Sources -> 1..Files]
         /\ label' \in [Sources -> Labels]
         /\ reserved' \in SUBSET Labels
BY DEF TypeOK, Scan, Goto, Reserve, Free

LEMMA BeginTyped ==
  ASSUME TypeOK, NEW s \in Sources, NEW f \in 1..Files, Begin(s, f)
  PROVE  /\ \E w \in {"reading", "vending"} : at' = [at EXCEPT ![s] = w]
         /\ file' \in [Sources -> 1..Files]
         /\ label' \in [Sources -> Labels]
         /\ reserved' \in SUBSET Labels
BY ScanTyped DEF TypeOK, Begin, Goto

LEMMA GoesTo ==
  ASSUME TypeOK, NEW s \in Sources, NEW w \in Points, Goto(s, w)
  PROVE  /\ at' \in [Sources -> Points] /\ at'[s] = w
         /\ \A q \in Sources : q # s => at'[q] = at[q]
BY DEF TypeOK, Goto, Points

LEMMA FailSteps ==
  ASSUME TypeOK, NEW s \in Sources, Fail(s)
  PROVE  StepsOn(s) /\ at'[s] \in {"failed", "away"}
<1>1. {"failed", "away"} \subseteq Points \ (Listed \cup ComingBack)
  BY DEF Points, Listed, ComingBack
<1> QED BY <1>1, GoesTo DEF Fail, StepsOn, Points

LEMMA CompleteSteps ==
  ASSUME TypeOK, NEW s \in Sources, Complete(s)
  PROVE  StepsOn(s) /\ at'[s] = (IF again[s] THEN "remounted" ELSE "mounted")
BY GoesTo DEF Complete, StepsOn, Points

LEMMA MovesOn ==
  ASSUME TypeOK, NEW s \in Sources, NEW w \in Points \ (Listed \cup ComingBack), Goto(s, w),
         UNCHANGED <<sources, back>>
  PROVE  StepsOn(s) /\ at'[s] = w
BY GoesTo DEF StepsOn

LEMMA OnwardSteps ==
  ASSUME TypeOK, NEW s \in Sources, NEW scanned \in SUBSET Table, Onward(s, scanned)
  PROVE  StepsOn(s) /\ DataTyped
<1>1. CASE /\ tables' = [tables EXCEPT ![s] = scanned]
           /\ \E f \in After(s, file[s], again[s]) : Scan(s, f)
           /\ UNCHANGED <<sources, back>>
  <2>1. PICK f \in 1..Files : Scan(s, f)
    BY <1>1, AfterType
  <2>2. "reading" \in Points \ (Listed \cup ComingBack) /\ Goto(s, "reading")
    BY <2>1 DEF Points, Listed, ComingBack, Scan
  <2>3. StepsOn(s)
    BY <1>1, <2>2, MovesOn
  <2> QED BY <1>1, <2>1, <2>3, ScanTyped DEF TypeOK, DataTyped
<1>2. CASE /\ tables' = [tables EXCEPT ![s] = Identified(s, scanned)]
           /\ IF scanned = {} THEN Fail(s)
              ELSE IF kind[s] \in {"folder", "s3", "catalog", "iceberg"} /\ ~again[s]
              THEN Goto(s, "keeping") /\ UNCHANGED <<sources, back>>
              ELSE Complete(s)
           /\ UNCHANGED <<file, label, reserved>>
  <2>1. "keeping" \in Points \ (Listed \cup ComingBack)
    BY DEF Points, Listed, ComingBack
  <2>2. StepsOn(s)
    BY <1>2, <2>1, MovesOn, FailSteps, CompleteSteps
  <2>3. tables' \in [Sources -> SUBSET Table]
    BY <1>2, IdentifiedType DEF TypeOK
  <2> QED BY <1>2, <2>2, <2>3 DEF TypeOK, DataTyped
<1> QED BY <1>1, <1>2 DEF Onward

LEMMA FileFailsSteps ==
  ASSUME TypeOK, NEW s \in Sources, FileFails(s)
  PROVE  StepsOn(s) /\ DataTyped
<1>1. CASE IsList(s)
  BY <1>1, OnwardSteps DEF FileFails, TypeOK
<1>2. CASE ~IsList(s)
  <2>1. "undoing" \in Points \ (Listed \cup ComingBack)
    BY DEF Points, Listed, ComingBack
  <2>2. StepsOn(s)
    BY <1>2, <2>1, MovesOn, FailSteps DEF FileFails
  <2> QED BY <1>2, <2>2 DEF FileFails, TypeOK, DataTyped
<1> QED BY <1>1, <1>2

-----------------------------------------------------------------------------
(***************************************************************************)
(* Every step keeps the types, and the places of the sources.              *)
(***************************************************************************)
WorldTyped ==
  /\ saved' \in [Sources -> SUBSET Table]
  /\ relations' \in SUBSET Relation
  /\ \A r, q \in relations' : r.name = q.name => r = q
  /\ registered' \in SUBSET (Sources \X (1..Files))
  /\ handles' \in SUBSET Sources
  /\ secrets' \in SUBSET Sources
  /\ sessions' \in SUBSET Sources
  /\ aborted' \in BOOLEAN
  /\ phase' \in {"none", "dropped", "restoring"}
  /\ reopens' \in 0..MaxReopens

LEMMA StepsOnTyped ==
  ASSUME TInv, NEW s \in Sources, InFlight(s) \/ at[s] = "new",
         StepsOn(s), DataTyped, WorldTyped, UNCHANGED <<kind, again, queue, phase>>
  PROVE  TInv'
<1>1. /\ Places' /\ at' \in [Sources -> Points]
      /\ sources' \in Distinct(Sources) /\ back' \in Distinct(Sources)
  BY StepsOnPlaces
<1>2. queue' \in Distinct(Sources)
  BY DEF TInv, TypeOK, Distinct
<1> QED BY <1>1, <1>2 DEF TInv, TypeOK, DataTyped, WorldTyped, Distinct, Points

LEMMA DropTyped ==
  ASSUME TypeOK, NEW names, Drop(names)
  PROVE  /\ relations' \in SUBSET Relation
         /\ \A r, q \in relations' : r.name = q.name => r = q
         /\ registered' \in SUBSET (Sources \X (1..Files))
BY DEF TypeOK, Drop

LEMMA CredentialSteps ==
  ASSUME TInv, NEW s \in Sources,
         \/ LoadFails(s) \/ NoneVended(s) \/ Vend(s) \/ VendFails(s)
         \/ RollBack(s) \/ CleanUp(s) \/ Configured(s) \/ ConfigureFails(s) \/ Undo(s)
  PROVE  TInv'
<1>1. TypeOK /\ UNCHANGED <<kind, again, queue, phase>>
  BY DEF TInv, LoadFails, NoneVended, Vend, VendFails, RollBack, CleanUp, Configured,
         ConfigureFails, Undo, untouched
<1>2. InFlight(s)
  BY DEF LoadFails, NoneVended, Vend, VendFails, RollBack, CleanUp, Configured,
         ConfigureFails, Undo, InFlight, Vending
<1>3. /\ {"configuring", "rolling", "cleaning", "creating", "revoking"} \subseteq
           Points \ (Listed \cup ComingBack)
  BY DEF Points, Listed, ComingBack
<1>4. StepsOn(s)
  <2>1. CASE LoadFails(s) \/ CleanUp(s) \/ Undo(s)
    BY <1>1, <2>1, FailSteps DEF LoadFails, CleanUp, Undo
  <2>2. CASE NoneVended(s) \/ Vend(s)
    BY <1>1, <1>3, <2>2, MovesOn DEF NoneVended, Vend
  <2>3. CASE VendFails(s) \/ RollBack(s)
    BY <1>1, <1>3, <2>3, MovesOn DEF VendFails, RollBack
  <2>4. CASE Configured(s) \/ ConfigureFails(s)
    BY <1>1, <1>3, <2>4, MovesOn DEF Configured, ConfigureFails
  <2> QED BY <2>1, <2>2, <2>3, <2>4
<1>5. DataTyped
  <2>1. CASE Configured(s)
    BY <1>1, <2>1 DEF Configured, Reserve, Free, TypeOK, DataTyped, untouched
  <2>2. CASE Undo(s)
    BY <1>1, <2>2 DEF Undo, TypeOK, DataTyped, untouched
  <2>3. CASE ~Configured(s) /\ ~Undo(s)
    <3>1. UNCHANGED <<file, label, tables, reserved>>
      BY <2>3 DEF LoadFails, NoneVended, Vend, VendFails, RollBack, CleanUp,
                  ConfigureFails, untouched
    <3> QED BY <1>1, <3>1 DEF TypeOK, DataTyped
  <2> QED BY <2>1, <2>2, <2>3
<1>6. WorldTyped
  <2>1. UNCHANGED <<saved, relations, registered, handles, phase, reopens>>
    BY DEF LoadFails, NoneVended, Vend, VendFails, RollBack, CleanUp, Configured,
           ConfigureFails, Undo, untouched, duckdb
  <2>2. /\ secrets' \in SUBSET Sources
        /\ sessions' \in SUBSET Sources
        /\ aborted' \in BOOLEAN
    <3>1. CASE LoadFails(s) \/ NoneVended(s) \/ Configured(s) \/ ConfigureFails(s)
      BY <1>1, <3>1 DEF TypeOK, LoadFails, NoneVended, Configured, ConfigureFails, credentials
    <3>2. CASE Vend(s) \/ VendFails(s) \/ RollBack(s)
      BY <1>1, <3>2 DEF TypeOK, Vend, VendFails, RollBack
    <3>3. CASE CleanUp(s) \/ Undo(s)
      BY <1>1, <3>3 DEF TypeOK, CleanUp, Undo, Withdraw, DropSecrets, credentials
    <3> QED BY <3>1, <3>2, <3>3
  <2> QED BY <1>1, <2>1, <2>2 DEF TypeOK, WorldTyped
<1> QED BY <1>1, <1>2, <1>4, <1>5, <1>6, StepsOnTyped

LEMMA MadeNames ==
  ASSUME TypeOK, NEW s \in Sources
  PROVE  Made(s) \subseteq Names /\ Made(s) # {}
<1>1. MembersOf(s) \subseteq Members /\ MembersOf(s) # {}
  BY DEF MembersOf, Members
<1>2. label[s] \in Labels
  BY DEF TypeOK
<1>3. \A m \in MembersOf(s) : [label |-> label[s], member |-> m] \in Names
  BY <1>1, <1>2 DEF Names
<1> QED BY <1>1, <1>3 DEF Made

LEMMA CountsType ==
  ASSUME TypeOK, NEW s \in Sources, NEW n \in Made(s)
  PROVE  Counts(s, n) \in Table
<1>1. n \in Names /\ file[s] \in 1..Files /\ reopens \in 0..MaxReopens
  BY MadeNames DEF TypeOK
<1>2. n.member \in Members
  BY <1>1 DEF Names
<1> QED BY <1>1, <1>2 DEF Counts, Table, Ids

LEMMA ScanSteps ==
  ASSUME TInv, NEW s \in Sources,
         \/ Mount(s) \/ Read(s) \/ ReadFails(s) \/ Create(s) \/ CreateFails(s)
         \/ Counted(s) \/ CountFails(s) \/ Kept(s) \/ KeepFails(s)
  PROVE  TInv'
<1>1. TypeOK
  BY DEF TInv
<1>2. UNCHANGED <<kind, again, queue, phase>>
  BY DEF Mount, Read, ReadFails, Create, CreateFails, Counted, CountFails, Kept, KeepFails,
         unscanned, workspace
<1>3. InFlight(s) \/ at[s] = "new"
  BY DEF Mount, Read, ReadFails, Create, CreateFails, Counted, CountFails, Kept, KeepFails,
         InFlight, Scanning
<1>4. {"reading", "vending", "creating", "counting"} \subseteq Points \ (Listed \cup ComingBack)
  BY DEF Points, Listed, ComingBack
<1>5. StepsOn(s) /\ DataTyped
  <2>1. CASE Mount(s)
    <3>1. Begin(s, 1) /\ 1 \in 1..Files /\ UNCHANGED <<tables, sources, back>>
      BY <2>1, FirstLabel DEF Mount, workspace
    <3>2. PICK w \in {"reading", "vending"} : Goto(s, w)
      BY <1>1, <3>1, BeginTyped DEF Goto
    <3>3. StepsOn(s)
      BY <1>1, <1>4, <3>1, <3>2, MovesOn
    <3> QED BY <1>1, <3>1, <3>3, BeginTyped DEF TypeOK, DataTyped
  <2>2. CASE Read(s) \/ Create(s)
    <3>1. StepsOn(s)
      BY <1>1, <1>4, <2>2, MovesOn DEF Read, Create, workspace
    <3> QED BY <1>1, <2>2, <3>1 DEF Read, Create, TypeOK, DataTyped
  <2>3. CASE ReadFails(s) \/ CreateFails(s) \/ CountFails(s)
    BY <1>1, <2>3, FileFailsSteps DEF ReadFails, CreateFails, CountFails
  <2>4. CASE Counted(s)
    <3>1. PICK n \in Uncounted(s) :
            LET scanned == tables[s] \cup {Counts(s, n)}
            IN  IF Uncounted(s) = {n}
                THEN Onward(s, scanned)
                ELSE /\ tables' = [tables EXCEPT ![s] = scanned]
                     /\ UNCHANGED <<at, file, label, sources, back, reserved>>
      BY <2>4 DEF Counted
    <3> DEFINE scanned == tables[s] \cup {Counts(s, n)}
    <3>2. scanned \in SUBSET Table
      BY <1>1, CountsType DEF TypeOK, Uncounted
    <3>3. CASE Uncounted(s) = {n}
      BY <1>1, <3>1, <3>2, <3>3, OnwardSteps
    <3>4. CASE Uncounted(s) # {n}
      <4>1. /\ tables' = [tables EXCEPT ![s] = scanned]
            /\ UNCHANGED <<at, file, label, sources, back, reserved>>
        BY <3>1, <3>4
      <4>2. at[s] = "counting"
        BY <2>4 DEF Counted
      <4> HIDE DEF scanned
      <4> QED BY <1>1, <1>4, <3>2, <4>1, <4>2 DEF TypeOK, StepsOn, DataTyped, Points
    <3> QED BY <3>3, <3>4
  <2>5. CASE Kept(s)
    BY <1>1, <2>5, CompleteSteps DEF Kept, TypeOK, DataTyped
  <2>6. CASE KeepFails(s)
    BY <1>1, <2>6, FailSteps DEF KeepFails, Release, TypeOK, DataTyped
  <2> QED BY <2>1, <2>2, <2>3, <2>4, <2>5, <2>6
<1>6. WorldTyped
  <2>1. UNCHANGED <<saved, secrets, sessions, aborted, phase, reopens>>
    BY DEF Mount, Read, ReadFails, Create, CreateFails, Counted, CountFails, Kept, KeepFails,
           unscanned, workspace, credentials
  <2>2. handles' \in SUBSET Sources
    BY <1>1 DEF Mount, Read, ReadFails, Create, CreateFails, Counted, CountFails, Kept,
                KeepFails, unscanned, TypeOK
  <2>3. /\ relations' \in SUBSET Relation
        /\ \A r, q \in relations' : r.name = q.name => r = q
        /\ registered' \in SUBSET (Sources \X (1..Files))
    <3>1. CASE Mount(s) \/ ReadFails(s) \/ Counted(s) \/ Kept(s)
      BY <1>1, <3>1 DEF TypeOK, Mount, ReadFails, Counted, Kept, duckdb
    <3>2. CASE Read(s)
      BY <1>1, <3>2 DEF TypeOK, Read
    <3>5. CASE CreateFails(s)
      <4>1. PICK m \in MembersOf(s) :
              LET stay == {n \in Made(s) : n.member < m}
              IN  /\ \A r \in relations : r.name \notin stay
                  /\ relations' = relations \cup
                        {[name |-> n, by |-> s, origin |-> file[s]] : n \in stay}
                  /\ registered' = IF stay = {} THEN registered \ {<<s, file[s]>>}
                                   ELSE registered
        BY <3>5 DEF CreateFails
      <4> DEFINE stay == {n \in Made(s) : n.member < m}
                 new == {[name |-> n, by |-> s, origin |-> file[s]] : n \in stay}
      <4>2. relations' = relations \cup new /\ registered' \subseteq registered
        BY <4>1
      <4>3. new \subseteq Relation
        BY <1>1, MadeNames DEF Relation, TypeOK
      <4>4. \A r \in relations, q \in new : r.name # q.name
        BY <4>1
      <4>5. \A r, q \in new : r.name = q.name => r = q
        OBVIOUS
      <4> HIDE DEF new
      <4> QED BY <1>1, <4>2, <4>3, <4>4, <4>5 DEF TypeOK
    <3>3. CASE Create(s)
      <4> DEFINE new == {[name |-> n, by |-> s, origin |-> file[s]] : n \in Made(s)}
      <4>1. relations' = relations \cup new /\ registered' = registered
        BY <3>3 DEF Create
      <4>2. new \subseteq Relation
        BY <1>1, MadeNames DEF Relation, TypeOK
      <4>3. \A r \in relations, q \in new : r.name # q.name
        BY <3>3 DEF Create, Taken
      <4>4. \A r, q \in new : r.name = q.name => r = q
        OBVIOUS
      <4> HIDE DEF new
      <4> QED BY <1>1, <4>1, <4>2, <4>3, <4>4 DEF TypeOK
    <3>4. CASE CountFails(s) \/ KeepFails(s)
      BY <1>1, <3>4, DropTyped DEF CountFails, KeepFails, duckdb, TypeOK
    <3> QED BY <3>1, <3>2, <3>3, <3>4, <3>5
  <2> QED BY <1>1, <2>1, <2>2, <2>3 DEF TypeOK, WorldTyped
<1> QED BY <1>2, <1>3, <1>5, <1>6, StepsOnTyped

LEMMA RevokeStep ==
  ASSUME TInv, NEW s \in Sources, Revoke(s)
  PROVE  TInv'
<1>1. /\ UNCHANGED <<at, kind, file, label, tables, saved, again, sources, queue, back,
                     reserved, relations, registered, handles, phase, reopens>>
      /\ secrets' \in SUBSET Sources /\ sessions' \in SUBSET Sources /\ aborted' \in BOOLEAN
  BY DEF TInv, TypeOK, Revoke, Withdraw, DropSecrets, credentials, untouched, duckdb
<1>2. TypeOK'
  BY <1>1 DEF TInv, TypeOK
<1>3. Places'
  BY <1>1 DEF TInv, Places
<1> QED BY <1>2, <1>3 DEF TInv

LEMMA RemovalSteps ==
  ASSUME TInv, NEW s \in Sources, RemoveSource(s) \/ Released(s) \/ Removed(s)
  PROVE  TInv'
<1>1. TypeOK /\ sources \in Distinct(Sources)
  BY DEF TInv, TypeOK, Distinct
<1>2. CASE RemoveSource(s) \/ Released(s)
  <2>1. PICK w \in {"removing", "released"} : Goto(s, w)
    BY <1>2 DEF RemoveSource, Released
  <2>2. /\ at' \in [Sources -> Points] /\ at'[s] = w
        /\ \A q \in Sources : q # s => at'[q] = at[q]
    BY <1>1, <2>1, GoesTo DEF Points
  <2>3. at[s] \in {"mounted", "removing"} /\ phase = "none"
    BY <1>2 DEF RemoveSource, Released, TInv, Places
  <2>4. UNCHANGED <<kind, file, label, tables, again, saved, sources, queue, back, phase,
                    reopens, handles, secrets, sessions, aborted>>
    BY <1>2 DEF RemoveSource, Released, workspace, credentials
  <2>5. /\ relations' \in SUBSET Relation
        /\ \A r, q \in relations' : r.name = q.name => r = q
        /\ registered' \in SUBSET (Sources \X (1..Files))
        /\ reserved' \in SUBSET Labels
    BY <1>1, <1>2, DropTyped DEF RemoveSource, Released, Release, duckdb, TypeOK
  <2>6. TypeOK'
    BY <1>1, <2>2, <2>4, <2>5 DEF TypeOK, Points
  <2>7. Places'
    BY <2>2, <2>3, <2>4 DEF TInv, Places, Listed, ComingBack
  <2> QED BY <2>6, <2>7 DEF TInv
<1>3. CASE Removed(s)
  <2>1. PICK i \in DOMAIN sources : sources[i] = s /\ sources' = RemoveAt(sources, i)
    BY <1>3 DEF Removed
  <2>2. sources' \in Distinct(Sources) /\ ToSet(sources') = ToSet(sources) \ {s}
    BY <1>1, <2>1, RemoveDistinct
  <2>3. /\ at' \in [Sources -> Points] /\ at'[s] = "removed"
        /\ \A q \in Sources : q # s => at'[q] = at[q]
    BY <1>1, <1>3, GoesTo DEF Removed, Points
  <2>4. /\ UNCHANGED <<kind, file, label, again, saved, queue, back, phase, reopens,
                       relations, registered, reserved, secrets, sessions, aborted>>
        /\ tables' \in [Sources -> SUBSET Table] /\ handles' \in SUBSET Sources
        /\ at[s] = "released"
    BY <1>1, <1>3 DEF Removed, duckdb, credentials, TypeOK
  <2>5. TypeOK'
    BY <1>1, <2>2, <2>3, <2>4 DEF TypeOK, Points, Distinct
  <2>6. Places'
    BY <2>2, <2>3, <2>4 DEF TInv, Places, Listed, ComingBack
  <2> QED BY <2>5, <2>6 DEF TInv
<1> QED BY <1>2, <1>3

LEMMA ReopenSteps ==
  ASSUME TInv, Reopen \/ ClearWorkspace
  PROVE  TInv'
<1>1. TypeOK
  BY DEF TInv
<1>2. CASE Reopen
  <2>1. /\ relations' \in SUBSET Relation
        /\ \A r, q \in relations' : r.name = q.name => r = q
        /\ registered' \in SUBSET (Sources \X (1..Files))
    BY <1>1, <1>2, DropTyped DEF Reopen
  <2>2. /\ UNCHANGED <<kind, at, file, label, tables, again, saved, sources, queue, back,
                       reserved, handles, secrets, sessions, aborted>>
        /\ phase = "none" /\ phase' = "dropped" /\ reopens' = reopens + 1
        /\ reopens < MaxReopens
        /\ \A s \in Sources : at[s] \notin {"removing", "released"}
    BY <1>2 DEF Reopen, progress, credentials
  <2>3. reopens' \in 0..MaxReopens
    BY <1>1, <2>2, FirstLabel DEF TypeOK
  <2>4. TypeOK'
    BY <1>1, <2>1, <2>2, <2>3 DEF TypeOK
  <2>5. Places'
    BY <2>2 DEF TInv, Places
  <2> QED BY <2>4, <2>5 DEF TInv
<1>3. CASE ClearWorkspace
  <2>1. /\ UNCHANGED <<kind, file, label, again, reopens, relations, handles, secrets, sessions,
                       aborted>>
        /\ phase = "dropped" /\ phase' = "restoring"
        /\ registered' = {} /\ reserved' = {}
        /\ saved' = [s \in Sources |-> IF s \in ToSet(sources) THEN tables[s] ELSE {}]
        /\ queue' = sources /\ sources' = <<>> /\ back' = <<>>
        /\ at' = [s \in Sources |-> IF s \in ToSet(sources) THEN "waiting" ELSE at[s]]
        /\ tables' = [s \in Sources |-> IF s \in ToSet(sources) THEN {} ELSE tables[s]]
    BY <1>3 DEF ClearWorkspace, credentials
  <2>2. <<>> \in Distinct(Sources) /\ ToSet(<<>>) = {}
    BY EmptyDistinct
  <2>3. /\ at' \in [Sources -> Points]
        /\ tables' \in [Sources -> SUBSET Table]
        /\ saved' \in [Sources -> SUBSET Table]
    BY <1>1, <2>1 DEF TypeOK, Points
  <2>4. TypeOK'
    BY <1>1, <2>1, <2>2, <2>3 DEF TypeOK, Points, Distinct
  <2>5. \A s \in Sources : at[s] \notin ComingBack /\ (at[s] \in Listed <=> s \in ToSet(sources))
    BY <2>1 DEF TInv, Places
  <2>6. Places'
    BY <2>1, <2>2, <2>5 DEF TInv, Places, Listed, ComingBack
  <2> QED BY <2>4, <2>6 DEF TInv
<1> QED BY <1>2, <1>3

LEMMA RestoreNextStep ==
  ASSUME TInv, RestoreNext
  PROVE  TInv'
<1>1. TypeOK /\ queue \in Distinct(Sources) /\ queue # <<>> /\ phase = "restoring"
  BY DEF TInv, TypeOK, Distinct, RestoreNext
<1> DEFINE s == Head(queue)
<1>2. /\ queue' \in Distinct(Sources) /\ ToSet(queue') = ToSet(queue) \ {s}
      /\ s \in Sources /\ at[s] = "waiting"
  BY <1>1, TailDistinct DEF RestoreNext, TInv, Places
<1>3. UNCHANGED <<kind, saved, sources, back, phase, reopens, relations, registered, handles,
                  secrets, sessions, aborted, tables>>
  BY DEF RestoreNext, duckdb, credentials
<1>4. \/ /\ kind[s] \in Restored
         /\ again' = [again EXCEPT ![s] = TRUE]
         /\ \E f \in After(s, 0, TRUE) : Begin(s, f)
      \/ /\ Goto(s, "away")
         /\ UNCHANGED <<file, label, again, reserved>>
  BY DEF RestoreNext
<1> HIDE DEF s
<1>5. /\ \E w \in {"reading", "vending", "away"} : Goto(s, w)
      /\ file' \in [Sources -> 1..Files]
      /\ label' \in [Sources -> Labels]
      /\ reserved' \in SUBSET Labels
      /\ again' \in [Sources -> BOOLEAN]
      /\ \A q \in Sources : again'[q] => again[q] \/ (q = s /\ kind[s] \in Restored)
  <2>1. CASE /\ kind[s] \in Restored
             /\ again' = [again EXCEPT ![s] = TRUE]
             /\ \E f \in After(s, 0, TRUE) : Begin(s, f)
    <3>1. PICK f \in 1..Files : Begin(s, f)
      BY <1>1, <1>2, <2>1, AfterType
    <3>2. PICK w \in {"reading", "vending"} : at' = [at EXCEPT ![s] = w]
      BY <1>1, <1>2, <3>1, BeginTyped
    <3> QED BY <1>1, <1>2, <2>1, <3>1, <3>2, BeginTyped DEF TypeOK, Goto
  <2>2. CASE Goto(s, "away") /\ UNCHANGED <<file, label, again, reserved>>
    BY <1>1, <2>2 DEF TypeOK
  <2> QED BY <1>4, <2>1, <2>2
<1>6. PICK w \in {"reading", "vending", "away"} : Goto(s, w)
  BY <1>5
<1>7. /\ at' \in [Sources -> Points] /\ at'[s] = w
      /\ \A q \in Sources : q # s => at'[q] = at[q]
  BY <1>1, <1>2, <1>6, GoesTo DEF Points
<1>8. TypeOK'
  BY <1>1, <1>2, <1>3, <1>5, <1>7 DEF TypeOK, Points, Distinct
<1>9. Places'
  BY <1>1, <1>2, <1>3, <1>5, <1>6, <1>7 DEF TInv, Places, Listed, ComingBack
<1> QED BY <1>8, <1>9 DEF TInv

LEMMA RestoreEndsStep ==
  ASSUME TInv, RestoreEnds
  PROVE  TInv'
<1>1. /\ TypeOK /\ phase = "restoring" /\ ToSet(queue) = {}
      /\ sources \in Distinct(Sources) /\ back \in Distinct(Sources)
  BY EmptyDistinct DEF TInv, TypeOK, Distinct, RestoreEnds
<1>2. /\ UNCHANGED <<kind, file, label, tables, saved, queue, back, reopens, reserved, handles,
                     relations, registered, secrets, sessions, aborted>>
      /\ phase' = "none"
      /\ sources' = sources \o back
      /\ at' = [s \in Sources |-> IF s \in ToSet(back) THEN "mounted" ELSE at[s]]
      /\ again' = [s \in Sources |-> FALSE]
  BY DEF RestoreEnds, duckdb, credentials
<1>3. /\ ToSet(sources) = {s \in Sources : at[s] \in Listed}
      /\ ToSet(back) = {s \in Sources : at[s] = "remounted"}
      /\ \A s \in Sources : at[s] # "waiting"
  BY <1>1 DEF TInv, Places
<1>4. sources' \in Distinct(Sources) /\ ToSet(sources') = ToSet(sources) \cup ToSet(back)
  BY <1>1, <1>2, <1>3, ConcatDistinct DEF Listed
<1>5. at' \in [Sources -> Points] /\ again' \in [Sources -> BOOLEAN]
  BY <1>1, <1>2 DEF TypeOK, Points
<1>6. TypeOK'
  BY <1>1, <1>2, <1>4, <1>5 DEF TypeOK, Points, Distinct
<1>7. Places'
  BY <1>2, <1>3, <1>4 DEF TInv, Places, Listed, ComingBack
<1> QED BY <1>6, <1>7 DEF TInv

LEMMA NextTyped ==
  ASSUME TInv, [Next]_vars
  PROVE  TInv'
<1>1. CASE UNCHANGED vars
  BY <1>1 DEF vars, progress, workspace, duckdb, credentials, TInv, TypeOK, Places
<1>2. CASE Next
  BY <1>2, CredentialSteps, ScanSteps, RevokeStep, RemovalSteps, ReopenSteps, RestoreNextStep,
     RestoreEndsStep DEF Next
<1> QED BY <1>1, <1>2

(***************************************************************************)
(* The variables have their types: sources are listed once, wherever they  *)
(* are (addSource), and a name is that of one relation.                    *)
(***************************************************************************)
THEOREM TypeCorrect == Spec => []TypeOK
<1>1. Init => TInv
  BY InitTyped
<1>2. TInv /\ [Next]_vars => TInv'
  BY NextTyped
<1>3. TInv => TypeOK
  BY DEF TInv
<1> QED BY <1>1, <1>2, <1>3, PTL DEF Spec

-----------------------------------------------------------------------------
(***************************************************************************)
(* What a step leaves alone.                                               *)
(***************************************************************************)

(* The step is none of q's: nothing that q knows of has changed.           *)
Untouched(q) ==
  /\ at'[q] = at[q] /\ kind'[q] = kind[q] /\ file'[q] = file[q]
  /\ label'[q] = label[q] /\ tables'[q] = tables[q]
  /\ q \in handles => q \in handles'
  /\ phase' = phase
  /\ \A r \in relations' : r.by = q => r \in relations
  /\ \A r \in relations : r.by = q /\ Known(q, r) => r \in relations'
  /\ \A f \in 1..Files :
       <<q, f>> \in registered' =>
         /\ <<q, f>> \in registered
         /\ Reads(relations, <<q, f>>) => Reads(relations', <<q, f>>)
  /\ \A f \in 1..Files :
       /\ <<q, f>> \in registered
       /\ Reads(relations, <<q, f>>) => Reads(relations', <<q, f>>)
       => <<q, f>> \in registered'
  /\ \A l \in Labels : Holds(q, l) /\ l \in reserved => l \in reserved'

LEMMA ReadsOf ==
  ASSUME NEW rs, NEW q, NEW f, NEW n, [name |-> n, by |-> q, origin |-> f] \in rs
  PROVE  Reads(rs, <<q, f>>)
BY DEF Reads

(* A source before the creation of its relation has none from that file.   *)
LEMMA NotYetRead ==
  ASSUME TypeOK, NEW q \in Sources, Local(q), at[q] \in {"reading", "creating"}
  PROVE  ~Reads(relations, <<q, file[q]>>)
<1> SUFFICES ASSUME NEW r \in relations, r.by = q, r.origin = file[q] PROVE FALSE
  BY DEF Reads
<1>1. r.origin < file[q] /\ r.origin \in 1..Files
  BY DEF Local, InTurn, TypeOK, Relation
<1> QED BY <1>1, FirstLabel

LEMMA UntouchedLocal ==
  ASSUME TypeOK, NEW q \in Sources, Local(q), Untouched(q)
  PROVE  Local(q)' /\ \A l \in Labels : Holds(q, l)' => Holds(q, l)
<1>1. Made(q)' = Made(q) /\ (HasFile(q)' <=> HasFile(q)) /\ (IsList(q)' <=> IsList(q))
  BY DEF Untouched, Made, MembersOf, IsBook, HasFile, IsList
<1>2. Shape(q)'
  BY <1>1 DEF Untouched, Local, Shape, Vending
<1>3. \A r : Known(q, r) <=> Known(q, r)'
  BY <1>1 DEF Untouched, Known, Of
<1>4. Owned(q)' /\ InTurn(q)'
  <2>1. \A r : /\ Spare(q, tables[q], r)' <=> Spare(q, tables[q], r)
               /\ Partial(q)' <=> Partial(q)
    BY DEF Untouched, Spare, NamesOf, Partial
  <2> QED BY <1>3, <2>1 DEF Untouched, Local, Owned, InTurn
<1>5. ASSUME NEW n, NEW f \in 1..Files, Has(q, n, f), Known(q, Of(q, n, f))
      PROVE  Has(q, n, f)'
  <2>1. Of(q, n, f) \in relations'
    BY <1>5 DEF Has, Of, Untouched
  <2>2. Reads(relations', <<q, f>>)
    BY <2>1, ReadsOf DEF Of
  <2>3. HasFile(q) => <<q, f>> \in registered'
    BY <1>5, <2>2 DEF Has, Untouched
  <2> QED BY <1>1, <2>1, <2>3 DEF Has, Of
<1>6. ASSUME at[q] \in Holding, phase # "dropped", NEW t \in tables[q]
      PROVE  Has(q, t.name, t.origin)'
  <2>1. Has(q, t.name, t.origin) /\ Known(q, Of(q, t.name, t.origin))
    BY <1>6 DEF Local, Backed, Known
  <2>2. t.origin \in 1..Files
    BY DEF TypeOK, Table
  <2> QED BY <1>5, <2>1, <2>2
<1>7. ASSUME at[q] = "counting", phase # "dropped", NEW n \in Made(q)
      PROVE  Has(q, n, file[q])'
  <2>1. Has(q, n, file[q]) /\ file[q] \in 1..Files
    BY <1>7 DEF Local, Backed, TypeOK
  <2>2. Known(q, Of(q, n, file[q]))
    BY <1>7 DEF Known, Holding
  <2>3. file'[q] = file[q]
    BY DEF Untouched
  <2> QED BY <1>5, <2>1, <2>2, <2>3 DEF Has, Of
<1>8. ASSUME at[q] = "creating", HasFile(q)
      PROVE  <<q, file[q]>> \in registered'
  <2>1. <<q, file[q]>> \in registered /\ file[q] \in 1..Files
    BY <1>8 DEF Local, Backed, TypeOK
  <2>2. ~Reads(relations, <<q, file[q]>>)
    BY <1>8, NotYetRead
  <2> QED BY <2>1, <2>2 DEF Untouched
<1>9. Backed(q)'
  <2>1. /\ at'[q] = at[q] /\ tables'[q] = tables[q] /\ file'[q] = file[q] /\ phase' = phase
    BY DEF Untouched
  <2>2. at'[q] \in Holding /\ phase' # "dropped" =>
          \A t \in tables'[q] : Has(q, t.name, t.origin)'
    BY <1>6, <2>1
  <2>3. at'[q] = "counting" /\ phase' # "dropped" => \A n \in Made(q)' : Has(q, n, file[q])'
    BY <1>1, <1>7, <2>1
  <2>4. at'[q] = "creating" /\ HasFile(q)' => <<q, file'[q]>> \in registered'
    BY <1>1, <1>8, <2>1
  <2> QED BY <2>1, <2>2, <2>3, <2>4 DEF Backed, Has
<1>10. NoFileLeft(q)'
  BY DEF Untouched, Local, NoFileLeft
<1>11. \A l \in Labels : Holds(q, l)' <=> Holds(q, l)
  BY DEF Untouched, Holds
<1>12. \A l \in Labels : Holds(q, l)' => l \in reserved'
  BY <1>11 DEF Untouched, Local
<1> QED BY <1>2, <1>4, <1>9, <1>10, <1>11, <1>12 DEF Local, Labels

(* A step of s that leaves the others alone.                               *)
LEMMA StepOfOne ==
  ASSUME MInv, TInv', OneAtATime', NEW s \in Sources, Local(s)',
         \A q \in Sources : q # s => Untouched(q),
         \A l \in Labels : Holds(s, l)' => Holds(s, l) \/ l \notin reserved
  PROVE  MInv'
<1>1. TypeOK /\ \A q \in Sources : Local(q)
  BY DEF MInv, TInv
<1>2. \A q \in Sources : q # s =>
        Local(q)' /\ \A l \in Labels : Holds(q, l)' => Holds(q, l) /\ l \in reserved
  BY <1>1, UntouchedLocal DEF Local
<1>3. \A q \in Sources : Local(q)'
  BY <1>2
<1>4. ASSUME NEW p \in Sources, NEW q \in Sources, NEW l \in Labels, Holds(p, l)', Holds(q, l)'
      PROVE  p = q
  BY <1>2, <1>4 DEF MInv, Separate
<1>5. Separate'
  BY <1>4 DEF Separate, Labels
<1> QED BY <1>3, <1>5 DEF MInv

LEMMA StillOneAtATime ==
  ASSUME MInv, NEW s \in Sources, InFlight(s) \/ phase = "none" \/ ~InFlight(s)',
         \A q \in Sources : q # s => at'[q] = at[q],
         UNCHANGED <<again, phase>>
  PROVE  OneAtATime'
<1>1. \A q \in Sources : q # s => (InFlight(q)' <=> InFlight(q))
  BY DEF InFlight, Vending, Scanning
<1> QED BY <1>1 DEF MInv, OneAtATime

LEMMA KnownHeld ==
  ASSUME TypeOK, NEW q \in Sources, NEW r, Known(q, r)
  PROVE  r.name.label \in Labels /\ Holds(q, r.name.label)
<1>1. CASE \E t \in tables[q] : r = Of(q, t.name, t.origin)
  <2>1. PICK t \in tables[q] : r = Of(q, t.name, t.origin)
    BY <1>1
  <2>2. t.name \in Names /\ r.name = t.name
    BY <2>1 DEF TypeOK, Table, Of
  <2> QED BY <2>1, <2>2 DEF Names, Known, Holds
<1>2. CASE at[q] = "counting" /\ \E n \in Made(q) : r = Of(q, n, file[q])
  BY <1>2 DEF Of, Made, Holds, TypeOK
<1> QED BY <1>1, <1>2 DEF Known

(* What is dropped under names whose labels s holds is not another's.      *)
LEMMA DropSpares ==
  ASSUME MInv, NEW s \in Sources, NEW names, Drop(names),
         \A n \in names : Holds(s, n.label),
         NEW q \in Sources, q # s,
         at'[q] = at[q], kind'[q] = kind[q], file'[q] = file[q],
         label'[q] = label[q], tables'[q] = tables[q],
         q \in handles => q \in handles', phase' = phase,
         \A l \in Labels : Holds(q, l) /\ l \in reserved => l \in reserved'
  PROVE  Untouched(q)
<1>1. TypeOK
  BY DEF MInv, TInv
<1>2. \A r \in relations : Known(q, r) => r \in relations'
  BY <1>1, KnownHeld DEF Drop, MInv, Separate
<1> QED BY <1>2 DEF Untouched, Drop

(* A source that is not mounted, nor being mounted, has at most relations  *)
(* of books.                                                               *)
LEMMA HasSpares ==
  ASSUME TypeOK, NEW s \in Sources, Local(s), at[s] \notin Holding \cup {"failed", "away"}
  PROVE  /\ \A r \in relations : r.by = s => Spare(s, tables[s], r)
         /\ \A f \in 1..Files : <<s, f>> \in registered => Reads(relations, <<s, f>>)
<1>1. \A r \in relations : r.by = s => Spare(s, tables[s], r)
  BY DEF Local, Owned, Partial, Known
<1>2. \A f \in 1..Files : <<s, f>> \in registered => Reads(relations, <<s, f>>)
  BY DEF Local, NoFileLeft, Holding
<1> QED BY <1>1, <1>2

LEMMA HasNothing ==
  ASSUME TypeOK, NEW s \in Sources, Local(s), at[s] \notin Holding \cup {"failed", "away"},
         at[s] = "new" \/ kind[s] # "folder"
  PROVE  /\ \A r \in relations : r.by # s
         /\ \A f \in 1..Files : <<s, f>> \notin registered
<1>1. \A r \in relations : r.by # s
  BY HasSpares DEF Local, InTurn, Spare
<1>2. \A f \in 1..Files : ~Reads(relations, <<s, f>>)
  BY <1>1 DEF Reads
<1> QED BY <1>1, <1>2, HasSpares

LEMMA SparesLocal ==
  ASSUME NEW s \in Sources, at'[s] \notin Holding \cup {"new"},
         Shape(s)',
         \A r \in relations' : r.by = s => Spare(s, tables[s], r)',
         \A f \in 1..Files : <<s, f>> \in registered' => Reads(relations', <<s, f>>),
         \A l \in Labels : Holds(s, l)' => l \in reserved'
  PROVE  Local(s)'
<1>1. Owned(s)' /\ InTurn(s)'
  BY DEF Owned, InTurn, Holding
<1>2. Backed(s)' /\ NoFileLeft(s)'
  BY DEF Backed, NoFileLeft, Holding
<1> QED BY <1>1, <1>2 DEF Local, Labels

LEMMA NothingLocal ==
  ASSUME NEW s \in Sources, at'[s] \notin Holding,
         Shape(s)',
         \A r \in relations' : r.by # s,
         \A f \in 1..Files : <<s, f>> \notin registered',
         \A l \in Labels : Holds(s, l)' => l \in reserved'
  PROVE  Local(s)'
BY DEF Local, Owned, InTurn, Backed, NoFileLeft, Holding, Labels

-----------------------------------------------------------------------------
(***************************************************************************)
(* The steps of a mount, for the source itself.                            *)
(***************************************************************************)
LEMMA InitMounts ==
  ASSUME Init
  PROVE  MInv
<1>1. TInv
  BY InitTyped
<1>2. ASSUME NEW s \in Sources PROVE Local(s)
  <2>1. /\ at[s] = "new" /\ file[s] = 1 /\ tables[s] = {} /\ relations = {} /\ registered = {}
    BY DEF Init
  <2> QED BY <2>1 DEF Local, Shape, Owned, InTurn, Backed, NoFileLeft, Holds, Holding, Vending
<1>3. Separate
  BY DEF Init, Separate, Holds, Holding
<1>4. OneAtATime
  BY DEF Init, OneAtATime
<1> QED BY <1>1, <1>2, <1>3, <1>4 DEF MInv

LEMMA UnderWay ==
  ASSUME MInv, Apart, NEW s \in Sources
  PROVE  /\ TypeOK /\ Local(s)
         /\ InFlight(s) => phase # "dropped" /\ (phase = "none" <=> ~again[s])
         /\ again[s] => kind[s] # "folder"
BY DEF MInv, TInv, TypeOK, Places, OneAtATime, Apart

LEMMA IdentifiedNames ==
  ASSUME TypeOK, NEW s \in Sources, again[s] => kind[s] # "folder", NEW ts \in SUBSET Table
  PROVE  /\ \A t \in Identified(s, ts) :
              \E u \in ts : u.name = t.name /\ u.origin = t.origin
         /\ \A u \in ts :
              \E t \in Identified(s, ts) : u.name = t.name /\ u.origin = t.origin
<1>1. ASSUME NEW t \in Table, NEW i
      PROVE  [t EXCEPT !.id = i].name = t.name /\ [t EXCEPT !.id = i].origin = t.origin
  BY DEF Table
<1> DEFINE same(t) == {p \in saved[s] : Rank(saved[s], p) = Rank(ts, t)}
           new(t) == IF same(t) = {} THEN t
                     ELSE [t EXCEPT !.id = (CHOOSE p \in same(t) : TRUE).id]
<1>2. \A t \in ts : new(t).name = t.name /\ new(t).origin = t.origin
  BY <1>1
<1>3. Renumbered(s, ts) = {new(t) : t \in ts}
  BY DEF Renumbered
<1> HIDE DEF new
<1>4. Identified(s, ts) = ts \/ Identified(s, ts) = {new(t) : t \in ts}
  BY <1>3 DEF Identified
<1> QED BY <1>2, <1>4

LEMMA AfterLater ==
  ASSUME TypeOK, NEW s \in Sources, ~IsList(s) => file[s] = 1,
         NEW f \in After(s, file[s], again[s])
  PROVE  f \in 1..Files /\ file[s] < f /\ IsList(s)
<1>1. f \in 1..Files
  BY AfterType
<1>2. IsList(s)
  BY DEF After, IsList
<1>3. file[s] \in 1..Files
  BY DEF TypeOK
<1>4. file[s] < f
  BY <1>1, <1>2, <1>3 DEF After
<1> QED BY <1>1, <1>2, <1>4

LEMMA ReserveFacts ==
  ASSUME TypeOK, NEW s \in Sources, Reserve(s)
  PROVE  /\ label'[s] \in Labels \ reserved
         /\ reserved' = reserved \cup {label'[s]}
         /\ \A q \in Sources : q # s => label'[q] = label[q]
BY DEF TypeOK, Reserve, Free

LEMMA ScanFacts ==
  ASSUME TypeOK, NEW s \in Sources, NEW f \in 1..Files, Scan(s, f)
  PROVE  /\ at'[s] = "reading" /\ file'[s] = f
         /\ label'[s] \in Labels \ reserved
         /\ reserved' = reserved \cup {label'[s]}
         /\ \A q \in Sources : q # s =>
              at'[q] = at[q] /\ file'[q] = file[q] /\ label'[q] = label[q]
BY ReserveFacts DEF TypeOK, Scan, Goto

(* What of s there may be when its tables are ts.                          *)
Accounted(s, ts, r) == (\E t \in ts : r = Of(s, t.name, t.origin)) \/ Spare(s, ts, r)

(* What a step of s may do to its labels: keep some, or reserve one.       *)
LabelsKept(s) ==
  /\ \A l \in Labels : Holds(s, l)' => Holds(s, l) \/ l \notin reserved
  /\ \A l \in Labels : Holds(s, l)' => l \in reserved'

LEMMA OnwardLocal ==
  ASSUME MInv, TInv', Apart, NEW s \in Sources, Scanning(s),
         NEW scanned \in SUBSET Table, Onward(s, scanned),
         UNCHANGED <<kind, again, phase, handles>>,
         \A t \in scanned : t.origin <= file[s] /\ Has(s, t.name, t.origin)',
         \A t \in scanned : Holds(s, t.name.label),
         \A r \in relations' : r.by = s => Accounted(s, scanned, r) /\ r.origin <= file[s],
         \A f \in 1..Files : <<s, f>> \in registered' => Reads(relations', <<s, f>>)
  PROVE  Local(s)' /\ LabelsKept(s) /\ reserved \subseteq reserved'
<1>1. /\ TypeOK /\ Local(s) /\ phase # "dropped" /\ (again[s] => kind[s] # "folder")
      /\ ~IsList(s) => file[s] = 1
  BY UnderWay DEF InFlight, Local, Shape
<1>2. (IsList(s)' <=> IsList(s)) /\ (Partial(s)' => kind[s] = kind'[s])
  BY DEF IsList
<1>3. \A t \in scanned : t.name.label \in Labels /\ t.name.label \in reserved
  <2>1. \A t \in scanned : t.name.label \in Labels
    BY DEF Table, Names
  <2> QED BY <1>1, <2>1 DEF Local
<1>4. CASE /\ tables' = [tables EXCEPT ![s] = scanned]
           /\ \E f \in After(s, file[s], again[s]) : Scan(s, f)
  <2>1. PICK f \in 1..Files : Scan(s, f) /\ file[s] < f /\ IsList(s)
    BY <1>1, <1>4, AfterLater
  <2>2. /\ at'[s] = "reading" /\ file'[s] = f /\ tables'[s] = scanned
        /\ label'[s] \in Labels \ reserved
        /\ reserved' = reserved \cup {label'[s]}
    BY <1>1, <1>4, <2>1, ScanFacts DEF TypeOK
  <2>3. Shape(s)'
    <3>1. \A t \in scanned : t.origin < f
      <4>1. \A t \in scanned : t.origin \in 1..Files /\ file[s] \in 1..Files
        BY <1>1 DEF Table, TypeOK
      <4> QED BY <2>1, <4>1
    <3> QED BY <1>2, <2>1, <2>2, <3>1 DEF Shape, Vending
  <2>4. Owned(s)'
    BY <1>1, <2>2 DEF Owned, Accounted, Spare, Known, Holding, Of
  <2>9. InTurn(s)'
    <3>1. \A r \in relations' : r.by = s => r.origin \in 1..Files /\ r.origin <= file[s]
      BY DEF TInv, TypeOK, Relation
    <3>2. file[s] \in 1..Files
      BY <1>1 DEF TypeOK
    <3>3. \A i, j, k \in 1..Files : i <= j /\ j < k => i < k
      BY FirstLabel
    <3> QED BY <2>1, <2>2, <3>1, <3>2, <3>3 DEF InTurn
  <2>5. Backed(s)'
    BY <2>2 DEF Backed, Has
  <2>6. NoFileLeft(s)'
    BY DEF NoFileLeft
  <2>7. \A l : Holds(s, l)' => l = label'[s] \/ \E t \in scanned : t.name.label = l
    BY <2>2 DEF Holds
  <2>8. LabelsKept(s)
    BY <1>3, <2>2, <2>7 DEF LabelsKept
  <2> QED BY <2>2, <2>3, <2>4, <2>5, <2>6, <2>8, <2>9 DEF Local, LabelsKept, Labels
<1>5. CASE /\ tables' = [tables EXCEPT ![s] = Identified(s, scanned)]
           /\ IF scanned = {} THEN Fail(s)
              ELSE IF kind[s] \in {"folder", "s3", "catalog", "iceberg"} /\ ~again[s]
              THEN Goto(s, "keeping") /\ UNCHANGED <<sources, back>>
              ELSE Complete(s)
           /\ UNCHANGED <<file, label, reserved>>
  <2>1. NoFileLeft(s)'
    BY DEF NoFileLeft
  <2>2. CASE scanned = {}
    <3>1. at'[s] \in {"failed", "away"}
      BY <1>1, <1>5, <2>2, FailSteps
    <3>2. Shape(s)'
      BY <1>1, <1>2, <1>5, <3>1 DEF Shape, Vending
    <3>3. Owned(s)' /\ InTurn(s)'
      <4>1. Identified(s, {}) = {}
        <5>1. {} \in SUBSET Table
          OBVIOUS
        <5> QED BY <1>1, <5>1, IdentifiedNames
      <4>2. tables'[s] = {}
        BY <1>1, <1>5, <2>2, <4>1 DEF TypeOK
      <4> QED BY <2>2, <3>1, <4>2 DEF Owned, InTurn, Accounted, Spare, NamesOf
    <3>5. Backed(s)'
      BY <3>1 DEF Backed, Holding
    <3>4. \A l : ~Holds(s, l)'
      BY <3>1 DEF Holds, Holding
    <3> QED BY <1>5, <2>1, <3>2, <3>3, <3>4, <3>5 DEF Local, LabelsKept, Labels
  <2>3. CASE scanned # {}
    <3>1. /\ at'[s] \in {"keeping", "mounted", "remounted"}
          /\ kind[s] = "folder" => at'[s] = "keeping"
          /\ at'[s] = "keeping" => kind[s] \in {"folder", "s3", "catalog", "iceberg"}
      <4>1. CASE kind[s] \in {"folder", "s3", "catalog", "iceberg"} /\ ~again[s]
        BY <1>1, <1>5, <2>3, <4>1, GoesTo DEF Points
      <4>2. CASE ~(kind[s] \in {"folder", "s3", "catalog", "iceberg"} /\ ~again[s])
        BY <1>1, <1>5, <2>3, <4>2, CompleteSteps
      <4> QED BY <4>1, <4>2
    <3> DEFINE ts == Identified(s, scanned)
    <3>2. tables'[s] = ts
      BY <1>1, <1>5 DEF TypeOK
    <3>3. /\ \A t \in ts : \E u \in scanned : u.name = t.name /\ u.origin = t.origin
          /\ \A u \in scanned : \E t \in ts : u.name = t.name /\ u.origin = t.origin
      BY <1>1, IdentifiedNames
    <3> HIDE DEF ts
    <3>4. Shape(s)'
      <4>1. tables'[s] # {}
        BY <2>3, <3>2, <3>3
      <4> QED BY <1>1, <1>2, <1>5, <3>1, <4>1 DEF Shape, Vending
    <3>5. Owned(s)' /\ InTurn(s)'
      <4> SUFFICES ASSUME NEW r \in relations', r.by = s
                   PROVE  Known(s, r)' \/ Spare(s, tables[s], r)'
        BY <3>1 DEF Owned, InTurn
      <4>1. CASE \E u \in scanned : r = Of(s, u.name, u.origin)
        <5>1. \E t \in ts : r = Of(s, t.name, t.origin)
          BY <3>3, <4>1
        <5> QED BY <1>1, <3>1, <3>2, <5>1 DEF Known, Holding, Of
      <4>2. CASE Spare(s, scanned, r)
        BY <3>2, <3>3, <4>2 DEF Spare, NamesOf
      <4> QED BY <4>1, <4>2 DEF Accounted
    <3>6. Backed(s)'
      <4>1. \A t \in ts : Has(s, t.name, t.origin)'
        BY <3>3 DEF Has, Of
      <4> QED BY <3>1, <3>2, <4>1 DEF Backed, Has
    <3>7. \A l : Holds(s, l)' => \E t \in scanned : t.name.label = l
      BY <3>1, <3>2, <3>3 DEF Holds
    <3>8. LabelsKept(s)
      BY <1>3, <1>5, <3>7 DEF LabelsKept
    <3> QED BY <1>5, <2>1, <3>4, <3>5, <3>6, <3>8 DEF Local, LabelsKept, Labels
  <2> QED BY <2>2, <2>3
<1> QED BY <1>4, <1>5 DEF Onward

(* A file that cannot be mounted: what its scan has made is gone, except   *)
(* of a book.                                                              *)
LEMMA FileFailsLocal ==
  ASSUME MInv, TInv', Apart, NEW s \in Sources, Scanning(s), FileFails(s),
         UNCHANGED <<kind, again, phase, handles>>,
         IsList(s) => \A t \in tables[s] : t.origin <= file[s] /\ Has(s, t.name, t.origin)',
         IsList(s) => \A r \in relations' : r.by = s => Accounted(s, tables[s], r),
         \A r \in relations' : r.by = s => r.origin <= file[s],
         ~IsList(s) /\ kind[s] # "book" => \A r \in relations' : r.by # s,
         \A f \in 1..Files : <<s, f>> \in registered' => Reads(relations', <<s, f>>)
  PROVE  Local(s)' /\ LabelsKept(s) /\ reserved \subseteq reserved'
<1>1. /\ TypeOK /\ Local(s) /\ phase # "dropped"
      /\ ~IsList(s) => file[s] = 1
  BY UnderWay DEF InFlight, Local, Shape
<1>2. tables[s] \in SUBSET Table
  BY <1>1 DEF TypeOK
<1>3. CASE IsList(s)
  <2>1. Onward(s, tables[s])
    BY <1>3 DEF FileFails
  <2>2. \A t \in tables[s] : t.origin <= file[s] /\ Has(s, t.name, t.origin)'
    BY <1>3
  <2>3. \A t \in tables[s] : Holds(s, t.name.label)
    BY DEF Scanning, Holds, Holding
  <2>4. \A r \in relations' : r.by = s => Accounted(s, tables[s], r) /\ r.origin <= file[s]
    BY <1>3
  <2> QED BY <1>2, <2>1, <2>2, <2>3, <2>4, OnwardLocal
<1>4. CASE ~IsList(s)
  <2>1. /\ tables'[s] = {} /\ UNCHANGED <<file, label, reserved>>
        /\ IF kind[s] = "iceberg" THEN Goto(s, "undoing") ELSE Fail(s)
    BY <1>1, <1>4 DEF FileFails, TypeOK
  <2>2. kind[s] # "book" => \A r \in relations' : r.by # s
    BY <1>4
  <2>3. (IsList(s)' <=> IsList(s)) /\ kind'[s] = kind[s] /\ file'[s] = 1
    BY <1>1, <1>4, <2>1 DEF IsList
  <2>4. NoFileLeft(s)'
    BY DEF NoFileLeft
  <2>5. CASE kind[s] = "iceberg"
    <3>1. at'[s] = "undoing"
      BY <1>1, <2>1, <2>5, GoesTo DEF Points
    <3>2. Shape(s)'
      BY <2>1, <2>3, <2>5, <3>1 DEF Shape, Vending
    <3>3. Owned(s)' /\ InTurn(s)' /\ Backed(s)'
      BY <2>2, <2>5, <3>1 DEF Owned, InTurn, Backed, Holding
    <3>4. \A l : Holds(s, l)' => l = label[s]
      BY <2>1, <3>1 DEF Holds, Holding
    <3>5. Holds(s, label[s]) /\ label[s] \in Labels
      BY <1>1 DEF Holds, Scanning, TypeOK
    <3>6. LabelsKept(s)
      BY <1>1, <2>1, <3>4, <3>5 DEF LabelsKept, Local
    <3> QED BY <2>1, <2>4, <3>2, <3>3, <3>6 DEF Local, LabelsKept, Labels
  <2>6. CASE kind[s] # "iceberg"
    <3>1. at'[s] \in {"failed", "away"}
      BY <1>1, <2>1, <2>6, FailSteps
    <3>2. Shape(s)'
      BY <2>1, <2>3, <3>1 DEF Shape, Vending
    <3>3. Owned(s)' /\ InTurn(s)'
      BY <2>2, <2>3, <3>1 DEF Owned, InTurn, Partial
    <3>4. Backed(s)'
      BY <3>1 DEF Backed, Holding
    <3>5. \A l : ~Holds(s, l)'
      BY <3>1 DEF Holds, Holding
    <3> QED BY <2>1, <2>4, <3>2, <3>3, <3>4, <3>5 DEF Local, LabelsKept, Labels
  <2> QED BY <2>5, <2>6
<1> QED BY <1>3, <1>4

(* s is about to make a relation, or has made none of this file.           *)
LEMMA BeforeCreation ==
  ASSUME MInv, Apart, NEW s \in Sources, at[s] \in {"reading", "creating"}
  PROVE  /\ \A t \in tables[s] :
              t.origin < file[s] /\ t.origin \in 1..Files /\ Has(s, t.name, t.origin)
         /\ \A r \in relations : r.by = s => Accounted(s, tables[s], r) /\ r.origin <= file[s]
         /\ ~IsList(s) => \A r \in relations : r.by # s
<1>1. TypeOK /\ Local(s) /\ phase # "dropped"
  BY UnderWay DEF InFlight, Scanning
<1>2. \A t \in tables[s] :
        t.origin < file[s] /\ t.origin \in 1..Files /\ Has(s, t.name, t.origin)
  BY <1>1 DEF Local, Shape, Backed, Holding, TypeOK, Table
<1>3. \A r \in relations : r.by = s => Accounted(s, tables[s], r)
  BY <1>1 DEF Local, Owned, Partial, Known, Accounted
<1>4. \A r \in relations : r.by = s =>
        r.origin < file[s] /\ r.origin \in 1..Files /\ file[s] \in 1..Files
  BY <1>1 DEF Local, InTurn, TypeOK, Relation
<1>5. \A i, j \in 1..Files : i < j => i <= j /\ j # 1
  BY FirstLabel
<1>6. ~IsList(s) => file[s] = 1
  BY <1>1 DEF Local, Shape
<1> QED BY <1>2, <1>3, <1>4, <1>5, <1>6

(* While s counts: its relations, counted or not.                          *)
LEMMA WhileCounting ==
  ASSUME MInv, Apart, NEW s \in Sources, at[s] = "counting"
  PROVE  /\ \A t \in tables[s] :
              /\ t.origin < file[s] \/ (t.origin = file[s] /\ t.name \in Made(s))
              /\ t.origin \in 1..Files /\ t.origin <= file[s] /\ Has(s, t.name, t.origin)
         /\ \A n \in Made(s) : Has(s, n, file[s])
         /\ \A r \in relations : r.by = s =>
              /\ Accounted(s, tables[s], r) \/ \E n \in Made(s) : r = Of(s, n, file[s])
              /\ r.origin <= file[s]
         /\ \A f \in 1..Files : <<s, f>> \in registered => Reads(relations, <<s, f>>)
<1>1. TypeOK /\ Local(s) /\ phase # "dropped"
  BY UnderWay DEF InFlight, Scanning
<1>2. \A t \in tables[s] :
        /\ t.origin < file[s] \/ (t.origin = file[s] /\ t.name \in Made(s))
        /\ t.origin \in 1..Files /\ file[s] \in 1..Files /\ Has(s, t.name, t.origin)
  BY <1>1 DEF Local, Shape, Backed, Holding, TypeOK, Table
<1>3. \A n \in Made(s) : Has(s, n, file[s])
  BY <1>1 DEF Local, Backed
<1>4. \A r \in relations : r.by = s =>
        /\ Accounted(s, tables[s], r) \/ \E n \in Made(s) : r = Of(s, n, file[s])
        /\ r.origin <= file[s]
  BY <1>1 DEF Local, Owned, InTurn, Partial, Known, Accounted
<1>5. \A f \in 1..Files : <<s, f>> \in registered => Reads(relations, <<s, f>>)
  BY <1>1 DEF Local, NoFileLeft
<1>6. \A i, j \in 1..Files : i < j \/ i = j => i <= j
  BY FirstLabel
<1> QED BY <1>2, <1>3, <1>4, <1>5, <1>6

(* A relation under the name of a table of s is that table's.              *)
LEMMA SameName ==
  ASSUME MInv, Apart, NEW s \in Sources, at[s] = "counting",
         NEW r \in relations, r.name \in NamesOf(tables[s])
  PROVE  \E t \in tables[s] : r = Of(s, t.name, t.origin)
<1>1. PICK t \in tables[s] : r.name = t.name
  BY DEF NamesOf
<1>2. Of(s, t.name, t.origin) \in relations
  BY <1>1, WhileCounting DEF Has
<1>3. r = Of(s, t.name, t.origin)
  BY <1>1, <1>2 DEF Of, MInv, TInv, TypeOK
<1> QED BY <1>1, <1>3

(* A label of a relation of s is one it holds while it counts.             *)
LEMMA MadeLabel ==
  ASSUME NEW s, NEW n \in Made(s)
  PROVE  n.label = label[s]
BY DEF Made

-----------------------------------------------------------------------------
(***************************************************************************)
(* Every step keeps MInv.                                                  *)
(***************************************************************************)
LEMMA PlainUntouched ==
  ASSUME NEW q \in Sources,
         at'[q] = at[q], kind'[q] = kind[q], file'[q] = file[q],
         label'[q] = label[q], tables'[q] = tables[q],
         q \in handles => q \in handles',
         UNCHANGED <<relations, registered, phase>>,
         \A l \in Labels : Holds(q, l) /\ l \in reserved => l \in reserved'
  PROVE  Untouched(q)
BY DEF Untouched

LEMMA CredentialMounts ==
  ASSUME MInv, Apart, NEW s \in Sources,
         \/ LoadFails(s) \/ NoneVended(s) \/ Vend(s) \/ VendFails(s)
         \/ RollBack(s) \/ CleanUp(s) \/ Configured(s) \/ ConfigureFails(s) \/ Undo(s)
  PROVE  MInv'
<1>1. TypeOK /\ Local(s) /\ TInv'
  BY CredentialSteps, UnderWay DEF MInv
<1>2. Vending(s) /\ InFlight(s) /\ kind[s] = "iceberg" /\ tables[s] = {} /\ file[s] = 1
  <2>1. Vending(s)
    BY DEF LoadFails, NoneVended, Vend, VendFails, RollBack, CleanUp, Configured,
           ConfigureFails, Undo, Vending
  <2> QED BY <1>1, <2>1 DEF Local, Shape, InFlight, IsList
<1>3. /\ \A r \in relations : r.by # s
      /\ \A f \in 1..Files : <<s, f>> \notin registered
  BY <1>1, <1>2, HasNothing DEF Vending, Holding
<1>4. UNCHANGED <<kind, again, phase, handles, file, tables, relations, registered>>
  BY DEF LoadFails, NoneVended, Vend, VendFails, RollBack, CleanUp, Configured,
         ConfigureFails, Undo, untouched, duckdb
<1>5. \A q \in Sources : q # s => at'[q] = at[q]
  BY <1>1, FailSteps DEF LoadFails, NoneVended, Vend, VendFails, RollBack, CleanUp, Configured,
         ConfigureFails, Undo, Goto, StepsOn, TypeOK
<1>6. OneAtATime'
  BY <1>2, <1>4, <1>5, StillOneAtATime
<1>7. ~IsList(s)' /\ HasFile(s)' = FALSE
  BY <1>2, <1>4 DEF IsList, HasFile
<1>8. CASE \/ NoneVended(s) \/ Vend(s) \/ VendFails(s) \/ RollBack(s) \/ ConfigureFails(s)
  <2>1. at'[s] \in {"configuring", "rolling", "cleaning", "revoking"}
    BY <1>1, <1>8 DEF NoneVended, Vend, VendFails, RollBack, ConfigureFails, Goto, TypeOK
  <2>2. UNCHANGED <<label, reserved>>
    BY <1>8 DEF NoneVended, Vend, VendFails, RollBack, ConfigureFails
  <2>3. Shape(s)'
    BY <1>2, <1>4, <1>7, <2>1 DEF Shape
  <2>4. \A l : ~Holds(s, l)'
    BY <2>1 DEF Holds, Holding
  <2>5. Local(s)'
    BY <1>3, <1>4, <2>1, <2>3, <2>4, NothingLocal DEF Holding
  <2>6. \A q \in Sources : q # s => Untouched(q)
    BY <1>4, <1>5, <2>2, PlainUntouched
  <2> QED BY <1>1, <1>6, <2>4, <2>5, <2>6, StepOfOne
<1>9. CASE LoadFails(s) \/ CleanUp(s) \/ Undo(s)
  <2>1. at'[s] \in {"failed", "away"}
    BY <1>1, <1>9, FailSteps DEF LoadFails, CleanUp, Undo
  <2>2. UNCHANGED label
    BY <1>9 DEF LoadFails, CleanUp, Undo, untouched
  <2>3. Shape(s)'
    BY <1>2, <1>4, <1>7, <2>1 DEF Shape, Vending
  <2>4. \A l : ~Holds(s, l)'
    BY <2>1 DEF Holds, Holding
  <2>5. Local(s)'
    BY <1>3, <1>4, <2>1, <2>3, <2>4, NothingLocal DEF Holding
  <2>6. \A q \in Sources, l \in Labels :
          q # s /\ Holds(q, l) /\ l \in reserved => l \in reserved'
    <3>1. CASE LoadFails(s) \/ CleanUp(s)
      BY <3>1 DEF LoadFails, CleanUp
    <3>2. CASE Undo(s) /\ at[s] = "undoing"
      <4>1. Holds(s, label[s]) /\ label[s] \in Labels
        BY <1>1, <3>2 DEF Holds, TypeOK
      <4> QED BY <3>2, <4>1 DEF Undo, MInv, Separate
    <3>3. CASE Undo(s) /\ at[s] # "undoing"
      BY <3>3 DEF Undo
    <3> QED BY <1>9, <3>1, <3>2, <3>3
  <2>7. \A q \in Sources : q # s => Untouched(q)
    BY <1>4, <1>5, <2>2, <2>6, PlainUntouched
  <2> QED BY <1>1, <1>6, <2>4, <2>5, <2>7, StepOfOne
<1>10. CASE Configured(s)
  <2>1. /\ at'[s] = "creating" /\ label'[s] \in Labels \ reserved
        /\ reserved' = reserved \cup {label'[s]}
        /\ \A q \in Sources : q # s => label'[q] = label[q]
    BY <1>1, <1>10, ReserveFacts DEF Configured, Goto, TypeOK
  <2>2. Shape(s)'
    BY <1>2, <1>4, <1>7, <2>1 DEF Shape, Vending
  <2>3. Owned(s)' /\ InTurn(s)' /\ NoFileLeft(s)'
    BY <1>3, <1>4 DEF Owned, InTurn, NoFileLeft
  <2>4. Backed(s)'
    BY <1>2, <1>4, <1>7, <2>1 DEF Backed
  <2>5. \A l : Holds(s, l)' => l = label'[s]
    BY <1>2, <1>4, <2>1 DEF Holds
  <2>6. Local(s)'
    BY <2>1, <2>2, <2>3, <2>4, <2>5 DEF Local
  <2>7. \A q \in Sources : q # s => Untouched(q)
    BY <1>4, <1>5, <2>1, PlainUntouched
  <2> QED BY <1>1, <1>6, <2>1, <2>5, <2>6, <2>7, StepOfOne
<1> QED BY <1>8, <1>9, <1>10

(* The other sources while a file of s is done with.                       *)
LEMMA OnwardFrame ==
  ASSUME TypeOK, NEW s \in Sources, NEW scanned \in SUBSET Table, Onward(s, scanned),
         NEW q \in Sources, q # s
  PROVE  at'[q] = at[q] /\ file'[q] = file[q] /\ label'[q] = label[q] /\ tables'[q] = tables[q]
<1>1. at'[q] = at[q]
  BY OnwardSteps DEF StepsOn
<1>2. tables'[q] = tables[q]
  BY DEF Onward, TypeOK
<1>3. file'[q] = file[q] /\ label'[q] = label[q]
  BY DEF Onward, Scan, Reserve, TypeOK
<1> QED BY <1>1, <1>2, <1>3

LEMMA FileFailsFrame ==
  ASSUME TypeOK, NEW s \in Sources, FileFails(s), NEW q \in Sources, q # s
  PROVE  at'[q] = at[q] /\ file'[q] = file[q] /\ label'[q] = label[q] /\ tables'[q] = tables[q]
<1>1. CASE IsList(s)
  <2>1. tables[s] \in SUBSET Table /\ Onward(s, tables[s])
    BY <1>1 DEF FileFails, TypeOK
  <2> QED BY <2>1, OnwardFrame
<1>2. CASE ~IsList(s)
  <2>1. at'[q] = at[q]
    BY FileFailsSteps DEF StepsOn
  <2> QED BY <1>2, <2>1 DEF FileFails, TypeOK
<1> QED BY <1>1, <1>2

LEMMA BeginMounts ==
  ASSUME MInv, Apart, TInv', NEW s \in Sources,
         at[s] = "new" \/ (at[s] = "waiting" /\ kind[s] # "folder"),
         NEW f \in 1..Files, ~IsList(s) => f = 1, Begin(s, f),
         UNCHANGED <<kind, tables, relations, registered, handles, phase>>,
         OneAtATime'
  PROVE  MInv'
<1>1. TypeOK /\ Local(s)
  BY DEF MInv, TInv
<1>2. /\ \A r \in relations : r.by # s
      /\ \A g \in 1..Files : <<s, g>> \notin registered
      /\ tables[s] = {} /\ (~IsList(s) => file[s] = 1)
  BY <1>1, HasNothing DEF Holding, Local, Shape
<1>3. (IsList(s)' <=> IsList(s)) /\ kind'[s] = kind[s]
  BY DEF IsList
<1>4. CASE kind[s] = "iceberg"
  <2>1. /\ at'[s] = "vending" /\ UNCHANGED <<file, label, reserved>>
        /\ \A q \in Sources : q # s => at'[q] = at[q]
    BY <1>1, <1>4 DEF Begin, Goto, TypeOK
  <2>2. Shape(s)'
    BY <1>2, <1>3, <1>4, <2>1 DEF Shape
  <2>3. \A l : ~Holds(s, l)'
    BY <2>1 DEF Holds, Holding
  <2>4. Local(s)'
    BY <1>2, <2>1, <2>2, <2>3, NothingLocal DEF Holding
  <2>5. \A q \in Sources : q # s => Untouched(q)
    BY <2>1, PlainUntouched
  <2> QED BY <2>3, <2>4, <2>5, StepOfOne
<1>5. CASE kind[s] # "iceberg"
  <2>1. /\ at'[s] = "reading" /\ file'[s] = f
        /\ label'[s] \in Labels \ reserved
        /\ reserved' = reserved \cup {label'[s]}
        /\ \A q \in Sources : q # s =>
             at'[q] = at[q] /\ file'[q] = file[q] /\ label'[q] = label[q]
    BY <1>1, <1>5, ScanFacts DEF Begin
  <2>2. Shape(s)'
    BY <1>2, <1>3, <2>1 DEF Shape, Vending
  <2>3. Owned(s)' /\ InTurn(s)' /\ NoFileLeft(s)' /\ Backed(s)'
    BY <1>2, <2>1 DEF Owned, InTurn, NoFileLeft, Backed
  <2>4. \A l : Holds(s, l)' => l = label'[s]
    BY <1>2, <2>1 DEF Holds
  <2>5. Local(s)'
    BY <2>1, <2>2, <2>3, <2>4 DEF Local
  <2>6. \A q \in Sources : q # s => Untouched(q)
    BY <2>1, PlainUntouched
  <2> QED BY <2>1, <2>4, <2>5, <2>6, StepOfOne
<1> QED BY <1>4, <1>5

LEMMA MountMounts ==
  ASSUME MInv, Apart, NEW s \in Sources, Mount(s)
  PROVE  MInv'
<1>1. TypeOK /\ TInv'
  BY ScanSteps DEF MInv, TInv
<1>2. /\ at[s] = "new" /\ phase = "none" /\ Begin(s, 1) /\ 1 \in 1..Files
      /\ UNCHANGED <<kind, again, phase, handles, tables, relations, registered>>
  BY FirstLabel DEF Mount, Apart, workspace, duckdb
<1>3. \A q \in Sources : q # s => at'[q] = at[q]
  BY <1>1, <1>2, BeginTyped DEF TypeOK
<1>4. OneAtATime'
  BY <1>2, <1>3, StillOneAtATime
<1> QED BY <1>1, <1>2, <1>4, BeginMounts

LEMMA ReadMounts ==
  ASSUME MInv, Apart, NEW s \in Sources, Read(s)
  PROVE  MInv'
<1>1. TypeOK /\ Local(s) /\ TInv'
  BY ScanSteps, UnderWay DEF MInv
<1>2. /\ at[s] = "reading" /\ at'[s] = "creating"
      /\ \A q \in Sources : q # s => at'[q] = at[q]
      /\ UNCHANGED <<kind, file, label, tables, again, phase, relations, reserved, handles>>
      /\ registered' = IF HasFile(s) THEN registered \cup {<<s, file[s]>>} ELSE registered
  BY <1>1 DEF Read, Goto, TypeOK, workspace
<1>3. OneAtATime'
  BY <1>2, StillOneAtATime DEF InFlight, Scanning
<1>4. (IsList(s)' <=> IsList(s)) /\ (HasFile(s)' <=> HasFile(s))
  BY <1>2 DEF IsList, HasFile
<1>5. Shape(s)'
  BY <1>1, <1>2, <1>4 DEF Local, Shape, Vending
<1>6. Owned(s)' /\ InTurn(s)'
  BY <1>1, <1>2 DEF Local, Owned, InTurn, Spare, Known, Partial, Holding, Of
<1>7. Backed(s)'
  BY <1>1, <1>2, <1>4 DEF Local, Backed, Has, Holding, Of
<1>8. NoFileLeft(s)'
  BY <1>1, <1>2 DEF Local, NoFileLeft
<1>9. \A l : Holds(s, l)' => Holds(s, l)
  BY <1>2 DEF Holds, Holding
<1>10. Local(s)'
  BY <1>1, <1>2, <1>5, <1>6, <1>7, <1>8, <1>9 DEF Local, Labels
<1>11. \A q \in Sources : q # s => Untouched(q)
  BY <1>2 DEF Untouched
<1> QED BY <1>1, <1>3, <1>9, <1>10, <1>11, StepOfOne

LEMMA CreateMounts ==
  ASSUME MInv, Apart, NEW s \in Sources, Create(s)
  PROVE  MInv'
<1> DEFINE new == {[name |-> n, by |-> s, origin |-> file[s]] : n \in Made(s)}
<1>0. InFlight(s) /\ TInv'
  BY ScanSteps DEF MInv, Create, InFlight, Scanning
<1>1. TypeOK /\ Local(s) /\ TInv' /\ phase # "dropped"
  BY <1>0, UnderWay
<1>2. /\ at[s] = "creating" /\ at'[s] = "counting"
      /\ \A q \in Sources : q # s => at'[q] = at[q]
      /\ UNCHANGED <<kind, file, label, tables, again, phase, registered, reserved, handles>>
      /\ relations' = relations \cup new
  BY <1>1 DEF Create, Goto, TypeOK, workspace
<1>3. /\ \A r \in new : r.by = s /\ r.origin = file[s] /\ \E n \in Made(s) : r = Of(s, n, file[s])
      /\ \A n \in Made(s) : Of(s, n, file[s]) \in new
      /\ new # {}
  <2>1. new = {Of(s, n, file[s]) : n \in Made(s)} /\ Made(s) # {}
    BY <1>1, MadeNames DEF Of
  <2> HIDE DEF new
  <2>2. \A n : Of(s, n, file[s]).by = s /\ Of(s, n, file[s]).origin = file[s]
    BY DEF Of
  <2> QED BY <2>1, <2>2
<1> HIDE DEF new
<1>4. OneAtATime'
  BY <1>2, StillOneAtATime DEF InFlight, Scanning
<1>5. /\ IsList(s)' <=> IsList(s)
      /\ HasFile(s)' <=> HasFile(s)
      /\ Made(s)' = Made(s)
  BY <1>2 DEF IsList, HasFile, Made, MembersOf, IsBook
<1>6. Shape(s)'
  BY <1>1, <1>2, <1>5 DEF Local, Shape, Vending
<1>7. Owned(s)'
  <2> SUFFICES ASSUME NEW r \in relations', r.by = s
               PROVE  Known(s, r)' \/ Spare(s, tables[s], r)'
    BY DEF Owned
  <2>1. CASE r \in relations
    BY <1>1, <1>2, <1>5, <2>1 DEF Local, Owned, Spare, Known, Partial, Holding, Of
  <2>2. CASE r \in new
    BY <1>1, <1>2, <1>3, <1>5, <2>2 DEF Known, Holding, Of
  <2> QED BY <1>2, <2>1, <2>2
<1>8. Backed(s)'
  <2>1. \A t \in tables'[s] : Has(s, t.name, t.origin)'
    BY <1>1, <1>2, <1>5 DEF Local, Backed, Has, Holding, Of
  <2>2. \A n \in Made(s)' : Has(s, n, file[s])'
    BY <1>1, <1>2, <1>3, <1>5 DEF Local, Backed, Has, Of
  <2> QED BY <1>2, <2>1, <2>2 DEF Backed, Has
<1>9. \A q \in Sources, f \in 1..Files :
        Reads(relations', <<q, f>>) <=>
          Reads(relations, <<q, f>>) \/ (q = s /\ f = file[s])
  BY <1>2, <1>3 DEF Reads
<1>10. NoFileLeft(s)'
  BY <1>1, <1>2, <1>9 DEF Local, NoFileLeft
<1>11. \A l : Holds(s, l)' => Holds(s, l)
  BY <1>2 DEF Holds, Holding
<1>14. InTurn(s)'
  <2> SUFFICES ASSUME NEW r \in relations', r.by = s PROVE r.origin <= file[s]
    BY <1>2 DEF InTurn
  <2>1. CASE r \in relations
    BY <1>2, <2>1, BeforeCreation
  <2>2. CASE r \in new
    BY <1>1, <1>3, <2>2 DEF TypeOK
  <2> QED BY <1>2, <2>1, <2>2
<1>12. Local(s)'
  BY <1>1, <1>2, <1>6, <1>7, <1>8, <1>10, <1>11, <1>14 DEF Local, Labels
<1>13. \A q \in Sources : q # s => Untouched(q)
  BY <1>2, <1>3, <1>9 DEF Untouched
<1> QED BY <1>1, <1>4, <1>11, <1>12, <1>13, StepOfOne

LEMMA ReadFailsMounts ==
  ASSUME MInv, Apart, NEW s \in Sources, ReadFails(s)
  PROVE  MInv'
<1>1. /\ Scanning(s) /\ at[s] = "reading" /\ FileFails(s)
      /\ UNCHANGED <<kind, again, phase, handles, relations, registered>>
      /\ TInv'
  BY ScanSteps DEF MInv, ReadFails, Scanning, unscanned, duckdb
<1>2. TypeOK /\ Local(s)
  BY UnderWay
<1>3. \A f \in 1..Files : <<s, f>> \in registered' => Reads(relations', <<s, f>>)
  BY <1>1, <1>2 DEF Local, NoFileLeft
<1>4. \A t \in tables[s] : t.origin <= file[s] /\ Has(s, t.name, t.origin)'
  <2>1. \A t \in tables[s] :
          t.origin < file[s] /\ t.origin \in 1..Files /\ Has(s, t.name, t.origin)
    BY <1>1, BeforeCreation
  <2>2. \A t \in tables[s] : t.origin <= file[s]
    BY <1>2, <2>1 DEF TypeOK
  <2> QED BY <1>1, <2>1, <2>2 DEF Has, HasFile, Of
<1>5. \A r \in relations' : r.by = s => Accounted(s, tables[s], r) /\ r.origin <= file[s]
  BY <1>1, BeforeCreation
<1>6. ~IsList(s) => \A r \in relations' : r.by # s
  BY <1>1, BeforeCreation
<1>7. Local(s)' /\ LabelsKept(s) /\ reserved \subseteq reserved'
  BY <1>1, <1>3, <1>4, <1>5, <1>6, FileFailsLocal
<1>8. \A q \in Sources : q # s =>
        at'[q] = at[q] /\ file'[q] = file[q] /\ label'[q] = label[q] /\ tables'[q] = tables[q]
  BY <1>1, <1>2, FileFailsFrame
<1>9. OneAtATime'
  BY <1>1, <1>8, StillOneAtATime DEF InFlight
<1>10. \A q \in Sources : q # s => Untouched(q)
  BY <1>1, <1>7, <1>8, PlainUntouched
<1> QED BY <1>1, <1>7, <1>9, <1>10, StepOfOne DEF LabelsKept

(* What stays of a book that could not be created is under names of its    *)
(* own.                                                                    *)
LEMMA CreateFailsStays ==
  ASSUME MInv, Apart, NEW s \in Sources, CreateFails(s)
  PROVE  /\ relations \subseteq relations'
         /\ \A r \in relations' \ relations :
              /\ r.by = s /\ r.origin = file[s] /\ r.name \in Made(s) /\ IsBook(s, file[s])
              /\ \A q \in relations : q.name # r.name
         /\ \A q \in Sources, f \in 1..Files :
              q # s \/ f # file[s] => (<<q, f>> \in registered' <=> <<q, f>> \in registered)
         /\ <<s, file[s]>> \in registered' => Reads(relations', <<s, file[s]>>)
<1>1. PICK m \in MembersOf(s) :
        LET stay == {n \in Made(s) : n.member < m}
        IN  /\ \A r \in relations : r.name \notin stay
            /\ relations' = relations \cup
                  {[name |-> n, by |-> s, origin |-> file[s]] : n \in stay}
            /\ registered' = IF stay = {} THEN registered \ {<<s, file[s]>>} ELSE registered
  BY DEF CreateFails
<1> DEFINE stay == {n \in Made(s) : n.member < m}
           new == {[name |-> n, by |-> s, origin |-> file[s]] : n \in stay}
<1>2. /\ \A r \in relations : r.name \notin stay
      /\ relations' = relations \cup new
      /\ registered' = IF stay = {} THEN registered \ {<<s, file[s]>>} ELSE registered
  BY <1>1
<1>3. \A r \in new : r.by = s /\ r.origin = file[s] /\ r.name \in stay
  OBVIOUS
<1>4. stay # {} => \E r \in new : TRUE
  OBVIOUS
<1>5. ~IsBook(s, file[s]) => stay = {}
  <2> SUFFICES ASSUME ~IsBook(s, file[s]), NEW n \in Made(s), n.member < m PROVE FALSE
    OBVIOUS
  <2>1. MembersOf(s) = {0}
    BY DEF MembersOf
  <2>2. m = 0 /\ n.member = 0
    BY <2>1 DEF Made
  <2> QED BY <2>2
<1>6. stay \subseteq Made(s)
  OBVIOUS
<1> HIDE DEF stay, new
<1>7. \A r \in relations' \ relations : r \in new /\ stay # {}
  BY <1>2, <1>3
<1>8. <<s, file[s]>> \in registered' => Reads(relations', <<s, file[s]>>)
  BY <1>2, <1>3, <1>4 DEF Reads
<1> QED BY <1>2, <1>3, <1>5, <1>6, <1>7, <1>8

LEMMA CreateFailsMounts ==
  ASSUME MInv, Apart, NEW s \in Sources, CreateFails(s)
  PROVE  MInv'
<1>1. /\ Scanning(s) /\ at[s] = "creating" /\ FileFails(s)
      /\ UNCHANGED <<kind, again, phase, handles>>
      /\ TInv'
  BY ScanSteps DEF MInv, CreateFails, Scanning, unscanned
<1>2. TypeOK /\ Local(s)
  BY UnderWay
<1>3. \A f \in 1..Files : <<s, f>> \in registered' => Reads(relations', <<s, f>>)
  <2> SUFFICES ASSUME NEW f \in 1..Files, <<s, f>> \in registered', f # file[s]
               PROVE  Reads(relations', <<s, f>>)
    BY CreateFailsStays
  <2>1. <<s, f>> \in registered
    BY CreateFailsStays
  <2>2. Reads(relations, <<s, f>>)
    BY <1>1, <1>2, <2>1 DEF Local, NoFileLeft
  <2> QED BY <2>2, CreateFailsStays DEF Reads
<1>4. \A t \in tables[s] :
        t.origin < file[s] /\ t.origin \in 1..Files /\ Has(s, t.name, t.origin)
  BY <1>1, BeforeCreation
<1>5. \A t \in tables[s] : t.origin <= file[s] /\ t.origin # file[s]
  BY <1>2, <1>4 DEF TypeOK
<1>6. \A t \in tables[s] : Has(s, t.name, t.origin)'
  BY <1>1, <1>4, <1>5, CreateFailsStays DEF Has, HasFile, Of
<1>7. ASSUME NEW r \in relations', r.by = s
      PROVE  /\ r.origin <= file[s]
             /\ IsList(s) => Accounted(s, tables[s], r)
             /\ IsList(s) \/ kind[s] = "book"
  <2>1. CASE r \in relations
    BY <1>1, <1>7, <2>1, BeforeCreation
  <2>2. CASE r \notin relations
    <3>1. /\ r.origin = file[s] /\ IsBook(s, file[s])
          /\ \A q \in relations : q.name # r.name
      BY <1>7, <2>2, CreateFailsStays
    <3>2. r.name \notin NamesOf(tables[s])
      BY <1>4, <3>1 DEF NamesOf, Has, Of
    <3>3. r.origin <= file[s]
      BY <1>2, <3>1 DEF TypeOK
    <3> QED BY <3>1, <3>2, <3>3 DEF IsBook, IsList, Accounted, Spare
  <2> QED BY <2>1, <2>2
<1>8. Local(s)' /\ LabelsKept(s) /\ reserved \subseteq reserved'
  BY <1>1, <1>3, <1>5, <1>6, <1>7, FileFailsLocal
<1>9. \A q \in Sources : q # s =>
        at'[q] = at[q] /\ file'[q] = file[q] /\ label'[q] = label[q] /\ tables'[q] = tables[q]
  BY <1>1, <1>2, FileFailsFrame
<1>10. OneAtATime'
  BY <1>1, <1>9, StillOneAtATime DEF InFlight
<1>11. ASSUME NEW q \in Sources, q # s PROVE Untouched(q)
  <2>1. /\ \A r \in relations' : r.by = q => r \in relations
        /\ \A r \in relations : r \in relations'
        /\ \A f \in 1..Files : <<q, f>> \in registered' <=> <<q, f>> \in registered
    BY <1>11, CreateFailsStays
  <2>2. \A f \in 1..Files : Reads(relations, <<q, f>>) => Reads(relations', <<q, f>>)
    BY <2>1 DEF Reads
  <2> QED BY <1>1, <1>8, <1>9, <1>11, <2>1, <2>2 DEF Untouched
<1> QED BY <1>1, <1>8, <1>10, <1>11, StepOfOne DEF LabelsKept

LEMMA CountedMounts ==
  ASSUME MInv, Apart, NEW s \in Sources, Counted(s)
  PROVE  MInv'
<1>1. /\ Scanning(s) /\ at[s] = "counting" /\ TInv'
      /\ UNCHANGED <<kind, again, phase, handles, relations, registered>>
  BY ScanSteps DEF MInv, Counted, Scanning, unscanned, duckdb
<1>2. TypeOK /\ Local(s) /\ phase # "dropped"
  BY <1>1, UnderWay DEF InFlight
<1>3. PICK n \in Uncounted(s) :
        LET scanned == tables[s] \cup {Counts(s, n)}
        IN  IF Uncounted(s) = {n}
            THEN Onward(s, scanned)
            ELSE /\ tables' = [tables EXCEPT ![s] = scanned]
                 /\ UNCHANGED <<at, file, label, sources, back, reserved>>
  BY DEF Counted
<1> DEFINE scanned == tables[s] \cup {Counts(s, n)}
<1>4. /\ scanned \in SUBSET Table /\ n \in Made(s) /\ file[s] \in 1..Files
      /\ Counts(s, n).name = n /\ Counts(s, n).origin = file[s]
      /\ Counts(s, n) \in scanned /\ tables[s] \subseteq scanned
      /\ \A t \in scanned : t \in tables[s] \/ t = Counts(s, n)
  BY <1>2, CountsType DEF TypeOK, Uncounted, Counts
<1>5. IF Uncounted(s) = {n}
      THEN Onward(s, scanned)
      ELSE /\ tables' = [tables EXCEPT ![s] = scanned]
           /\ UNCHANGED <<at, file, label, sources, back, reserved>>
  BY <1>3
<1> HIDE DEF scanned
<1>6. /\ (IsList(s)' <=> IsList(s)) /\ (HasFile(s)' <=> HasFile(s))
  BY <1>1 DEF IsList, HasFile
<1>7. \A t \in scanned :
        /\ t.origin < file[s] \/ (t.origin = file[s] /\ t.name \in Made(s))
        /\ t.origin \in 1..Files
        /\ Has(s, t.name, t.origin)'
  <2>1. \A m, f : Has(s, m, f) => Has(s, m, f)'
    BY <1>1, <1>6 DEF Has, Of
  <2>2. Has(s, n, file[s])
    BY <1>1, <1>4, WhileCounting
  <2>3. \A t \in tables[s] :
          /\ t.origin < file[s] \/ (t.origin = file[s] /\ t.name \in Made(s))
          /\ t.origin \in 1..Files /\ Has(s, t.name, t.origin)
    BY <1>1, WhileCounting
  <2>4. Has(s, Counts(s, n).name, Counts(s, n).origin)
    BY <1>4, <2>2
  <2> QED BY <1>4, <2>1, <2>3, <2>4
<1>8. \A t \in scanned : Holds(s, t.name.label)
  BY <1>1, <1>4, MadeLabel DEF Holds, Holding
<1>9. CASE Uncounted(s) = {n}
  <2>1. Onward(s, scanned)
    BY <1>5, <1>9
  <2>2. \A t \in scanned : t.origin <= file[s]
    BY <1>4, <1>7
  <2>3. \A r \in relations' : r.by = s => Accounted(s, scanned, r) /\ r.origin <= file[s]
    <3> SUFFICES ASSUME NEW r \in relations, r.by = s
                 PROVE  Accounted(s, scanned, r)
      BY <1>1, WhileCounting
    <3>1. CASE r.name \in NamesOf(tables[s])
      BY <1>1, <1>4, <3>1, SameName DEF Accounted
    <3>2. CASE r.name = n
      <4>1. Of(s, n, file[s]) \in relations
        BY <1>1, <1>4, WhileCounting DEF Has
      <4>2. r = Of(s, Counts(s, n).name, Counts(s, n).origin)
        BY <1>2, <1>4, <3>2, <4>1 DEF Of, TypeOK
      <4> QED BY <1>4, <4>2 DEF Accounted
    <3>3. CASE r.name \notin NamesOf(tables[s]) /\ r.name # n
      <4>1. r.name \notin Made(s)
        BY <1>9, <3>3 DEF Uncounted
      <4>2. Spare(s, tables[s], r)
        BY <1>1, <3>3, <4>1, WhileCounting DEF Accounted, NamesOf, Of
      <4>3. r.name \notin NamesOf(scanned)
        BY <1>4, <3>3 DEF NamesOf
      <4> QED BY <4>2, <4>3 DEF Accounted, Spare
    <3> QED BY <3>1, <3>2, <3>3
  <2>4. \A f \in 1..Files : <<s, f>> \in registered' => Reads(relations', <<s, f>>)
    BY <1>1, WhileCounting
  <2>5. Local(s)' /\ LabelsKept(s) /\ reserved \subseteq reserved'
    BY <1>1, <1>4, <1>7, <1>8, <2>1, <2>2, <2>3, <2>4, OnwardLocal
  <2>6. \A q \in Sources : q # s =>
          at'[q] = at[q] /\ file'[q] = file[q] /\ label'[q] = label[q] /\ tables'[q] = tables[q]
    BY <1>2, <1>4, <2>1, OnwardFrame
  <2>7. OneAtATime'
    BY <1>1, <2>6, StillOneAtATime DEF InFlight
  <2>8. \A q \in Sources : q # s => Untouched(q)
    BY <1>1, <2>5, <2>6, PlainUntouched
  <2> QED BY <1>1, <2>5, <2>7, <2>8, StepOfOne DEF LabelsKept
<1>10. CASE Uncounted(s) # {n}
  <2>1. /\ tables' = [tables EXCEPT ![s] = scanned] /\ tables'[s] = scanned
        /\ UNCHANGED <<at, file, label, reserved>>
    BY <1>2, <1>5, <1>10 DEF TypeOK
  <2>2. Made(s)' = Made(s)
    BY <1>1, <2>1 DEF Made, MembersOf, IsBook
  <2>3. Shape(s)'
    BY <1>1, <1>2, <1>6, <1>7, <2>1, <2>2 DEF Local, Shape, Vending
  <2>11. InTurn(s)'
    BY <1>1, <2>1, WhileCounting DEF InTurn
  <2>4. Owned(s)'
    <3> SUFFICES ASSUME NEW r \in relations, r.by = s
                 PROVE  Known(s, r)' \/ Spare(s, tables[s], r)'
      BY <1>1 DEF Owned
    <3>1. CASE r.name \in Made(s)
      <4>1. Of(s, r.name, file[s]) \in relations
        BY <1>1, <3>1, WhileCounting DEF Has
      <4>2. r = Of(s, r.name, file[s])
        BY <1>2, <4>1 DEF Of, TypeOK
      <4> QED BY <1>1, <1>2, <2>1, <2>2, <3>1, <4>2 DEF Known, Holding, Of
    <3>2. CASE r.name \notin Made(s)
      <4>1. Accounted(s, tables[s], r)
        BY <1>1, <3>2, WhileCounting DEF Of
      <4>2. CASE \E t \in tables[s] : r = Of(s, t.name, t.origin)
        BY <1>1, <1>2, <1>4, <2>1, <4>2 DEF Known, Holding, Of
      <4>3. CASE Spare(s, tables[s], r)
        BY <1>1, <1>4, <2>1, <3>2, <4>3 DEF Spare, NamesOf
      <4> QED BY <4>1, <4>2, <4>3 DEF Accounted
    <3> QED BY <3>1, <3>2
  <2>5. Backed(s)'
    <3>1. \A m \in Made(s) : Has(s, m, file[s])
      BY <1>1, WhileCounting
    <3>2. \A m \in Made(s)' : Has(s, m, file[s])'
      BY <1>1, <1>6, <2>1, <2>2, <3>1 DEF Has, Of
    <3> QED BY <1>1, <1>7, <2>1, <3>2 DEF Backed, Has
  <2>6. NoFileLeft(s)'
    BY <1>1, <1>2, <2>1 DEF Local, NoFileLeft
  <2>7. \A l : Holds(s, l)' => Holds(s, l)
    BY <1>1, <1>8, <2>1 DEF Holds, Holding
  <2>8. Local(s)'
    BY <1>2, <2>1, <2>3, <2>4, <2>5, <2>6, <2>7, <2>11 DEF Local, Labels
  <2>9. \A q \in Sources : q # s => Untouched(q)
    <3>1. \A q \in Sources : q # s => tables'[q] = tables[q]
      BY <1>2, <2>1 DEF TypeOK
    <3> QED BY <1>1, <2>1, <3>1, PlainUntouched
  <2>10. OneAtATime'
    BY <1>1, <2>1, StillOneAtATime DEF InFlight
  <2> QED BY <1>1, <2>7, <2>8, <2>9, <2>10, StepOfOne
<1> QED BY <1>9, <1>10

LEMMA CountFailsMounts ==
  ASSUME MInv, Apart, NEW s \in Sources, CountFails(s)
  PROVE  MInv'
<1>1. /\ Scanning(s) /\ at[s] = "counting" /\ TInv' /\ FileFails(s)
      /\ UNCHANGED <<kind, again, phase, handles>>
  BY ScanSteps DEF MInv, CountFails, Scanning, unscanned
<1>2. TypeOK /\ Local(s)
  BY UnderWay
<1>3. PICK n \in Uncounted(s) : Drop({n})
  BY DEF CountFails
<1>4. n \in Made(s) /\ \A t \in tables[s] : t.name # n
  BY <1>3 DEF Uncounted, NamesOf
<1>5. \A f \in 1..Files : <<s, f>> \in registered' => Reads(relations', <<s, f>>)
  BY <1>1, <1>3, WhileCounting DEF Drop
<1>6. ASSUME NEW t \in tables[s] PROVE Has(s, t.name, t.origin)'
  <2>1. Has(s, t.name, t.origin)
    BY <1>1, <1>6, WhileCounting
  <2>2. Of(s, t.name, t.origin) \in relations'
    BY <1>3, <1>4, <1>6, <2>1 DEF Has, Of, Drop
  <2>3. Reads(relations', <<s, t.origin>>)
    BY <2>2, ReadsOf DEF Of
  <2> QED BY <1>1, <1>3, <2>1, <2>2, <2>3 DEF Has, HasFile, Of, Drop
<1>7. ASSUME NEW r \in relations', r.by = s
      PROVE  /\ r.origin <= file[s]
             /\ Accounted(s, tables[s], r) \/ kind[s] = "book"
             /\ IsList(s) \/ kind[s] = "book"
  <2>1. r \in relations /\ r.name # n
    BY <1>3 DEF Drop
  <2>2. r.origin <= file[s]
    BY <1>1, <1>7, <2>1, WhileCounting
  <2>3. CASE IsBook(s, file[s])
    <3>1. CASE Accounted(s, tables[s], r)
      BY <2>2, <2>3, <3>1 DEF IsBook, IsList
    <3>2. CASE ~Accounted(s, tables[s], r) /\ kind[s] # "book"
      <4>1. r.origin = file[s] /\ kind[s] = "folder" /\ r.origin \in Books
        BY <1>1, <1>7, <2>1, <2>3, <3>2, WhileCounting DEF Of, IsBook
      <4>2. r.name \notin NamesOf(tables[s])
        BY <1>1, <2>1, <3>2, SameName DEF Accounted
      <4> QED BY <3>2, <4>1, <4>2 DEF Accounted, Spare
    <3> QED BY <2>2, <3>1, <3>2
  <2>4. CASE ~IsBook(s, file[s])
    <3>1. \A m \in Made(s) : m = n
      BY <1>4, <2>4 DEF Made, MembersOf
    <3>2. Of(s, n, file[s]).name = n
      BY DEF Of
    <3>3. Accounted(s, tables[s], r)
      BY <1>1, <1>7, <2>1, <3>1, <3>2, WhileCounting
    <3>4. IsList(s)
      <4> SUFFICES ASSUME ~IsList(s) PROVE FALSE
        OBVIOUS
      <4>1. file[s] = 1
        BY <1>2 DEF Local, Shape
      <4>2. PICK t \in tables[s] : r = Of(s, t.name, t.origin)
        BY <3>3 DEF Accounted, Spare, IsList
      <4>3. t.origin < 1 /\ t.origin \in 1..Files
        BY <1>1, <1>4, <3>1, <4>1, <4>2, WhileCounting
      <4> QED BY <4>3, FirstLabel
    <3> QED BY <2>2, <3>3, <3>4
  <2> QED BY <2>3, <2>4
<1>13. \A t \in tables[s] : t.origin <= file[s] /\ Has(s, t.name, t.origin)'
  BY <1>1, <1>6, WhileCounting
<1>14. IsList(s) => kind[s] # "book"
  BY DEF IsList
<1>8. Local(s)' /\ LabelsKept(s) /\ reserved \subseteq reserved'
  BY <1>1, <1>5, <1>7, <1>13, <1>14, FileFailsLocal
<1>9. \A q \in Sources : q # s =>
        at'[q] = at[q] /\ file'[q] = file[q] /\ label'[q] = label[q] /\ tables'[q] = tables[q]
  BY <1>1, <1>2, FileFailsFrame
<1>10. OneAtATime'
  BY <1>1, <1>9, StillOneAtATime DEF InFlight
<1>11. \A m \in {n} : Holds(s, m.label)
  BY <1>1, <1>4, MadeLabel DEF Holds
<1>12. \A q \in Sources : q # s => Untouched(q)
  BY <1>1, <1>3, <1>8, <1>9, <1>11, DropSpares
<1> QED BY <1>1, <1>8, <1>10, <1>12, StepOfOne DEF LabelsKept

LEMMA KeptMounts ==
  ASSUME MInv, Apart, NEW s \in Sources, Kept(s)
  PROVE  MInv'
<1>1. /\ at[s] = "keeping" /\ InFlight(s) /\ TInv' /\ Complete(s)
      /\ UNCHANGED <<kind, file, label, tables, again, phase, relations, registered, reserved>>
      /\ handles \subseteq handles' /\ (kind[s] = "folder" => s \in handles')
  BY ScanSteps DEF MInv, Kept, InFlight, duckdb
<1>2. TypeOK /\ Local(s) /\ (again[s] => kind[s] # "folder")
  BY UnderWay
<1>3. /\ at'[s] = (IF again[s] THEN "remounted" ELSE "mounted")
      /\ \A q \in Sources : q # s => at'[q] = at[q]
  BY <1>1, <1>2, CompleteSteps DEF StepsOn
<1>4. /\ (IsList(s)' <=> IsList(s)) /\ (HasFile(s)' <=> HasFile(s))
  BY <1>1 DEF IsList, HasFile
<1>5. Shape(s)'
  BY <1>1, <1>2, <1>3, <1>4 DEF Local, Shape, Vending
<1>6. Owned(s)' /\ InTurn(s)'
  BY <1>1, <1>2, <1>3 DEF Local, Owned, InTurn, Spare, Known, Partial, Holding, Of
<1>7. Backed(s)'
  BY <1>1, <1>2, <1>3, <1>4 DEF Local, Backed, Has, Holding, Of
<1>8. NoFileLeft(s)'
  BY <1>1, <1>2 DEF Local, NoFileLeft
<1>9. \A l : Holds(s, l)' => Holds(s, l)
  BY <1>1, <1>3 DEF Holds, Holding
<1>10. Local(s)'
  BY <1>1, <1>2, <1>5, <1>6, <1>7, <1>8, <1>9 DEF Local, Labels
<1>11. OneAtATime'
  BY <1>1, <1>3, StillOneAtATime
<1>12. \A q \in Sources : q # s => Untouched(q)
  BY <1>1, <1>3, PlainUntouched
<1> QED BY <1>1, <1>9, <1>10, <1>11, <1>12, StepOfOne

(* Names given back by s are of labels it holds.                           *)
LEMMA ReleaseSpares ==
  ASSUME MInv, NEW s \in Sources, at[s] \in Holding \cup {"removing"},
         Release(tables[s]),
         NEW q \in Sources, q # s, NEW l \in Labels, Holds(q, l), l \in reserved
  PROVE  l \in reserved'
<1>1. ~Holds(s, l)
  BY DEF MInv, Separate
<1>2. \A t \in tables[s] : t.name.label # l
  BY <1>1 DEF Holds
<1> QED BY <1>2 DEF Release, Used, NamesOf

(* Once the tables of s are dropped, it has at most relations of books.    *)
LEMMA AllDropped ==
  ASSUME TypeOK, NEW s \in Sources, Local(s), at[s] \in {"keeping", "mounted"},
         NEW names, NamesOf(tables[s]) \subseteq names, Drop(names)
  PROVE  /\ \A r \in relations' : r.by = s => Spare(s, tables[s], r) /\ r \in relations
         /\ \A f \in 1..Files : <<s, f>> \in registered' => Reads(relations', <<s, f>>)
<1>1. ASSUME NEW r \in relations', r.by = s PROVE Spare(s, tables[s], r) /\ r \in relations
  <2>1. r \in relations /\ r.name \notin NamesOf(tables[s])
    BY <1>1 DEF Drop
  <2>2. ~Known(s, r)
    BY <2>1 DEF Known, NamesOf, Of
  <2> QED BY <1>1, <2>1, <2>2 DEF Local, Owned, Partial
<1>2. \A f \in 1..Files : <<s, f>> \in registered => Reads(relations, <<s, f>>)
  BY DEF Local, NoFileLeft
<1> QED BY <1>1, <1>2 DEF Drop

LEMMA KeepFailsMounts ==
  ASSUME MInv, Apart, NEW s \in Sources, KeepFails(s)
  PROVE  MInv'
<1>1. /\ at[s] = "keeping" /\ InFlight(s) /\ TInv' /\ Fail(s)
      /\ UNCHANGED <<kind, file, label, again, phase, handles>>
      /\ tables' = [tables EXCEPT ![s] = {}]
  BY ScanSteps DEF MInv, KeepFails, InFlight
<1>2. TypeOK /\ Local(s)
  BY UnderWay
<1>3. /\ at'[s] \in {"failed", "away"} /\ tables'[s] = {}
      /\ \A q \in Sources : q # s => at'[q] = at[q] /\ tables'[q] = tables[q]
  BY <1>1, <1>2, FailSteps DEF StepsOn, TypeOK
<1>4. (IsList(s)' <=> IsList(s)) /\ kind'[s] = kind[s]
  BY <1>1 DEF IsList
<1>5. Shape(s)'
  BY <1>1, <1>2, <1>3, <1>4 DEF Local, Shape, Vending
<1>6. \A l : ~Holds(s, l)'
  BY <1>3 DEF Holds, Holding
<1>7. OneAtATime'
  BY <1>1, <1>3, StillOneAtATime
<1>8. CASE kind[s] = "folder"
  <2>1. Drop(NamesOf(tables[s])) /\ Release(tables[s])
    BY <1>8 DEF KeepFails
  <2>2. /\ \A r \in relations' : r.by = s => Spare(s, tables[s], r)
        /\ \A f \in 1..Files : <<s, f>> \in registered' => Reads(relations', <<s, f>>)
    BY <1>1, <1>2, <2>1, AllDropped
  <2>7. \A r \in relations' : r.by = s => Spare(s, tables[s], r)'
    BY <1>3, <1>4, <2>2 DEF Spare, NamesOf
  <2>3. Local(s)'
    BY <1>3, <1>5, <1>6, <2>2, <2>7, SparesLocal DEF Holding
  <2>4. \A q \in Sources, l \in Labels :
          q # s /\ Holds(q, l) /\ l \in reserved => l \in reserved'
    BY <1>1, <2>1, ReleaseSpares DEF Holding
  <2>5. \A n \in NamesOf(tables[s]) : Holds(s, n.label)
    BY <1>1 DEF Holds, Holding, NamesOf
  <2>6. \A q \in Sources : q # s => Untouched(q)
    BY <1>1, <1>3, <2>1, <2>4, <2>5, DropSpares
  <2> QED BY <1>1, <1>6, <1>7, <2>3, <2>6, StepOfOne
<1>9. CASE kind[s] # "folder"
  <2>1. UNCHANGED <<relations, registered, reserved>>
    BY <1>9 DEF KeepFails, duckdb
  <2>2. Partial(s)'
    BY <1>1, <1>2, <1>3, <1>4, <1>9 DEF Partial, Local, Shape
  <2>3. Owned(s)' /\ InTurn(s)' /\ Backed(s)'
    BY <1>3, <2>2 DEF Owned, InTurn, Backed, Holding
  <2>4. NoFileLeft(s)'
    BY <1>1, <1>2, <2>1 DEF Local, NoFileLeft
  <2>5. Local(s)'
    BY <1>5, <1>6, <2>3, <2>4 DEF Local, Labels
  <2>6. \A q \in Sources : q # s => Untouched(q)
    BY <1>1, <1>3, <2>1, PlainUntouched
  <2> QED BY <1>1, <1>6, <1>7, <2>5, <2>6, StepOfOne
<1> QED BY <1>8, <1>9

LEMMA RemovalMounts ==
  ASSUME MInv, Apart, NEW s \in Sources, RemoveSource(s) \/ Released(s) \/ Removed(s)
  PROVE  MInv'
<1>1. TypeOK /\ Local(s) /\ TInv'
  BY RemovalSteps, UnderWay DEF MInv
<1>2. /\ UNCHANGED <<kind, file, label, again, phase>>
      /\ at'[s] \in {"removing", "released", "removed"}
      /\ \A q \in Sources : q # s =>
           at'[q] = at[q] /\ tables'[q] = tables[q] /\ (q \in handles => q \in handles')
  BY <1>1 DEF RemoveSource, Released, Removed, Goto, TypeOK, workspace
<1>3. OneAtATime'
  BY <1>2, StillOneAtATime DEF InFlight, Vending, Scanning
<1>4. IsList(s)' <=> IsList(s)
  BY <1>2 DEF IsList
<1>5. Shape(s)'
  BY <1>1, <1>2, <1>4 DEF Local, Shape, Vending
<1>6. CASE RemoveSource(s)
  <2>1. /\ at[s] = "mounted" /\ at'[s] = "removing" /\ Drop(NamesOf(tables[s]))
        /\ UNCHANGED <<tables, reserved>>
    BY <1>1, <1>6 DEF RemoveSource, Goto, TypeOK
  <2>2. /\ \A r \in relations' : r.by = s => Spare(s, tables[s], r)
        /\ \A f \in 1..Files : <<s, f>> \in registered' => Reads(relations', <<s, f>>)
    BY <1>1, <2>1, AllDropped
  <2>3. \A l : Holds(s, l)' => Holds(s, l)
    BY <2>1 DEF Holds, Holding
  <2>7. \A r \in relations' : r.by = s => Spare(s, tables[s], r)'
    BY <1>2, <2>1, <2>2 DEF Spare
  <2>8. \A l \in Labels : Holds(s, l)' => l \in reserved'
    BY <1>1, <2>1, <2>3 DEF Local
  <2>4. Local(s)'
    BY <1>5, <2>1, <2>2, <2>7, <2>8, SparesLocal DEF Holding
  <2>5. \A n \in NamesOf(tables[s]) : Holds(s, n.label)
    BY <2>1 DEF Holds, Holding, NamesOf
  <2>6. \A q \in Sources : q # s => Untouched(q)
    BY <1>2, <2>1, <2>5, DropSpares
  <2> QED BY <1>1, <1>3, <2>3, <2>4, <2>6, StepOfOne
<1>7. CASE Released(s)
  <2>1. /\ at[s] = "removing" /\ at'[s] = "released" /\ Release(tables[s])
        /\ UNCHANGED <<relations, registered, tables>>
    BY <1>1, <1>7 DEF Released, Goto, TypeOK, duckdb
  <2>2. \A l : ~Holds(s, l)'
    BY <2>1 DEF Holds, Holding
  <2>3. Local(s)'
    <3>1. /\ \A r \in relations' : r.by = s => Spare(s, tables[s], r)
          /\ \A f \in 1..Files : <<s, f>> \in registered' => Reads(relations', <<s, f>>)
      BY <1>1, <2>1, HasSpares DEF Holding
    <3>2. \A r \in relations' : r.by = s => Spare(s, tables[s], r)'
      BY <1>2, <2>1, <3>1 DEF Spare, NamesOf
    <3> QED BY <1>5, <2>1, <2>2, <3>1, <3>2, SparesLocal DEF Holding
  <2>4. \A q \in Sources, l \in Labels :
          q # s /\ Holds(q, l) /\ l \in reserved => l \in reserved'
    BY <2>1, ReleaseSpares
  <2>5. \A q \in Sources : q # s => Untouched(q)
    BY <1>2, <2>1, <2>4, PlainUntouched
  <2> QED BY <1>1, <1>3, <2>2, <2>3, <2>5, StepOfOne
<1>8. CASE Removed(s)
  <2>1. /\ at[s] = "released" /\ at'[s] = "removed"
        /\ UNCHANGED <<relations, registered, reserved>> /\ tables'[s] = {}
    BY <1>1, <1>8 DEF Removed, Goto, TypeOK, duckdb
  <2>2. \A l : ~Holds(s, l)'
    BY <2>1 DEF Holds, Holding
  <2>3. Local(s)'
    <3>1. /\ \A r \in relations' : r.by = s => Spare(s, tables[s], r)
          /\ \A f \in 1..Files : <<s, f>> \in registered' => Reads(relations', <<s, f>>)
      BY <1>1, <2>1, HasSpares DEF Holding
    <3>2. \A r \in relations' : r.by = s => Spare(s, tables[s], r)'
      BY <1>2, <2>1, <3>1 DEF Spare, NamesOf
    <3> QED BY <1>5, <2>1, <2>2, <3>1, <3>2, SparesLocal DEF Holding
  <2>4. \A q \in Sources : q # s => Untouched(q)
    BY <1>2, <2>1, PlainUntouched
  <2> QED BY <1>1, <1>3, <2>2, <2>3, <2>4, StepOfOne
<1> QED BY <1>6, <1>7, <1>8

LEMMA RevokeMounts ==
  ASSUME MInv, NEW s \in Sources, Revoke(s)
  PROVE  MInv'
<1>1. /\ UNCHANGED <<at, kind, file, label, tables, again, reserved, relations, registered,
                     handles, phase>>
      /\ TypeOK /\ TInv'
  BY RevokeStep DEF MInv, TInv, Revoke, untouched, duckdb
<1>2. \A q \in Sources : Untouched(q)
  BY <1>1, PlainUntouched
<1>3. OneAtATime'
  BY <1>1 DEF MInv, OneAtATime, InFlight, Vending, Scanning
<1>4. \A l \in Labels : Holds(s, l)' => Holds(s, l)
  BY <1>1 DEF Holds
<1>5. Local(s)'
  BY <1>1, <1>2, UntouchedLocal DEF MInv
<1> QED BY <1>1, <1>2, <1>3, <1>4, <1>5, StepOfOne


-----------------------------------------------------------------------------
(***************************************************************************)
(* Reopening: it concerns all sources at once.                             *)
(***************************************************************************)
LEMMA ReopenMounts ==
  ASSUME MInv, Apart, Reopen
  PROVE  MInv'
<1> DEFINE names == UNION {NamesOf(tables[s]) : s \in ToSet(sources)}
<1>1. /\ TypeOK /\ TInv' /\ phase = "none" /\ phase' = "dropped" /\ Drop(names)
      /\ UNCHANGED <<kind, at, file, label, tables, again, sources, reserved, handles>>
      /\ \A s \in Sources : ~InFlight(s) /\ at[s] \notin {"removing", "released"}
  BY ReopenSteps DEF MInv, TInv, Reopen, Apart, progress
<1>2. \A s \in Sources : at[s] = "mounted" => NamesOf(tables[s]) \subseteq names
  BY DEF MInv, TInv, Places, Listed
<1> HIDE DEF names
<1>3. OneAtATime'
  BY <1>1 DEF OneAtATime, InFlight, Vending, Scanning
<1>4. \A s, l : Holds(s, l)' <=> Holds(s, l)
  BY <1>1 DEF Holds
<1>5. Separate'
  BY <1>4 DEF MInv, Separate, Labels
<1>6. ASSUME NEW s \in Sources PROVE Local(s)'
  <2>1. Local(s) /\ (IsList(s)' <=> IsList(s)) /\ Made(s)' = Made(s)
    BY <1>1 DEF MInv, IsList, Made, MembersOf, IsBook
  <2>2. at[s] \in Holding => at[s] = "mounted"
    BY <1>1 DEF Holding, InFlight, Scanning, MInv, TInv, Places, ComingBack
  <2>3. Shape(s)'
    BY <1>1, <2>1 DEF Local, Shape, Vending
  <2>4. Owned(s)'
    <3> SUFFICES ASSUME NEW r \in relations', r.by = s, ~Partial(s)
                 PROVE  Spare(s, tables[s], r)
      BY <1>1 DEF Owned, Partial, Spare
    <3>1. r \in relations /\ (Known(s, r) \/ Spare(s, tables[s], r))
      BY <1>1, <2>1 DEF Drop, Local, Owned
    <3>2. Known(s, r) => at[s] = "mounted"
      BY <2>2 DEF Known
    <3> QED BY <1>1, <1>2, <2>1, <3>1, <3>2, AllDropped
  <2>7. InTurn(s)'
    BY <1>1, <2>1 DEF Local, InTurn, Drop
  <2>5. Backed(s)'
    BY <1>1 DEF Backed, InFlight, Scanning
  <2>6. NoFileLeft(s)'
    BY <1>1, <2>1 DEF Local, NoFileLeft, Drop, InFlight, Scanning
  <2> QED BY <1>1, <1>4, <2>1, <2>3, <2>4, <2>5, <2>6, <2>7 DEF Local, Labels
<1> QED BY <1>1, <1>3, <1>5, <1>6 DEF MInv

LEMMA ClearMounts ==
  ASSUME MInv, Apart, ClearWorkspace
  PROVE  MInv'
<1>1. /\ TypeOK /\ TInv' /\ phase = "dropped" /\ phase' = "restoring"
      /\ UNCHANGED <<kind, file, label, relations, handles>>
      /\ registered' = {}
      /\ at' = [s \in Sources |-> IF s \in ToSet(sources) THEN "waiting" ELSE at[s]]
      /\ tables' = [s \in Sources |-> IF s \in ToSet(sources) THEN {} ELSE tables[s]]
  BY ReopenSteps DEF MInv, TInv, ClearWorkspace
<1>2. \A s \in Sources :
        /\ ~InFlight(s) /\ at[s] \notin ComingBack \cup {"removing", "released"}
        /\ s \in ToSet(sources) <=> at[s] = "mounted"
  BY <1>1 DEF MInv, TInv, Places, OneAtATime, Listed
<1>3. \A s \in Sources : ~InFlight(s)' /\ at'[s] \notin Holding \cup {"removing", "undoing"}
  BY <1>1, <1>2 DEF InFlight, Vending, Scanning, Holding, ComingBack
<1>4. OneAtATime'
  BY <1>3 DEF OneAtATime
<1>5. \A s \in Sources : \A l : ~Holds(s, l)'
  BY <1>3 DEF Holds, Holding
<1>6. Separate'
  BY <1>5 DEF Separate, Labels
<1>7. ASSUME NEW s \in Sources PROVE Local(s)'
  <2>1. Local(s) /\ (IsList(s)' <=> IsList(s))
    BY <1>1 DEF MInv, IsList
  <2>2. Shape(s)'
    <3>1. \/ at'[s] = "waiting" /\ tables'[s] = {}
          \/ at'[s] = at[s] /\ tables'[s] = tables[s]
      BY <1>1
    <3>2. ~Vending(s)'
      BY <1>3 DEF InFlight, Vending, Scanning
    <3> QED BY <1>1, <1>3, <2>1, <3>1, <3>2 DEF Local, Shape, Holding, Vending
  <2>3. Owned(s)'
    <3> SUFFICES ASSUME NEW r \in relations, r.by = s
                 PROVE  Partial(s)' \/ Spare(s, tables[s], r)'
      BY <1>1 DEF Owned
    <3>1. Partial(s) \/ Spare(s, tables[s], r)
      BY <1>1, <2>1 DEF Local, Owned, Known
    <3> QED BY <1>1, <1>2, <3>1 DEF Partial, Spare, NamesOf
  <2>5. InTurn(s)'
    BY <1>1, <1>3, <2>1 DEF Local, InTurn, Holding
  <2>4. Backed(s)' /\ NoFileLeft(s)'
    BY <1>1, <1>3 DEF Backed, NoFileLeft, Holding
  <2> QED BY <1>5, <2>2, <2>3, <2>4, <2>5 DEF Local, Labels
<1> QED BY <1>1, <1>4, <1>6, <1>7 DEF MInv

LEMMA RestoreNextMounts ==
  ASSUME MInv, Apart, RestoreNext
  PROVE  MInv'
<1>1. /\ TypeOK /\ TInv' /\ phase = "restoring" /\ ~Remounting
      /\ queue \in Distinct(Sources) /\ queue # <<>>
      /\ UNCHANGED <<kind, tables, phase, relations, registered, handles>>
  BY RestoreNextStep DEF MInv, TInv, TypeOK, Distinct, RestoreNext, duckdb
<1>2. PICK s \in Sources : s = Head(queue) /\ at[s] = "waiting"
  <2>1. Head(queue) \in ToSet(queue)
    BY <1>1, TailDistinct
  <2>2. ToSet(queue) = {s \in Sources : at[s] = "waiting"}
    BY <1>1 DEF MInv, TInv, Places
  <2> QED BY <2>1, <2>2
<1>3. Local(s) /\ \A q \in Sources : ~InFlight(q)
  BY <1>1, <1>2 DEF MInv, OneAtATime, Remounting
<1>4. \/ /\ kind[s] # "folder"
         /\ again' = [again EXCEPT ![s] = TRUE]
         /\ \E f \in After(s, 0, TRUE) : Begin(s, f)
      \/ /\ Goto(s, "away")
         /\ UNCHANGED <<file, label, again, reserved>>
  BY <1>2 DEF RestoreNext, Apart
<1>5. CASE /\ kind[s] # "folder"
           /\ again' = [again EXCEPT ![s] = TRUE]
           /\ \E f \in After(s, 0, TRUE) : Begin(s, f)
  <2>1. PICK f \in 1..Files : Begin(s, f) /\ (~IsList(s) => f = 1)
    <3>1. After(s, 0, TRUE) \subseteq 1..Files
      BY <1>1, <1>2, AfterType
    <3>2. ~IsList(s) => After(s, 0, TRUE) \subseteq {1}
      BY DEF After, IsList
    <3> QED BY <1>5, <3>1, <3>2
  <2>2. \A q \in Sources : q # s => at'[q] = at[q]
    BY <1>1, <1>2, <2>1, BeginTyped DEF TypeOK
  <2>3. OneAtATime'
    <3>1. again'[s]
      BY <1>1, <1>2, <1>5 DEF TypeOK
    <3>2. \A q \in Sources : q # s => ~InFlight(q)'
      BY <1>3, <2>2 DEF InFlight, Vending, Scanning
    <3> QED BY <1>1, <3>1, <3>2 DEF OneAtATime
  <2> QED BY <1>1, <1>2, <1>5, <2>1, <2>3, BeginMounts
<1>6. CASE Goto(s, "away") /\ UNCHANGED <<file, label, again, reserved>>
  <2>1. at'[s] = "away" /\ \A q \in Sources : q # s => at'[q] = at[q]
    BY <1>1, <1>2, <1>6 DEF Goto, TypeOK
  <2>2. Shape(s)'
    <3>1. IsList(s)' <=> IsList(s)
      BY <1>1 DEF IsList
    <3> QED BY <1>1, <1>3, <1>6, <2>1, <3>1 DEF Local, Shape, Vending
  <2>3. \A l : ~Holds(s, l)'
    BY <2>1 DEF Holds, Holding
  <2>4. /\ \A r \in relations : r.by = s => Spare(s, tables[s], r)
        /\ \A f \in 1..Files : <<s, f>> \in registered => Reads(relations, <<s, f>>)
    BY <1>1, <1>2, <1>3, HasSpares DEF Holding
  <2>8. \A r \in relations' : r.by = s => Spare(s, tables[s], r)'
    BY <1>1, <2>4 DEF Spare
  <2>5. Local(s)'
    BY <1>1, <1>2, <2>1, <2>2, <2>3, <2>4, <2>8, SparesLocal DEF Holding
  <2>6. OneAtATime'
    BY <1>1, <1>2, <1>6, <2>1, StillOneAtATime DEF InFlight, Vending, Scanning
  <2>7. \A q \in Sources : q # s => Untouched(q)
    BY <1>1, <1>6, <2>1, PlainUntouched
  <2> QED BY <1>1, <1>2, <2>3, <2>5, <2>6, <2>7, StepOfOne
<1> QED BY <1>4, <1>5, <1>6

LEMMA RestoreEndsMounts ==
  ASSUME MInv, Apart, RestoreEnds
  PROVE  MInv'
<1>1. /\ TypeOK /\ TInv' /\ phase = "restoring" /\ phase' = "none" /\ ~Remounting
      /\ UNCHANGED <<kind, file, label, tables, relations, registered, reserved, handles>>
      /\ at' = [s \in Sources |-> IF s \in ToSet(back) THEN "mounted" ELSE at[s]]
      /\ ToSet(back) = {s \in Sources : at[s] = "remounted"}
      /\ queue = <<>>
  BY RestoreEndsStep DEF MInv, TInv, Places, RestoreEnds, duckdb
<1>2. \A s \in Sources : ~InFlight(s)
  BY <1>1 DEF MInv, OneAtATime, Remounting
<1>3. \A s \in Sources :
        /\ at'[s] = at[s] \/ (at[s] = "remounted" /\ at'[s] = "mounted")
        /\ ~InFlight(s)' /\ (at'[s] \in Holding <=> at[s] \in Holding)
  BY <1>1, <1>2 DEF InFlight, Vending, Scanning, Holding
<1>4. OneAtATime'
  BY <1>1 DEF OneAtATime
<1>5. \A s \in Sources : \A l : Holds(s, l)' <=> Holds(s, l)
  BY <1>1, <1>3 DEF Holds, Holding
<1>6. Separate'
  BY <1>5 DEF MInv, Separate, Labels
<1>7. ASSUME NEW s \in Sources PROVE Local(s)'
  <2>1. /\ Local(s) /\ (IsList(s)' <=> IsList(s)) /\ (HasFile(s)' <=> HasFile(s))
        /\ at[s] \notin {"reading", "creating", "counting", "keeping"}
        /\ at'[s] \notin {"reading", "creating", "counting", "keeping"}
    BY <1>1, <1>2, <1>3 DEF MInv, IsList, HasFile, InFlight, Scanning
  <2>2. Shape(s)'
    <3>1. ~Vending(s)'
      BY <1>3 DEF InFlight
    <3> QED BY <1>1, <1>3, <2>1, <3>1 DEF Local, Shape
  <2>3. Owned(s)'
    <3>1. /\ Partial(s) => Partial(s)'
          /\ \A r : Known(s, r) => Known(s, r)'
          /\ \A r : Spare(s, tables[s], r) => Spare(s, tables[s], r)'
      BY <1>1, <1>3, <2>1 DEF Partial, Spare, Known, Of
    <3> QED BY <1>1, <2>1, <3>1 DEF Local, Owned
  <2>6. InTurn(s)'
    BY <1>1, <1>3, <2>1 DEF Local, InTurn
  <2>4. Backed(s)'
    BY <1>1, <1>3, <2>1 DEF Local, Backed, Has, Of
  <2>5. NoFileLeft(s)'
    BY <1>1, <2>1 DEF Local, NoFileLeft
  <2> QED BY <1>1, <1>5, <2>1, <2>2, <2>3, <2>4, <2>5, <2>6 DEF Local, Labels
<1> QED BY <1>1, <1>4, <1>6, <1>7 DEF MInv

LEMMA NextMounts ==
  ASSUME MInv, Apart, [Next]_vars
  PROVE  MInv'
<1>1. CASE UNCHANGED vars
  <2>1. /\ UNCHANGED <<at, kind, file, label, tables, again, handles, phase>>
        /\ UNCHANGED <<relations, registered, reserved>>
    BY <1>1 DEF vars, progress, workspace, duckdb, credentials
  <2>2. TInv'
    BY <1>1, NextTyped DEF MInv
  <2>3. OneAtATime'
    BY <2>1 DEF MInv, OneAtATime, InFlight, Vending, Scanning
  <2>4. \A s \in Sources : Untouched(s)
    BY <2>1, PlainUntouched
  <2>5. \A s \in Sources : Local(s)' /\ \A l \in Labels : Holds(s, l)' => Holds(s, l)
    BY <2>4, UntouchedLocal DEF MInv, TInv
  <2>6. Separate'
    BY <2>5 DEF MInv, Separate, Labels
  <2> QED BY <2>2, <2>3, <2>5, <2>6 DEF MInv
<1>2. CASE Next
  <2>1. ASSUME NEW s \in Sources,
               \/ LoadFails(s) \/ NoneVended(s) \/ Vend(s) \/ VendFails(s)
               \/ RollBack(s) \/ CleanUp(s) \/ Configured(s) \/ ConfigureFails(s) \/ Undo(s)
        PROVE  MInv'
    BY <2>1, CredentialMounts
  <2>2. ASSUME NEW s \in Sources,
               \/ Mount(s) \/ Read(s) \/ ReadFails(s) \/ Create(s) \/ CreateFails(s)
               \/ Counted(s) \/ CountFails(s) \/ Kept(s) \/ KeepFails(s)
        PROVE  MInv'
    BY <2>2, MountMounts, ReadMounts, ReadFailsMounts, CreateMounts, CreateFailsMounts, CountedMounts,
       CountFailsMounts, KeptMounts, KeepFailsMounts
  <2>3. ASSUME NEW s \in Sources,
               RemoveSource(s) \/ Released(s) \/ Removed(s) \/ Revoke(s)
        PROVE  MInv'
    BY <2>3, RemovalMounts, RevokeMounts
  <2>4. ASSUME Reopen \/ ClearWorkspace \/ RestoreNext \/ RestoreEnds PROVE MInv'
    BY <2>4, ReopenMounts, ClearMounts, RestoreNextMounts, RestoreEndsMounts
  <2> QED BY <1>2, <2>1, <2>2, <2>3, <2>4 DEF Next
<1> QED BY <1>1, <1>2

-----------------------------------------------------------------------------
(***************************************************************************)
(* Credentials.                                                            *)
(***************************************************************************)
LEMMA OnwardGoes ==
  ASSUME TypeOK, NEW s \in Sources, NEW scanned \in SUBSET Table, Onward(s, scanned)
  PROVE  at'[s] \notin Fresh \cup {"removed"}
<1>1. CASE \E f \in After(s, file[s], again[s]) : Scan(s, f)
  BY <1>1 DEF Scan, Goto, TypeOK, Fresh
<1>2. CASE Fail(s) \/ Complete(s)
  BY <1>2, FailSteps, CompleteSteps DEF Fresh
<1>3. CASE Goto(s, "keeping")
  BY <1>3 DEF Goto, TypeOK, Fresh
<1> QED BY <1>1, <1>2, <1>3 DEF Onward

LEMMA FileFailsGoes ==
  ASSUME TypeOK, NEW s \in Sources, FileFails(s)
  PROVE  at'[s] \notin Fresh \cup {"removed"}
<1>1. CASE IsList(s)
  <2>1. tables[s] \in SUBSET Table /\ Onward(s, tables[s])
    BY <1>1 DEF FileFails, TypeOK
  <2> QED BY <2>1, OnwardGoes
<1>2. CASE ~IsList(s)
  <2>1. Goto(s, "undoing") \/ Fail(s)
    BY <1>2 DEF FileFails
  <2> QED BY <2>1, FailSteps DEF Goto, TypeOK, Fresh
<1> QED BY <1>1, <1>2

LEMMA ScanGoes ==
  ASSUME TypeOK, NEW s \in Sources,
         \/ Read(s) \/ ReadFails(s) \/ Create(s) \/ CreateFails(s)
         \/ Counted(s) \/ CountFails(s) \/ Kept(s) \/ KeepFails(s)
  PROVE  /\ \A q \in Sources : q # s => at'[q] = at[q]
         /\ at'[s] \notin Fresh \cup {"removed"}
<1>1. CASE ReadFails(s) \/ CreateFails(s) \/ CountFails(s)
  <2>1. FileFails(s)
    BY <1>1 DEF ReadFails, CreateFails, CountFails
  <2> QED BY <2>1, FileFailsFrame, FileFailsGoes
<1>2. CASE Counted(s)
  <2>1. PICK n \in Made(s) :
          \/ Onward(s, tables[s] \cup {Counts(s, n)})
          \/ at[s] = "counting" /\ UNCHANGED at
    BY <1>2 DEF Counted, Uncounted
  <2>2. tables[s] \cup {Counts(s, n)} \in SUBSET Table
    BY CountsType DEF TypeOK
  <2> QED BY <2>1, <2>2, OnwardFrame, OnwardGoes DEF Fresh
<1>3. CASE Read(s) \/ Create(s)
  BY <1>3 DEF Read, Create, Goto, TypeOK, Fresh
<1>4. CASE Kept(s) \/ KeepFails(s)
  <2>1. Complete(s) \/ Fail(s)
    BY <1>4 DEF Kept, KeepFails
  <2> QED BY <2>1, FailSteps, CompleteSteps DEF StepsOn, Fresh
<1> QED BY <1>1, <1>2, <1>3, <1>4

LEMMA SessionsStay ==
  ASSUME SessionsInv, UNCHANGED <<kind, secrets, sessions>>,
         \A s \in sessions : at'[s] = at[s] \/ at'[s] \notin Fresh \cup {"removed"}
  PROVE  SessionsInv' /\ (SecretsInv => SecretsInv')
BY DEF SessionsInv, SecretsInv, Fresh, Alone

(* A session that is withdrawn takes its secret with it.                   *)
LEMMA WithdrawSessions ==
  ASSUME TypeOK, Apart, SessionsInv, NEW s \in Sources, Withdraw(s), kind' = kind,
         \A q \in sessions : at'[q] = at[q] \/ at'[q] \notin Fresh \cup {"removed"}
  PROVE  SessionsInv' /\ (SecretsInv => SecretsInv')
<1>1. CASE s \notin sessions
  BY <1>1, SessionsStay DEF Withdraw, credentials
<1>2. CASE s \in sessions
  <2>1. /\ secrets' = secrets \ Named(s) /\ sessions' = sessions \ {s}
        /\ s \in Named(s) /\ \A q \in Named(s) : Alone(q) => q = s
    BY <1>2 DEF Withdraw, DropSecrets, Ready, Apart, Named, Alone
  <2> QED BY <2>1 DEF SessionsInv, SecretsInv, Fresh, Alone
<1> QED BY <1>1, <1>2

LEMMA CredentialSessions ==
  ASSUME MInv, Apart, SessionsInv, NEW s \in Sources,
         \/ LoadFails(s) \/ NoneVended(s) \/ Vend(s) \/ VendFails(s)
         \/ RollBack(s) \/ CleanUp(s) \/ Configured(s) \/ ConfigureFails(s) \/ Undo(s)
  PROVE  SessionsInv' /\ (SecretsInv => SecretsInv')
<1>1. TypeOK /\ UNCHANGED kind /\ (s \in sessions => at[s] \notin Fresh)
  BY DEF MInv, TInv, SessionsInv, LoadFails, NoneVended, Vend, VendFails, RollBack, CleanUp,
         Configured, ConfigureFails, Undo, untouched
<1>2. CASE LoadFails(s)
  <2>1. \A q \in Sources : q # s => at'[q] = at[q]
    BY <1>1, <1>2, FailSteps DEF LoadFails, StepsOn
  <2>2. s \notin sessions /\ sessions \subseteq Sources /\ UNCHANGED <<secrets, sessions>>
    BY <1>1, <1>2 DEF LoadFails, credentials, Fresh, TypeOK
  <2> QED BY <1>1, <2>1, <2>2, SessionsStay
<1>3. CASE NoneVended(s) \/ VendFails(s) \/ RollBack(s)
  <2>1. \A q \in Sources : q # s => at'[q] = at[q]
    BY <1>1, <1>3 DEF NoneVended, VendFails, RollBack, Goto, TypeOK
  <2>2. s \notin sessions /\ sessions \subseteq Sources /\ UNCHANGED <<secrets, sessions>>
    BY <1>1, <1>3 DEF NoneVended, VendFails, RollBack, credentials, Fresh, TypeOK
  <2> QED BY <1>1, <2>1, <2>2, SessionsStay
<1>4. CASE Configured(s) \/ ConfigureFails(s)
  <2>1. /\ \A q \in Sources : q # s => at'[q] = at[q]
        /\ at'[s] \notin Fresh \cup {"removed"}
    BY <1>1, <1>4 DEF Configured, ConfigureFails, Goto, TypeOK, Fresh
  <2>2. sessions \subseteq Sources /\ UNCHANGED <<secrets, sessions>>
    BY <1>1, <1>4 DEF Configured, ConfigureFails, credentials, TypeOK
  <2> QED BY <1>1, <2>1, <2>2, SessionsStay
<1>5. CASE Vend(s)
  <2>1. /\ at'[s] = "configuring" /\ \A q \in Sources : q # s => at'[q] = at[q]
        /\ secrets' = secrets \cup {s} /\ sessions' = sessions \cup {s}
        /\ kind[s] = "iceberg" /\ sessions \subseteq Sources
    BY <1>1, <1>5 DEF Vend, Goto, TypeOK, MInv, Local, Shape, Vending
  <2> QED BY <1>1, <2>1 DEF SessionsInv, SecretsInv, Fresh, Alone
<1>6. CASE CleanUp(s)
  <2>1. /\ s \notin sessions /\ sessions' = sessions /\ secrets' = secrets \ Named(s)
        /\ sessions \subseteq Sources
    BY <1>1, <1>6 DEF CleanUp, DropSecrets, Ready, Apart, Fresh, TypeOK
  <2>2. \A q \in Sources : q # s => at'[q] = at[q]
    BY <1>1, <1>6, FailSteps DEF CleanUp, StepsOn
  <2>3. \A q \in Named(s) : Alone(q) => q = s
    BY DEF Alone
  <2> QED BY <1>1, <2>1, <2>2, <2>3 DEF SessionsInv, SecretsInv, Named, Alone
<1>7. CASE Undo(s)
  <2>1. /\ \A q \in Sources : q # s => at'[q] = at[q]
        /\ at'[s] \notin Fresh \cup {"removed"}
    BY <1>1, <1>7, FailSteps DEF Undo, StepsOn, Fresh
  <2>2. Withdraw(s) /\ sessions \subseteq Sources
    BY <1>1, <1>7 DEF Undo, TypeOK
  <2> QED BY <1>1, <2>1, <2>2, WithdrawSessions
<1> QED BY <1>2, <1>3, <1>4, <1>5, <1>6, <1>7

LEMMA ReopenSessions ==
  ASSUME MInv, Apart, SessionsInv, Reopen \/ ClearWorkspace \/ RestoreNext \/ RestoreEnds
  PROVE  SessionsInv' /\ (SecretsInv => SecretsInv')
<1>1. /\ TypeOK /\ sessions \subseteq Sources /\ UNCHANGED <<kind, secrets, sessions>>
  BY DEF MInv, TInv, TypeOK, Reopen, ClearWorkspace, RestoreNext, RestoreEnds, progress,
         credentials
<1>2. CASE Reopen
  BY <1>1, <1>2, SessionsStay DEF Reopen, progress
<1>3. CASE ClearWorkspace
  (* credentials are revoked before: what stays is of sources that are not listed *)
  <2>1. \A s \in sessions : s \notin ToSet(sources)
    <3> SUFFICES ASSUME NEW s \in sessions, s \in ToSet(sources) PROVE FALSE
      OBVIOUS
    <3>1. kind[s] = "iceberg" /\ at[s] \in Listed /\ phase = "dropped"
      BY <1>3 DEF SessionsInv, MInv, TInv, Places, ClearWorkspace
    <3>2. RevokesAll /\ Registered(s)
      BY <3>1 DEF RevokesAll, Registered, Listed, Vending, Scanning
    <3> QED BY <1>1, <1>3, <3>2 DEF ClearWorkspace
  <2>2. \A s \in sessions : at'[s] = at[s]
    BY <1>1, <1>3, <2>1 DEF ClearWorkspace
  <2> QED BY <1>1, <2>2, SessionsStay
<1>4. CASE RestoreNext
  <2>1. queue \in Distinct(Sources) /\ queue # <<>> /\ phase = "restoring"
    BY <1>1, <1>4 DEF TypeOK, Distinct, RestoreNext
  <2>2. PICK s \in Sources : s = Head(queue) /\ at[s] = "waiting"
    <3>1. Head(queue) \in ToSet(queue)
      BY <2>1, TailDistinct
    <3>2. ToSet(queue) = {s \in Sources : at[s] = "waiting"}
      BY <2>1 DEF MInv, TInv, Places
    <3> QED BY <3>1, <3>2
  <2>3. (\E f \in 1..Files : Begin(s, f)) \/ Goto(s, "away")
    BY <1>1, <1>4, <2>2, AfterType DEF RestoreNext
  <2>4. \A q \in Sources : q # s => at'[q] = at[q]
    BY <1>1, <2>3, BeginTyped DEF Goto, TypeOK
  <2>5. s \notin sessions
    BY <2>2 DEF SessionsInv, Fresh
  <2> QED BY <1>1, <2>4, <2>5, SessionsStay
<1>5. CASE RestoreEnds
  <2>1. \A s \in Sources : at'[s] = at[s] \/ at'[s] = "mounted"
    BY <1>5 DEF RestoreEnds
  <2> QED BY <1>1, <2>1, SessionsStay DEF Fresh
<1> QED BY <1>2, <1>3, <1>4, <1>5

LEMMA NextSessions ==
  ASSUME MInv, Apart, SessionsInv, [Next]_vars
  PROVE  SessionsInv' /\ (SecretsInv => SecretsInv')
<1>1. TypeOK /\ sessions \subseteq Sources
  BY DEF MInv, TInv, TypeOK
<1>2. CASE UNCHANGED vars
  BY <1>2, SessionsStay DEF vars, progress, credentials
<1>3. CASE Next
  <2>1. ASSUME NEW s \in Sources,
               \/ LoadFails(s) \/ NoneVended(s) \/ Vend(s) \/ VendFails(s)
               \/ RollBack(s) \/ CleanUp(s) \/ Configured(s) \/ ConfigureFails(s) \/ Undo(s)
        PROVE  SessionsInv' /\ (SecretsInv => SecretsInv')
    BY <2>1, CredentialSessions
  <2>2. ASSUME NEW s \in Sources, Mount(s)
        PROVE  SessionsInv' /\ (SecretsInv => SecretsInv')
    <3>1. /\ at[s] = "new" /\ Begin(s, 1) /\ 1 \in 1..Files
          /\ UNCHANGED <<kind, secrets, sessions>>
      BY <2>2, FirstLabel DEF Mount, credentials
    <3>2. \A q \in Sources : q # s => at'[q] = at[q]
      BY <1>1, <3>1, BeginTyped DEF TypeOK
    <3>3. s \notin sessions
      BY <3>1 DEF SessionsInv, Fresh
    <3> QED BY <1>1, <3>1, <3>2, <3>3, SessionsStay
  <2>3. ASSUME NEW s \in Sources,
               \/ Read(s) \/ ReadFails(s) \/ Create(s) \/ CreateFails(s)
               \/ Counted(s) \/ CountFails(s) \/ Kept(s) \/ KeepFails(s)
        PROVE  SessionsInv' /\ (SecretsInv => SecretsInv')
    <3>1. UNCHANGED <<kind, secrets, sessions>>
      BY <2>3 DEF Read, ReadFails, Create, CreateFails, Counted, CountFails, Kept, KeepFails,
                  unscanned, credentials
    <3> QED BY <1>1, <2>3, <3>1, ScanGoes, SessionsStay
  <2>4. ASSUME NEW s \in Sources, RemoveSource(s) \/ Released(s) \/ Removed(s)
        PROVE  SessionsInv' /\ (SecretsInv => SecretsInv')
    <3>1. UNCHANGED <<kind, secrets, sessions>>
      BY <2>4 DEF RemoveSource, Released, Removed, credentials
    <3>2. \A q \in sessions : at'[q] = at[q] \/ at'[q] \notin Fresh \cup {"removed"}
      BY <1>1, <2>4 DEF RemoveSource, Released, Removed, Goto, TypeOK, Fresh
    <3> QED BY <3>1, <3>2, SessionsStay
  <2>5. ASSUME NEW s \in Sources, Revoke(s)
        PROVE  SessionsInv' /\ (SecretsInv => SecretsInv')
    BY <1>1, <2>5, WithdrawSessions DEF Revoke, untouched
  <2> QED BY <1>3, <2>1, <2>2, <2>3, <2>4, <2>5, ReopenSessions DEF Next
<1> QED BY <1>2, <1>3

-----------------------------------------------------------------------------
(***************************************************************************)
(* What it is all for.                                                     *)
(***************************************************************************)
LEMMA MountsCorrect ==
  ASSUME Apart
  PROVE  Spec => [](MInv /\ SessionsInv)
<1>1. Init => MInv /\ SessionsInv
  BY InitMounts DEF Init, SessionsInv
<1>2. MInv /\ SessionsInv /\ [Next]_vars => MInv' /\ SessionsInv'
  BY NextMounts, NextSessions
<1> QED BY <1>1, <1>2, PTL DEF Spec

(***************************************************************************)
(* The allocator knows of every relation (mountedRelationNames), whatever  *)
(* is mounted, removed, restored or fails, but for what a mount has left   *)
(* behind (Leftover): each relation is that of a table that was counted,   *)
(* or of a file being counted, and their labels are given back only with   *)
(* them.                                                                   *)
(***************************************************************************)
THEOREM NamesAreReserved ==
  ASSUME Apart
  PROVE  Spec => []NamesReserved
<1>1. MInv => NamesReserved
  <2> SUFFICES ASSUME MInv, NEW r \in relations, ~Leftover(r)
               PROVE  r.name.label \in reserved
    BY DEF NamesReserved
  <2>1. TypeOK /\ r.by \in Sources /\ Local(r.by)
    BY DEF MInv, TInv, TypeOK, Relation
  <2>2. Known(r.by, r)
    BY <2>1 DEF Local, Owned, Leftover, Spare
  <2> QED BY <2>1, <2>2, KnownHeld DEF Local
<1> QED BY <1>1, MountsCorrect, PTL

(***************************************************************************)
(* A mount that failed leaves no relation, no file and no credentials but  *)
(* for two kinds of leftovers: the relations of a source that makes several*)
(* or stores secrets after them, and those of a folder's books that were   *)
(* not all created and counted.  A file without several tables is always   *)
(* gone with its mount, in a folder and by itself.                         *)
(***************************************************************************)
THEOREM FailedMountsLeaveNothing ==
  ASSUME Apart
  PROVE  Spec => []NothingLeft
<1>1. MInv /\ SessionsInv => NothingLeft
  <2> SUFFICES ASSUME MInv, SessionsInv PROVE NothingLeft
    OBVIOUS
  <2>1. TypeOK /\ \A s \in Sources : Local(s) /\ (at[s] \in Listed => s \in ToSet(sources))
    BY DEF MInv, TInv, Places
  <2>2. ASSUME NEW r \in relations
        PROVE  \/ InFlight(r.by) \/ at[r.by] = "remounted" \/ Leftover(r)
               \/ r.by \in ToSet(sources) /\ r.name \in NamesOf(tables[r.by])
    <3>1. r.by \in Sources
      BY <2>1 DEF TypeOK, Relation
    <3>2. CASE Known(r.by, r) /\ at[r.by] = "mounted"
      <4>1. \E t \in tables[r.by] : r.name = t.name
        BY <3>2 DEF Known, Of
      <4> QED BY <2>1, <3>1, <3>2, <4>1 DEF Listed, NamesOf
    <3>3. CASE Known(r.by, r) /\ at[r.by] # "mounted"
      BY <3>3 DEF Known, Holding, InFlight, Scanning
    <3> QED BY <2>1, <3>1, <3>2, <3>3 DEF Local, Owned, Leftover, Spare
  <2>3. ASSUME NEW f \in registered
        PROVE  Reads(relations, f) \/ (at[f[1]] = "creating" /\ file[f[1]] = f[2])
    <3>1. PICK s \in Sources, g \in 1..Files : f = <<s, g>>
      BY <2>1 DEF TypeOK
    <3> QED BY <2>1, <3>1 DEF Local, NoFileLeft
  <2>4. ASSUME NEW s \in sessions
        PROVE  InFlight(s) \/ at[s] = "remounted" \/ Partial(s) \/ s \in ToSet(sources)
    <3>1. s \in Sources /\ kind[s] = "iceberg" /\ at[s] \notin Fresh \cup {"removed"}
      BY <2>1 DEF TypeOK, SessionsInv
    <3>2. at[s] \in Points
      BY <2>1, <3>1 DEF TypeOK, Points
    <3> QED BY <2>1, <3>1, <3>2 DEF Points, Fresh, Listed, InFlight, Vending, Scanning, Partial
  <2> QED BY <2>2, <2>3, <2>4 DEF NothingLeft, SessionsInv
<1> QED BY <1>1, MountsCorrect, PTL

LEMMA SecretsCorrect ==
  ASSUME Apart
  PROVE  Spec => [](SessionsInv /\ SecretsInv)
<1>1. Init => SecretsInv
  BY DEF Init, SecretsInv
<1>2. MInv /\ SessionsInv /\ SecretsInv /\ [Next]_vars => SecretsInv'
  BY NextSessions
<1> QED BY <1>1, <1>2, MountsCorrect, PTL DEF Spec

(***************************************************************************)
(* Every source in the workbook can be queried, whatever is mounted beside *)
(* it, fails, is removed or restored; its credentials are there when no    *)
(* two catalogs vend for one provider.                                     *)
(***************************************************************************)
THEOREM SourcesStayIntact ==
  ASSUME Apart, \A s \in Sources : Alone(s)
  PROVE  Spec => []SourceIntact
<1>1. MInv /\ SecretsInv => SourceIntact
  <2> SUFFICES ASSUME MInv, SecretsInv, NEW s \in Sources, at[s] = "mounted", phase # "dropped"
               PROVE  /\ tables[s] # {}
                      /\ \A t \in tables[s] :
                            /\ [name |-> t.name, by |-> s, origin |-> t.origin] \in relations
                            /\ HasFile(s) => <<s, t.origin>> \in registered
                      /\ kind[s] = "folder" => s \in handles
                      /\ s \in sessions => s \in secrets
    BY DEF SourceIntact
  <2>1. Shape(s) /\ Backed(s)
    BY DEF MInv, Local
  <2>2. Alone(s)
    OBVIOUS
  <2> QED BY <2>1, <2>2 DEF Shape, Backed, Has, Of, Holding, SecretsInv
<1> QED BY <1>1, MountsCorrect, SecretsCorrect, PTL

(***************************************************************************)
(* What the cleanup after a failed change of credentials can take from     *)
(* others, however the catalogs share their providers: the secret of a     *)
(* source goes with its session, or another catalog vends for the same     *)
(* provider.  The second case is the one the comment of                    *)
(* DuckDbVendedCredentialTarget leaves out (Mounts_one_provider); a catalog*)
(* that has its provider to itself is safe from all others.                *)
(***************************************************************************)
THEOREM CleanupStaysInProvider ==
  ASSUME Apart
  PROVE  Spec => [][\A s \in secrets \ secrets' :
                      s \in sessions \ sessions' \/ \E q \in Sources \ {s} : s \in Named(q)]_vars
<1>1. SessionsInv /\ SecretsInv /\ SessionsInv' /\ SecretsInv' =>
        \A s \in secrets \ secrets' :
          s \in sessions \ sessions' \/ \E q \in Sources \ {s} : s \in Named(q)
  BY DEF SessionsInv, SecretsInv, Alone
<1> QED BY <1>1, SecretsCorrect, PTL
=============================================================================
