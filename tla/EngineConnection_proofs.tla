------------------------ MODULE EngineConnection_proofs ------------------------
(***************************************************************************)
(* Proofs about EngineConnection, for any number of cell runs, of swaps    *)
(* and of relations they swap: the type invariant, what is true of the     *)
(* connection and its transaction when nobody recovers or swaps, and that  *)
(* swaps are atomic when they replace something.                           *)
(***************************************************************************)
EXTENDS EngineConnection, SequenceTheorems, TLAPS

(* One recovery at a time; until it installs its replacement the engine's  *)
(* connection stays the closed one.                                        *)
RecoveryInv ==
    /\ \A r \in Runs : recovery = r <=> pc[r] \in {"closing", "connecting"}
    /\ \A r \in Runs : pc[r] = "closing" => conn = on[r] /\ open = {}
    /\ \A r \in Runs : pc[r] = "connecting" =>
           /\ conn = on[r] /\ open = {fresh[r]} /\ fresh[r] # conn
           /\ \A w \in Swaps : on[w] # fresh[r]
    /\ recovery = None => open \subseteq {conn} /\ Usable

(* No connection number is used twice. *)
Used ==
    /\ conn <= used /\ \A c \in open : c <= used
    /\ \A w \in Swaps : on[w] \in (1..used) \cup {None}

Midway(w) == pc[w] \in {"drop", "create", "commit", "rollback"}

(* A transaction is a swap's, on the engine's open connection. *)
TxnInv ==
    \A c \in ConnIds : txn[c].on =>
        c = conn /\ c \in open /\ \E w \in Swaps : Midway(w)

Inv ==
    /\ TypeOK
    /\ RecoveryInv
    /\ Used
    /\ TxnInv

-----------------------------------------------------------------------------
(* What it takes for swaps to be atomic.                                   *)

View == txn[conn].view

First == Targets[1]

(* A swap drops its first replacement before any removal: whoever reads    *)
(* the types and finds a removal gone finds that replacement changed.      *)
Telling(view) ==
    \A i \in DOMAIN Targets :
        i > Len(Replacements) /\ view[Targets[i]] = "none" => view[First] # "view"

(* How far a swap has come, as its transaction sees it. *)
Progress(w) ==
    /\ pc[w] \in {"drop", "create"} => pos[w] \in DOMAIN Targets
    /\ pc[w] = "create" => pos[w] <= Len(Replacements)
    /\ pc[w] = "commit" => pos[w] = Len(Targets) + 1
    /\ \A i \in DOMAIN Targets :
         /\ i < pos[w] =>
              View[Targets[i]] = IF i <= Len(Replacements) THEN "table" ELSE "none"
         /\ i > pos[w] \/ (i = pos[w] /\ pc[w] = "drop") =>
              View[Targets[i]] = committed[Targets[i]]
    /\ pos[w] > 1 => kinds[w][First] = committed[First]
    /\ pc[w] = "create" /\ pos[w] = 1 =>
         \/ kinds[w][First] = committed[First]
         \/ kinds[w][First] = "none" /\ View[First] = committed[First]

SwapInv ==
    /\ AllOrNothing
    /\ \A w \in Swaps : Midway(w) => on[w] = conn
    /\ \A v, w \in Swaps : Midway(v) /\ Midway(w) => v = w
    /\ \A w \in Swaps : Midway(w) /\ conn \in open => txn[conn].on
    /\ \A w \in Swaps : Telling(kinds[w])
    /\ txn[conn].on => Telling(View)
    /\ \A w \in Swaps : txn[conn].on /\ pc[w] \in {"drop", "create", "commit"} => Progress(w)

(* A transaction belongs to no swap that has not begun or is over. *)
Owned == \A w \in Swaps :
    /\ pc[w] \in {"idle", "begin"} => on[w] = None
    /\ Midway(w) => on[w] # None

AtomicInv == Inv /\ Owned /\ (Undisturbed => SwapInv)

-----------------------------------------------------------------------------
(* Statements.                                                             *)

LEMMA DefineEffect ==
    ASSUME TypeOK, NEW rel, NEW kind \in Kinds, Define(rel, kind)
    PROVE  /\ committed' \in [Rels -> Kinds]
           /\ txn' \in [ConnIds -> [on: BOOLEAN, failed: BOOLEAN, view: [Rels -> Kinds]]]
           /\ \A c \in ConnIds : txn'[c].on = txn[c].on
           /\ txn[conn].on => /\ committed' = committed
                              /\ txn'[conn].view = [View EXCEPT ![rel] = kind]
           /\ ~txn[conn].on => /\ txn' = txn
                               /\ committed' = [committed EXCEPT ![rel] = kind]
<1>1. txn[conn] \in [on: BOOLEAN, failed: BOOLEAN, view: [Rels -> Kinds]]
  BY DEF TypeOK
<1>2. CASE txn[conn].on
  <2>1. txn' = [txn EXCEPT ![conn].view[rel] = kind] /\ committed' = committed
    BY <1>2 DEF Define
  <2>2. [View EXCEPT ![rel] = kind] \in [Rels -> Kinds]
    BY <1>1 DEF View
  <2>3. txn'[conn] = [txn[conn] EXCEPT !.view = [View EXCEPT ![rel] = kind]]
    BY <2>1 DEF TypeOK, View
  <2>4. \A c \in ConnIds : c # conn => txn'[c] = txn[c]
    BY <2>1 DEF TypeOK
  <2>5. txn'[conn] \in [on: BOOLEAN, failed: BOOLEAN, view: [Rels -> Kinds]]
    BY <1>1, <2>2, <2>3
  <2>6. txn'[conn].on = txn[conn].on /\ txn'[conn].view = [View EXCEPT ![rel] = kind]
    BY <1>1, <2>3
  <2> QED BY <1>2, <2>1, <2>4, <2>5, <2>6 DEF TypeOK
<1>3. CASE ~txn[conn].on
  <2>1. committed' = [committed EXCEPT ![rel] = kind] /\ txn' = txn
    BY <1>3 DEF Define
  <2> QED BY <1>3, <2>1 DEF TypeOK
<1> QED BY <1>2, <1>3

LEMMA RejectedEffect ==
    ASSUME TypeOK, Rejected
    PROVE  /\ committed' = committed
           /\ txn' \in [ConnIds -> [on: BOOLEAN, failed: BOOLEAN, view: [Rels -> Kinds]]]
           /\ \A c \in ConnIds : txn'[c].on = txn[c].on /\ txn'[c].view = txn[c].view
<1>1. txn[conn] \in [on: BOOLEAN, failed: BOOLEAN, view: [Rels -> Kinds]]
  BY DEF TypeOK
<1>2. CASE txn' = [txn EXCEPT ![conn].failed = TRUE]
  <2>1. txn'[conn] = [txn[conn] EXCEPT !.failed = TRUE]
    BY <1>2 DEF TypeOK
  <2>2. /\ txn'[conn] \in [on: BOOLEAN, failed: BOOLEAN, view: [Rels -> Kinds]]
        /\ txn'[conn].on = txn[conn].on /\ txn'[conn].view = txn[conn].view
    BY <1>1, <2>1
  <2> QED BY <1>2, <2>2 DEF TypeOK, Rejected
<1>3. CASE txn' = txn
  BY <1>3 DEF TypeOK, Rejected
<1> QED BY <1>2, <1>3 DEF Rejected

(* The transaction of a connection that is closed, committed or rolled     *)
(* back.                                                                   *)
LEMMA EndedTxn ==
    ASSUME TypeOK, txn' = [txn EXCEPT ![conn] = NoTxn]
    PROVE  /\ txn' \in [ConnIds -> [on: BOOLEAN, failed: BOOLEAN, view: [Rels -> Kinds]]]
           /\ ~txn'[conn].on
           /\ \A c \in ConnIds : c # conn => txn'[c] = txn[c]
<1>1. NoTxn \in [on: BOOLEAN, failed: BOOLEAN, view: [Rels -> Kinds]] /\ ~NoTxn.on
  BY DEF NoTxn, Kinds
<1> QED BY <1>1 DEF TypeOK

LEMMA TargetFacts ==
    /\ Len(Targets) \in Nat /\ DOMAIN Targets = 1..Len(Targets)
    /\ Len(Replacements) \in Nat /\ Len(Removals) \in Nat
    /\ Len(Targets) = Len(Replacements) + Len(Removals)
    /\ \A i \in DOMAIN Targets : Targets[i] \in Live
    /\ Live \subseteq Rels /\ Runs \subseteq Rels
    /\ \A i \in DOMAIN Targets : i > Len(Replacements) <=> Targets[i] \in Dropped
<1>1. Replacements \in Seq(Live) /\ Removals \in Seq(Live)
  BY TargetsAssumption
<1>2. /\ Targets \in Seq(Live) /\ Len(Targets) = Len(Replacements) + Len(Removals)
      /\ \A i \in 1..Len(Targets) :
           Targets[i] = IF i <= Len(Replacements) THEN Replacements[i]
                                                  ELSE Removals[i - Len(Replacements)]
  BY <1>1, ConcatProperties DEF Targets
<1>3. /\ Len(Targets) \in Nat /\ DOMAIN Targets = 1..Len(Targets)
      /\ Len(Replacements) \in Nat /\ Len(Removals) \in Nat
      /\ DOMAIN Removals = 1..Len(Removals)
  BY <1>1, <1>2
<1>4. ASSUME NEW i \in DOMAIN Targets
      PROVE  i > Len(Replacements) <=> Targets[i] \in Dropped
  <2>1. CASE i > Len(Replacements)
    <3>1. i - Len(Replacements) \in DOMAIN Removals
      BY <1>2, <1>3, <2>1
    <3> QED BY <1>2, <1>3, <2>1, <3>1 DEF Dropped
  <2>2. CASE i <= Len(Replacements)
    <3>1. ASSUME Targets[i] \in Dropped
          PROVE  FALSE
      <4>1. PICK j \in DOMAIN Removals : Targets[i] = Removals[j]
        BY <3>1 DEF Dropped
      <4>2. j + Len(Replacements) \in DOMAIN Targets /\ j > 0
        BY <1>2, <1>3, <4>1
      <4>3. Targets[j + Len(Replacements)] = Removals[j]
        BY <1>2, <1>3, <4>1, <4>2
      <4>4. i = j + Len(Replacements)
        BY <4>1, <4>2, <4>3, TargetsAssumption
      <4> QED BY <1>3, <2>2, <4>2, <4>4
    <3> QED BY <1>3, <2>2, <3>1
  <2> QED BY <1>3, <2>1, <2>2
<1> QED BY <1>2, <1>3, <1>4 DEF Live, Rels

LEMMA RunsAreNoSwaps == \A r \in Runs, w \in Swaps : r # w
BY ActorsAssumption

-----------------------------------------------------------------------------
(* The type invariant.                                                     *)

LEMMA ConstantFacts ==
    /\ MaxConns \in Nat \ {0} /\ 1 \in ConnIds
    /\ None \notin ConnIds /\ None \notin Runs
    /\ ConnIds \subseteq Nat
BY NoneAssumption, ConnsAssumption DEF ConnIds

LEMMA GotoType ==
    ASSUME TypeOK, NEW a \in Runs \cup Swaps, NEW step \in RunSteps \cup SwapSteps,
           Goto(a, step)
    PROVE  pc' \in [Runs \cup Swaps -> RunSteps \cup SwapSteps]
BY DEF TypeOK, Goto

LEMMA NextTargetType ==
    ASSUME TypeOK, NEW w \in Swaps, NextTarget(w)
    PROVE  /\ pc' \in [Runs \cup Swaps -> RunSteps \cup SwapSteps]
           /\ pos' \in [Swaps -> Nat]
<1>1. pos' \in [Swaps -> Nat]
  BY DEF NextTarget, TypeOK
<1>2. Goto(w, "commit") \/ Goto(w, "drop")
  BY DEF NextTarget
<1>3. {"commit", "drop"} \subseteq RunSteps \cup SwapSteps
  BY DEF RunSteps, SwapSteps
<1> QED BY <1>1, <1>2, <1>3, GotoType

LEMMA Typing ==
    ASSUME Inv, [Next]_vars
    PROVE  TypeOK'
<1> USE DEF engine, duckdb, runVars, swapVars
<1>0. TypeOK
  BY DEF Inv
<1>1. ASSUME NEW r \in Runs, StartRun(r)
      PROVE  TypeOK'
  <2>1. r \in Rels /\ "view" \in Kinds
    BY DEF Rels, Kinds
  <2>2. /\ committed' \in [Rels -> Kinds]
        /\ txn' \in [ConnIds -> [on: BOOLEAN, failed: BOOLEAN, view: [Rels -> Kinds]]]
    BY <1>0, <1>1, <2>1, DefineEffect, RejectedEffect DEF StartRun, TypeOK
  <2>3. pc' \in [Runs \cup Swaps -> RunSteps \cup SwapSteps]
    BY <1>0, <1>1, GotoType DEF StartRun, RunSteps
  <2> QED BY <1>0, <1>1, <2>2, <2>3 DEF StartRun, TypeOK
<1>2. ASSUME NEW r \in Runs,
             \/ Abort(r) \/ SendQuery(r) \/ Drain(r) \/ QueryEnds(r)
             \/ Interrupted(r) \/ AwaitRecovery(r) \/ Recovered(r)
      PROVE  TypeOK'
  <2>1. /\ aborted' \in [Runs -> BOOLEAN]
        /\ on' \in [Runs \cup Swaps -> ConnIds \cup {None}]
        /\ waits' \in [Runs -> Runs \cup {None}]
    BY <1>0, <1>2
       DEF TypeOK, Abort, SendQuery, Drain, QueryEnds, Interrupted, AwaitRecovery, Recovered
  <2>2. pc' \in [Runs \cup Swaps -> RunSteps \cup SwapSteps]
    <3>1. \/ pc' = pc
          \/ \E step \in {"ended", "stream", "requery", "cancelled", "waiting"} : Goto(r, step)
      BY <1>2 DEF Abort, SendQuery, Drain, QueryEnds, Interrupted, AwaitRecovery, Recovered
    <3>2. {"ended", "stream", "requery", "cancelled", "waiting"} \subseteq RunSteps
      BY DEF RunSteps
    <3> QED BY <1>0, <3>1, <3>2, GotoType DEF TypeOK
  <2> QED BY <1>0, <1>2, <2>1, <2>2
          DEF TypeOK, Abort, SendQuery, Drain, QueryEnds, Interrupted, AwaitRecovery,
              Recovered
<1>3. ASSUME NEW r \in Runs, CloseInterrupted(r)
      PROVE  TypeOK'
  <2>1. txn' \in [ConnIds -> [on: BOOLEAN, failed: BOOLEAN, view: [Rels -> Kinds]]]
    BY <1>0, <1>3, EndedTxn DEF CloseInterrupted
  <2>2. pc' \in [Runs \cup Swaps -> RunSteps \cup SwapSteps]
    BY <1>0, <1>3, GotoType DEF CloseInterrupted, RunSteps
  <2> QED BY <1>0, <1>3, <2>1, <2>2 DEF CloseInterrupted, TypeOK
<1>4. ASSUME NEW r \in Runs, ConnectFails(r)
      PROVE  TypeOK'
  <2>1. pc' \in [Runs \cup Swaps -> RunSteps \cup SwapSteps]
    BY <1>0, <1>4, GotoType DEF ConnectFails, RunSteps
  <2> QED BY <1>0, <1>4, <2>1 DEF ConnectFails, TypeOK
<1>5. ASSUME NEW r \in Runs, Connect(r)
      PROVE  TypeOK'
  <2>1. pc' \in [Runs \cup Swaps -> RunSteps \cup SwapSteps]
    BY <1>0, <1>5, GotoType DEF Connect, RunSteps
  <2>2. used + 1 \in ConnIds
    BY <1>0, <1>5, ConstantFacts DEF Connect, TypeOK, ConnIds
  <2>3. fresh' \in [Runs -> ConnIds \cup {None}] /\ open' \subseteq ConnIds
    BY <1>0, <1>5, <2>2 DEF Connect, TypeOK
  <2> QED BY <1>0, <1>5, <2>1, <2>2, <2>3 DEF Connect, TypeOK
<1>6. ASSUME NEW r \in Runs, Install(r)
      PROVE  TypeOK'
  <2>1. pc' \in [Runs \cup Swaps -> RunSteps \cup SwapSteps]
    BY <1>0, <1>6, GotoType DEF Install, RunSteps
  <2>2. open = {fresh[r]} /\ open \subseteq ConnIds
    BY <1>0, <1>6 DEF Install, Inv, RecoveryInv, TypeOK
  <2>3. conn' \in ConnIds /\ open' \subseteq ConnIds
    BY <1>0, <1>6, <2>2 DEF Install, TypeOK
  <2> QED BY <1>0, <1>6, <2>1, <2>3 DEF Install, TypeOK
<1>7. ASSUME NEW w \in Swaps, ReadTypes(w)
      PROVE  TypeOK'
  <2>1. pc' \in [Runs \cup Swaps -> RunSteps \cup SwapSteps]
    BY <1>0, <1>7, GotoType DEF ReadTypes, SwapSteps
  <2>2. \A t \in Live : Visible(t) \in Kinds
    BY <1>0, TargetFacts DEF Visible, TypeOK
  <2>3. kinds' \in [Swaps -> [Live -> Kinds]]
    <3>1. [t \in Live |-> Visible(t)] \in [Live -> Kinds]
      BY <2>2
    <3>2. kinds' = kinds \/ kinds' = [kinds EXCEPT ![w] = [t \in Live |-> Visible(t)]]
      BY <1>7 DEF ReadTypes
    <3> QED BY <1>0, <3>1, <3>2 DEF TypeOK
  <2>4. /\ committed' \in [Rels -> Kinds]
        /\ txn' \in [ConnIds -> [on: BOOLEAN, failed: BOOLEAN, view: [Rels -> Kinds]]]
    BY <1>0, <1>7, RejectedEffect DEF ReadTypes, TypeOK
  <2> QED BY <1>0, <1>7, <2>1, <2>3, <2>4 DEF ReadTypes, TypeOK
<1>8. ASSUME NEW w \in Swaps, Begin(w)
      PROVE  TypeOK'
  <2>1. pc' \in [Runs \cup Swaps -> RunSteps \cup SwapSteps]
    BY <1>0, <1>8, GotoType DEF Begin, SwapSteps
  <2>2. [on |-> TRUE, failed |-> FALSE, view |-> committed]
          \in [on: BOOLEAN, failed: BOOLEAN, view: [Rels -> Kinds]]
    BY <1>0 DEF TypeOK
  <2>3. /\ committed' \in [Rels -> Kinds]
        /\ txn' \in [ConnIds -> [on: BOOLEAN, failed: BOOLEAN, view: [Rels -> Kinds]]]
    <3>1. CASE Rejected
      BY <1>0, <3>1, RejectedEffect DEF TypeOK
    <3>2. CASE ~Rejected
      BY <1>0, <1>8, <2>2, <3>2 DEF Begin, TypeOK
    <3> QED BY <3>1, <3>2
  <2>4. /\ on' = on \/ on' = [on EXCEPT ![w] = conn]
        /\ pos' = pos \/ pos' = [pos EXCEPT ![w] = 1]
    BY <1>8 DEF Begin
  <2>5. /\ on' \in [Runs \cup Swaps -> ConnIds \cup {None}]
        /\ pos' \in [Swaps -> Nat]
    BY SMTT(30), <1>0, <2>4 DEF TypeOK
  <2> QED BY <1>0, <1>8, <2>1, <2>3, <2>5 DEF Begin, TypeOK
<1>9. ASSUME NEW w \in Swaps, DropTarget(w)
      PROVE  TypeOK'
  <2>1. "none" \in Kinds
    BY DEF Kinds
  <2>2. /\ committed' \in [Rels -> Kinds]
        /\ txn' \in [ConnIds -> [on: BOOLEAN, failed: BOOLEAN, view: [Rels -> Kinds]]]
    <3>1. CASE Define(Target(w), "none")
      BY <1>0, <2>1, <3>1, DefineEffect
    <3>2. CASE Rejected
      BY <1>0, <3>2, RejectedEffect DEF TypeOK
    <3>3. CASE UNCHANGED <<txn, committed>>
      BY <1>0, <3>3 DEF TypeOK
    <3> QED BY <1>9, <3>1, <3>2, <3>3 DEF DropTarget
  <2>3. /\ pc' \in [Runs \cup Swaps -> RunSteps \cup SwapSteps]
        /\ pos' \in [Swaps -> Nat]
    <3>1. CASE NextTarget(w)
      BY <1>0, <3>1, NextTargetType
    <3>2. CASE (Goto(w, "create") \/ Goto(w, "rollback")) /\ UNCHANGED pos
      BY <1>0, <3>2, GotoType DEF SwapSteps, TypeOK
    <3> QED BY <1>9, <3>1, <3>2 DEF DropTarget
  <2> QED BY <1>0, <1>9, <2>2, <2>3 DEF DropTarget, TypeOK
<1>10. ASSUME NEW w \in Swaps, CreateTarget(w)
       PROVE  TypeOK'
  <2>1. "table" \in Kinds
    BY DEF Kinds
  <2>2. /\ committed' \in [Rels -> Kinds]
        /\ txn' \in [ConnIds -> [on: BOOLEAN, failed: BOOLEAN, view: [Rels -> Kinds]]]
    <3>1. CASE Define(Target(w), "table")
      BY <1>0, <2>1, <3>1, DefineEffect
    <3>2. CASE Rejected
      BY <1>0, <3>2, RejectedEffect DEF TypeOK
    <3> QED BY <1>10, <3>1, <3>2 DEF CreateTarget
  <2>3. /\ pc' \in [Runs \cup Swaps -> RunSteps \cup SwapSteps]
        /\ pos' \in [Swaps -> Nat]
    <3>1. CASE NextTarget(w)
      BY <1>0, <3>1, NextTargetType
    <3>2. CASE Goto(w, "rollback") /\ UNCHANGED pos
      BY <1>0, <3>2, GotoType DEF SwapSteps, TypeOK
    <3> QED BY <1>10, <3>1, <3>2 DEF CreateTarget
  <2> QED BY <1>0, <1>10, <2>2, <2>3 DEF CreateTarget, TypeOK
<1>11. ASSUME NEW w \in Swaps, Commit(w)
       PROVE  TypeOK'
  <2>1. /\ committed' \in [Rels -> Kinds]
        /\ txn' \in [ConnIds -> [on: BOOLEAN, failed: BOOLEAN, view: [Rels -> Kinds]]]
    <3>1. CASE Rejected
      BY <1>0, <3>1, RejectedEffect DEF TypeOK
    <3>2. CASE committed' = txn[conn].view /\ txn' = [txn EXCEPT ![conn] = NoTxn]
      BY <1>0, <3>2, EndedTxn DEF TypeOK
    <3> QED BY <1>11, <3>1, <3>2 DEF Commit
  <2>2. pc' \in [Runs \cup Swaps -> RunSteps \cup SwapSteps]
    BY <1>0, <1>11, GotoType DEF Commit, SwapSteps
  <2>3. on' \in [Runs \cup Swaps -> ConnIds \cup {None}]
    BY <1>0, <1>11 DEF Commit, EndsTxn, TypeOK
  <2> QED BY <1>0, <1>11, <2>1, <2>2, <2>3 DEF Commit, TypeOK
<1>12. ASSUME NEW w \in Swaps, Rollback(w)
       PROVE  TypeOK'
  <2>1. txn' \in [ConnIds -> [on: BOOLEAN, failed: BOOLEAN, view: [Rels -> Kinds]]]
    BY <1>0, <1>12, EndedTxn DEF Rollback, TypeOK
  <2>2. pc' \in [Runs \cup Swaps -> RunSteps \cup SwapSteps]
    BY <1>0, <1>12, GotoType DEF Rollback, SwapSteps
  <2>3. on' \in [Runs \cup Swaps -> ConnIds \cup {None}]
    BY <1>0, <1>12 DEF Rollback, EndsTxn, TypeOK
  <2> QED BY <1>0, <1>12, <2>1, <2>2, <2>3 DEF Rollback, TypeOK
<1>13. CASE UNCHANGED vars
  BY <1>0, <1>13 DEF vars, TypeOK
<1> QED BY <1>1, <1>2, <1>3, <1>4, <1>5, <1>6, <1>7, <1>8, <1>9, <1>10, <1>11, <1>12, <1>13
        DEF Next, RunStep, SwapStep

LEMMA InitInv == Init => Inv
<1> SUFFICES ASSUME Init
             PROVE  Inv
  OBVIOUS
<1>1. TypeOK
  <2>1. NoTxn \in [on: BOOLEAN, failed: BOOLEAN, view: [Rels -> Kinds]]
    BY DEF NoTxn, Kinds
  <2>2. {"view", "none"} \subseteq Kinds /\ "idle" \in RunSteps
    BY DEF Kinds, RunSteps
  <2> QED BY <2>1, <2>2, ConstantFacts DEF Init, TypeOK
<1>2. RecoveryInv
  BY ConstantFacts DEF Init, RecoveryInv, Usable
<1>3. Used
  BY ConstantFacts DEF Init, Used
<1>4. TxnInv
  BY DEF Init, TxnInv, NoTxn
<1> QED BY <1>1, <1>2, <1>3, <1>4 DEF Inv

-----------------------------------------------------------------------------
(* The recovery of the connection.                                         *)

Swap(w) == ReadTypes(w) \/ SwapStep(w)

(* A swap posts statements: it opens, closes and installs no connection.   *)
LEMMA SwapFrame ==
    ASSUME TypeOK, NEW w \in Swaps, Swap(w)
    PROVE  /\ UNCHANGED <<conn, recovery, open, used, fresh, aborted, waits>>
           /\ \A a \in Runs \cup Swaps : a # w => pc'[a] = pc[a] /\ on'[a] = on[a]
           /\ \A v \in Swaps : v # w => pos'[v] = pos[v] /\ kinds'[v] = kinds[v]
           /\ on'[w] \in {on[w], conn, None}
<1> USE DEF engine, duckdb, runVars, swapVars, TypeOK, Goto
<1>1. CASE ReadTypes(w)
  BY <1>1 DEF ReadTypes
<1>2. CASE Begin(w)
  BY <1>2 DEF Begin
<1>3. CASE DropTarget(w)
  BY <1>3 DEF DropTarget, NextTarget
<1>4. CASE CreateTarget(w)
  BY <1>4 DEF CreateTarget, NextTarget
<1>5. CASE Commit(w)
  BY <1>5 DEF Commit, EndsTxn
<1>6. CASE Rollback(w)
  BY <1>6 DEF Rollback, EndsTxn
<1> QED BY <1>1, <1>2, <1>3, <1>4, <1>5, <1>6 DEF Swap, SwapStep

(* What a run does outside its recovery.                                   *)
Working(r) ==
    \/ StartRun(r) \/ Abort(r) \/ SendQuery(r) \/ Drain(r) \/ QueryEnds(r)
    \/ Interrupted(r) \/ AwaitRecovery(r) \/ Recovered(r)

LEMMA WorkFrame ==
    ASSUME TypeOK, NEW r \in Runs, Working(r)
    PROVE  /\ UNCHANGED <<conn, recovery, open, used, fresh, kinds, pos>>
           /\ \A a \in Runs \cup Swaps : a # r => pc'[a] = pc[a] /\ on'[a] = on[a]
           /\ pc[r] \notin {"closing", "connecting", "lost"}
           /\ pc'[r] \notin {"closing", "connecting", "lost"}
<1> USE DEF engine, duckdb, runVars, swapVars, TypeOK, Goto
<1>1. CASE StartRun(r)
  BY <1>1 DEF StartRun
<1>2. CASE Abort(r)
  BY <1>2 DEF Abort
<1>3. CASE SendQuery(r)
  BY <1>3 DEF SendQuery
<1>4. CASE Drain(r) \/ QueryEnds(r) \/ Interrupted(r)
  BY <1>4 DEF Drain, QueryEnds, Interrupted
<1>5. CASE AwaitRecovery(r) \/ Recovered(r)
  BY <1>5 DEF AwaitRecovery, Recovered
<1> QED BY <1>1, <1>2, <1>3, <1>4, <1>5 DEF Working

LEMMA NextCases ==
    ASSUME Next
    PROVE  \/ \E r \in Runs : \/ Working(r) \/ CloseInterrupted(r)
                              \/ ConnectFails(r) \/ Connect(r) \/ Install(r)
           \/ \E w \in Swaps : Swap(w)
BY DEF Next, RunStep, Working, Swap

LEMMA RecoveryKept ==
    ASSUME Inv, [Next]_vars
    PROVE  RecoveryInv' /\ Used'
<1>0. TypeOK /\ RecoveryInv /\ Used
  BY DEF Inv
<1> USE ConstantFacts
<1>1. ASSUME NEW w \in Swaps, Swap(w)
      PROVE  RecoveryInv' /\ Used'
  <2>1. /\ UNCHANGED <<conn, recovery, open, used, fresh>>
        /\ \A r \in Runs : pc'[r] = pc[r] /\ on'[r] = on[r]
        /\ \A v \in Swaps : on'[v] \in {on[v], conn, None}
    BY <1>0, <1>1, SwapFrame, RunsAreNoSwaps
  <2>2. RecoveryInv'
    <3>1. \A r \in Runs : pc[r] = "connecting" => \A v \in Swaps : on'[v] # fresh[r]
      <4> SUFFICES ASSUME NEW r \in Runs, pc[r] = "connecting", NEW v \in Swaps
                   PROVE  on'[v] # fresh[r]
        OBVIOUS
      <4>1. fresh[r] # conn /\ on[v] # fresh[r] /\ fresh[r] \in ConnIds
        BY <1>0 DEF RecoveryInv, TypeOK
      <4> QED BY <2>1, <4>1
    <3>2. Usable' <=> Usable
      BY <2>1 DEF Usable
    <3> QED BY <1>0, <2>1, <3>1, <3>2 DEF RecoveryInv
  <2>3. Used'
    BY <1>0, <2>1 DEF Used, TypeOK, ConnIds
  <2> QED BY <2>2, <2>3
<1>2. ASSUME NEW r \in Runs, Working(r)
      PROVE  RecoveryInv' /\ Used'
  <2>1. /\ UNCHANGED <<conn, recovery, open, used, fresh>>
        /\ \A q \in Runs : q # r => pc'[q] = pc[q] /\ on'[q] = on[q]
        /\ \A v \in Swaps : on'[v] = on[v]
        /\ pc[r] \notin {"closing", "connecting", "lost"}
        /\ pc'[r] \notin {"closing", "connecting", "lost"}
    BY <1>0, <1>2, WorkFrame, RunsAreNoSwaps
  <2>2. Usable' <=> Usable
    BY <2>1 DEF Usable
  <2>3. RecoveryInv'
    BY <1>0, <2>1, <2>2 DEF RecoveryInv
  <2>4. Used'
    BY <1>0, <2>1 DEF Used
  <2> QED BY <2>3, <2>4
<1>3. ASSUME NEW r \in Runs, CloseInterrupted(r)
      PROVE  RecoveryInv' /\ Used'
  <2>1. /\ recovery = None /\ conn = on[r] /\ recovery' = r /\ open' = open \ {conn}
        /\ UNCHANGED <<conn, used, fresh, on>>
        /\ pc' = [pc EXCEPT ![r] = "closing"]
    BY <1>3 DEF CloseInterrupted, runVars, Goto
  <2>2. open' = {}
    BY <1>0, <2>1 DEF RecoveryInv
  <2>3. \A q \in Runs : pc[q] \notin {"closing", "connecting"}
    BY <1>0, <2>1 DEF RecoveryInv
  <2>4. RecoveryInv'
    BY <1>0, <2>1, <2>2, <2>3 DEF RecoveryInv, TypeOK
  <2> QED BY <1>0, <2>1, <2>4 DEF Used
<1>4. ASSUME NEW r \in Runs, ConnectFails(r)
      PROVE  RecoveryInv' /\ Used'
  <2>1. /\ pc[r] = "closing" /\ recovery' = None
        /\ UNCHANGED <<conn, open, used, fresh, on>>
        /\ pc' = [pc EXCEPT ![r] = "lost"]
    BY <1>4 DEF ConnectFails, duckdb, runVars, Goto
  <2>2. recovery = r /\ open = {}
    BY <1>0, <2>1 DEF RecoveryInv
  <2>3. pc'[r] = "lost"
    BY <1>0, <2>1 DEF TypeOK
  <2>4. Usable'
    BY <2>3 DEF Usable
  <2>5. RecoveryInv'
    BY <1>0, <2>1, <2>2, <2>4 DEF RecoveryInv, TypeOK
  <2> QED BY <1>0, <2>1, <2>5 DEF Used
<1>5. ASSUME NEW r \in Runs, Connect(r)
      PROVE  RecoveryInv' /\ Used'
  <2>1. /\ pc[r] = "closing" /\ used' = used + 1 /\ open' = open \cup {used + 1}
        /\ fresh' = [fresh EXCEPT ![r] = used + 1]
        /\ UNCHANGED <<conn, recovery, on>>
        /\ pc' = [pc EXCEPT ![r] = "connecting"]
    BY <1>5 DEF Connect, engine, Goto
  <2>2. recovery = r /\ open = {} /\ conn = on[r]
    BY <1>0, <2>1 DEF RecoveryInv
  <2>3. /\ fresh'[r] = used + 1 /\ open' = {used + 1} /\ conn # used + 1
        /\ \A w \in Swaps : on[w] # used + 1
    <3>1. used \in Nat /\ conn \in Nat /\ None # used + 1
      BY <1>0, NoneAssumption DEF TypeOK, ConnIds
    <3>2. \A w \in Swaps : on[w] # used + 1
      BY <1>0, <3>1 DEF Used
    <3>3. conn # used + 1
      BY <1>0, <3>1 DEF Used
    <3> QED BY <1>0, <2>1, <2>2, <3>2, <3>3 DEF TypeOK
  <2>4. RecoveryInv'
    BY <1>0, <2>1, <2>2, <2>3 DEF RecoveryInv, TypeOK
  <2>5. Used'
    BY <1>0, <2>1, <2>3 DEF Used, TypeOK, ConnIds
  <2> QED BY <2>4, <2>5
<1>6. ASSUME NEW r \in Runs, Install(r)
      PROVE  RecoveryInv' /\ Used'
  <2>1. pc[r] = "connecting" /\ pc' = [pc EXCEPT ![r] = "ended"]
    BY <1>6 DEF Install, Goto
  <2>2. /\ recovery = r /\ open = {fresh[r]} /\ conn = on[r]
        /\ \A q \in Runs : q # r => pc[q] \notin {"closing", "connecting"}
    BY <1>0, <2>1 DEF RecoveryInv
  <2>3. conn' = fresh[r] /\ recovery' = None /\ UNCHANGED <<open, used, fresh, on>>
    BY <1>6, <2>2 DEF Install, runVars
  <2>4. Usable'
    BY <2>2, <2>3 DEF Usable
  <2>5. RecoveryInv'
    BY <1>0, <2>1, <2>2, <2>3, <2>4 DEF RecoveryInv, TypeOK
  <2> QED BY <1>0, <2>2, <2>3, <2>5 DEF Used
<1>7. CASE UNCHANGED vars
  BY <1>0, <1>7
     DEF vars, engine, duckdb, runVars, swapVars, RecoveryInv, Used, Usable
<1> QED BY <1>1, <1>2, <1>3, <1>4, <1>5, <1>6, <1>7, NextCases

-----------------------------------------------------------------------------
(* The transaction.                                                        *)

(* While the connection is being replaced there is no transaction.         *)
LEMMA NoTxnInRecovery ==
    ASSUME Inv, NEW r \in Runs, pc[r] \in {"closing", "connecting"}
    PROVE  \A c \in ConnIds : ~txn[c].on
<1>1. conn \notin open
  BY DEF Inv, RecoveryInv
<1> QED BY <1>1 DEF Inv, TxnInv

LEMMA TxnKept ==
    ASSUME Inv, [Next]_vars
    PROVE  TxnInv'
<1>0. TypeOK /\ RecoveryInv /\ TxnInv
  BY DEF Inv
<1> USE ConstantFacts
<1> DEFINE Kept == \A c \in ConnIds : txn'[c].on = txn[c].on
<1>1. ASSUME NEW r \in Runs, Working(r)
      PROVE  TxnInv'
  <2>1. Kept
    <3>1. CASE StartRun(r)
      <4>1. CASE Define(r, "view")
        BY <1>0, <4>1, DefineEffect DEF Kinds
      <4>2. CASE Rejected
        BY <1>0, <4>2, RejectedEffect
      <4> QED BY <3>1, <4>1, <4>2 DEF StartRun
    <3>2. CASE ~StartRun(r)
      BY <1>1, <3>2 DEF Working, Abort, SendQuery, Drain, QueryEnds, Interrupted,
                        AwaitRecovery, Recovered, duckdb
    <3> QED BY <3>1, <3>2
  <2>2. /\ conn' = conn /\ open' = open
        /\ \A w \in Swaps : Midway(w) => Midway(w)'
    BY <1>0, <1>1, WorkFrame, RunsAreNoSwaps DEF Midway
  <2> QED BY <1>0, <2>1, <2>2 DEF TxnInv
<1>2. ASSUME NEW r \in Runs, CloseInterrupted(r)
      PROVE  TxnInv'
  <2>1. \A c \in ConnIds : ~txn'[c].on
    BY <1>0, <1>2, EndedTxn DEF CloseInterrupted, TxnInv
  <2> QED BY <2>1 DEF TxnInv
<1>3. ASSUME NEW r \in Runs, ConnectFails(r) \/ Connect(r) \/ Install(r)
      PROVE  TxnInv'
  <2>1. txn' = txn /\ pc[r] \in {"closing", "connecting"}
    BY <1>3 DEF ConnectFails, Connect, Install, duckdb
  <2> QED BY <2>1, NoTxnInRecovery DEF TxnInv
<1>4. ASSUME NEW w \in Swaps, Swap(w)
      PROVE  TxnInv'
  <2>1. /\ conn' = conn /\ open' = open
        /\ \A v \in Swaps : v # w /\ Midway(v) => Midway(v)'
    BY <1>0, <1>4, SwapFrame DEF Midway
  <2>2. ASSUME Kept, Midway(w) => Midway(w)'
        PROVE  TxnInv'
    BY <1>0, <2>1, <2>2 DEF TxnInv
  <2>3. ASSUME \A c \in ConnIds : c # conn => txn'[c].on = txn[c].on, ~txn'[conn].on
        PROVE  TxnInv'
    BY <1>0, <2>3 DEF TxnInv
  <2>4. CASE ReadTypes(w)
    <3>1. Kept
      BY <1>0, <2>4, RejectedEffect DEF ReadTypes
    <3>2. ~Midway(w)
      BY <2>4 DEF ReadTypes, Midway
    <3> QED BY <2>2, <3>1, <3>2
  <2>5. CASE Begin(w)
    <3>1. ~Midway(w)
      BY <2>5 DEF Begin, Midway
    <3>2. CASE Rejected
      BY <1>0, <2>2, <3>1, <3>2, RejectedEffect
    <3>3. CASE ~Rejected
      <4>1. /\ conn \in open /\ pc'[w] = "drop"
            /\ \A c \in ConnIds : c # conn => txn'[c] = txn[c]
        BY <1>0, <2>5, <3>3 DEF Begin, Accepts, Goto, TypeOK
      <4> QED BY <1>0, <2>1, <4>1 DEF TxnInv, Midway
    <3> QED BY <3>2, <3>3
  <2>6. CASE DropTarget(w)
    <3>1. Kept
      <4>1. CASE Define(Target(w), "none")
        BY <1>0, <4>1, DefineEffect DEF Kinds
      <4>2. CASE Rejected \/ UNCHANGED <<txn, committed>>
        BY <1>0, <4>2, RejectedEffect
      <4> QED BY <2>6, <4>1, <4>2 DEF DropTarget
    <3>2. Midway(w)'
      BY <1>0, <2>6 DEF DropTarget, NextTarget, Goto, Midway, TypeOK
    <3> QED BY <2>2, <3>1, <3>2
  <2>7. CASE CreateTarget(w)
    <3>1. Kept
      <4>1. CASE Define(Target(w), "table")
        BY <1>0, <4>1, DefineEffect DEF Kinds
      <4>2. CASE Rejected
        BY <1>0, <4>2, RejectedEffect
      <4> QED BY <2>7, <4>1, <4>2 DEF CreateTarget
    <3>2. Midway(w)'
      BY <1>0, <2>7 DEF CreateTarget, NextTarget, Goto, Midway, TypeOK
    <3> QED BY <2>2, <3>1, <3>2
  <2>8. CASE Commit(w)
    <3>1. CASE Rejected /\ Goto(w, "rollback")
      <4>1. Kept
        BY <1>0, <3>1, RejectedEffect
      <4>2. Midway(w)'
        BY <1>0, <3>1 DEF Goto, Midway, TypeOK
      <4> QED BY <2>2, <4>1, <4>2
    <3>2. CASE txn' = [txn EXCEPT ![conn] = NoTxn]
      BY <1>0, <2>3, <3>2, EndedTxn
    <3> QED BY <2>8, <3>1, <3>2 DEF Commit
  <2>9. CASE Rollback(w)
    <3>1. CASE conn \in open
      BY <1>0, <2>3, <2>9, <3>1, EndedTxn DEF Rollback
    <3>2. CASE conn \notin open
      BY <1>0, <2>9, <3>2 DEF Rollback, TxnInv
    <3> QED BY <3>1, <3>2
  <2> QED BY <1>4, <2>4, <2>5, <2>6, <2>7, <2>8, <2>9 DEF Swap, SwapStep
<1>5. CASE UNCHANGED vars
  BY <1>0, <1>5 DEF vars, engine, duckdb, TxnInv, Midway
<1> QED BY <1>1, <1>2, <1>3, <1>4, <1>5, NextCases

-----------------------------------------------------------------------------
(* Theorems.                                                               *)

LEMMA InvKept == Inv /\ [Next]_vars => Inv'
BY Typing, RecoveryKept, TxnKept DEF Inv

LEMMA Invariance == Spec => []Inv
<1>1. Inv /\ [Next]_vars => Inv'
  BY InvKept
<1> QED BY InitInv, <1>1, PTL DEF Spec

(* The connection, the transactions and the runs and swaps keep their      *)
(* types: recoverCancelledConnection never installs something that is not  *)
(* a connection.                                                           *)
THEOREM TypeCorrect == Spec => []TypeOK
<1>1. Inv => TypeOK
  BY DEF Inv
<1> QED BY Invariance, <1>1, PTL

(* However many runs are cancelled, no connection but the engine's own is  *)
(* left open once recoverCancelledConnection is over.                      *)
THEOREM NoConnectionLeaks == Spec => []OneOpenConnection
<1>1. Inv => OneOpenConnection
  BY DEF Inv, RecoveryInv, OneOpenConnection
<1> QED BY Invariance, <1>1, PTL

(* A recovery hands back a connection that is open, unless db.connect()    *)
(* was rejected.                                                           *)
THEOREM RecoveredEngineUsable == Spec => []EngineUsable
<1>1. Inv => EngineUsable
  BY DEF Inv, RecoveryInv, EngineUsable
<1> QED BY Invariance, <1>1, PTL

(* Between swaps no transaction is open for others' statements to fall     *)
(* into, whatever was cancelled or rejected during them.                   *)
THEOREM TransactionsEnd == Spec => []NoTransactionLeft
<1>1. Inv => NoTransactionLeft
  <2> SUFFICES ASSUME Inv,
                      \A w \in Swaps : pc[w] \in {"idle", "begin", "done", "failed"},
                      NEW c \in open
               PROVE  ~txn[c].on
    BY DEF NoTransactionLeft
  <2>1. \A w \in Swaps : ~Midway(w)
    BY DEF Midway
  <2>2. c \in ConnIds
    BY DEF Inv, TypeOK
  <2> QED BY <2>1, <2>2 DEF Inv, TxnInv
<1> QED BY Invariance, <1>1, PTL

-----------------------------------------------------------------------------
(* Swaps are atomic.                                                       *)

LEMMA FirstFacts ==
    ASSUME Replacements # <<>>
    PROVE  /\ Len(Replacements) >= 1 /\ 1 \in DOMAIN Targets
           /\ First \in Live /\ First \notin Dropped
<1>1. Len(Replacements) # 0
  BY TargetsAssumption, EmptySeq
<1> QED BY <1>1, TargetFacts DEF First

LEMMA CommittedTells ==
    ASSUME Replacements # <<>>, AllOrNothing
    PROVE  Telling(committed) /\ committed[First] \in {"view", "table"}
<1>1. CASE [t \in Live |-> committed[t]] = Original
  <2>1. \A t \in Live : committed[t] = "view"
    BY <1>1 DEF Original
  <2> QED BY <2>1, FirstFacts, TargetFacts DEF Telling
<1>2. CASE [t \in Live |-> committed[t]] = Swapped
  <2>1. \A t \in Live : committed[t] = IF t \in Dropped THEN "none" ELSE "table"
    BY <1>2 DEF Swapped
  <2> QED BY <2>1, FirstFacts, TargetFacts DEF Telling
<1> QED BY <1>1, <1>2 DEF AllOrNothing

(* Nothing a swap of the past has achieved is undone. *)
LEMMA StillAllOrNothing ==
    ASSUME AllOrNothing, \A t \in Live : committed'[t] = committed[t],
           \A w \in Swaps : pc[w] = "done" => pc'[w] = "done"
    PROVE  AllOrNothing'
<1>1. [t \in Live |-> committed'[t]] = [t \in Live |-> committed[t]]
  OBVIOUS
<1> QED BY <1>1 DEF AllOrNothing, Original, Swapped

(* A step that is not a swap's. *)
LEMMA Bystander ==
    ASSUME SwapInv,
           \A t \in Live : committed'[t] = committed[t],
           \A w \in Swaps : pc'[w] = pc[w] /\ pos'[w] = pos[w] /\ kinds'[w] = kinds[w],
           \A w \in Swaps : Midway(w) => on'[w] = conn',
           \A w \in Swaps : Midway(w) /\ conn' \in open' => txn'[conn'].on,
           txn'[conn'].on => txn[conn].on /\ \A t \in Live : txn'[conn'].view[t] = View[t]
    PROVE  SwapInv'
<1>1. AllOrNothing'
  BY StillAllOrNothing DEF SwapInv
<1>2. \A w \in Swaps : Midway(w)' <=> Midway(w)
  BY DEF Midway
<1>3. \A w \in Swaps : Telling(kinds[w])'
  BY DEF SwapInv, Telling, First
<1>4. txn'[conn'].on => Telling(View)'
  <2>1. First \in Live \/ DOMAIN Targets = {}
    BY TargetFacts DEF First
  <2> QED BY <2>1, TargetFacts DEF SwapInv, Telling, View, First
<1>5. ASSUME NEW w \in Swaps, txn'[conn'].on, pc'[w] \in {"drop", "create", "commit"}
      PROVE  Progress(w)'
  <2>1. Progress(w)
    BY <1>5 DEF SwapInv
  <2>2. \A i \in DOMAIN Targets : Targets[i] \in Live
    BY TargetFacts
  <2>3. First \in Live \/ DOMAIN Targets = {}
    BY TargetFacts DEF First
  <2> QED BY <1>5, <2>1, <2>2, <2>3 DEF Progress, View, First
<1> QED BY <1>1, <1>2, <1>3, <1>4, <1>5 DEF SwapInv

(* A step of the swap that is under way. *)
LEMMA OwnStep ==
    ASSUME SwapInv, NEW w \in Swaps, Midway(w),
           conn' = conn, open' = open, kinds' = kinds,
           \A v \in Swaps : v # w => pc'[v] = pc[v],
           AllOrNothing',
           Midway(w)' => on'[w] = conn,
           Midway(w)' /\ conn \in open => txn'[conn].on,
           txn'[conn].on => Telling(txn'[conn].view),
           txn'[conn].on /\ pc'[w] \in {"drop", "create", "commit"} => Progress(w)'
    PROVE  SwapInv'
<1>1. \A v \in Swaps : Midway(v)' => v = w
  BY DEF SwapInv, Midway
<1>2. \A v \in Swaps : Telling(kinds[v])'
  BY DEF SwapInv, Telling, First
<1>3. txn'[conn'].on => Telling(View)'
  BY DEF Telling, View, First
<1>4. \A v \in Swaps : txn'[conn'].on /\ pc'[v] \in {"drop", "create", "commit"} => Progress(v)'
  <2> SUFFICES ASSUME NEW v \in Swaps, txn'[conn'].on, pc'[v] \in {"drop", "create", "commit"}
               PROVE  Progress(v)'
    OBVIOUS
  <2>1. v = w
    BY <1>1 DEF Midway
  <2> QED BY <2>1
<1> QED BY <1>1, <1>2, <1>3, <1>4 DEF SwapInv

LEMMA OwnedKept ==
    ASSUME Inv, Owned, [Next]_vars
    PROVE  Owned'
<1>0. TypeOK
  BY DEF Inv
<1>1. ASSUME NEW r \in Runs, Working(r)
      PROVE  Owned'
  BY <1>0, <1>1, WorkFrame, RunsAreNoSwaps DEF Owned, Midway
<1>2. ASSUME NEW r \in Runs,
             CloseInterrupted(r) \/ ConnectFails(r) \/ Connect(r) \/ Install(r)
      PROVE  Owned'
  <2>1. on' = on /\ \A w \in Swaps : pc'[w] = pc[w]
    BY <1>0, <1>2, RunsAreNoSwaps
       DEF CloseInterrupted, ConnectFails, Connect, Install, Goto, runVars, TypeOK
  <2> QED BY <2>1 DEF Owned, Midway
<1>3. ASSUME NEW w \in Swaps, Swap(w)
      PROVE  Owned'
  <2>1. \A v \in Swaps : v # w => pc'[v] = pc[v] /\ on'[v] = on[v]
    BY <1>0, <1>3, SwapFrame
  <2>2. /\ pc'[w] \in {"idle", "begin"} => on'[w] = None
        /\ Midway(w)' => on'[w] # None
    <3>1. CASE ReadTypes(w)
      BY <1>0, <3>1 DEF ReadTypes, Owned, Midway, runVars, Goto, TypeOK
    <3>2. CASE Begin(w)
      BY <1>0, <3>2, ConstantFacts DEF Begin, Owned, Midway, Goto, TypeOK
    <3>3. CASE DropTarget(w) \/ CreateTarget(w)
      BY <1>0, <3>3
         DEF DropTarget, CreateTarget, NextTarget, Owned, Midway, runVars, Goto, TypeOK
    <3>4. CASE Commit(w) \/ Rollback(w)
      BY <1>0, <3>4 DEF Commit, Rollback, Owned, Midway, Goto, TypeOK
    <3> QED BY <1>3, <3>1, <3>2, <3>3, <3>4 DEF Swap, SwapStep
  <2> QED BY <2>1, <2>2 DEF Owned, Midway
<1>4. CASE UNCHANGED vars
  BY <1>4 DEF vars, runVars, Owned, Midway
<1> QED BY <1>1, <1>2, <1>3, <1>4, NextCases

(* Once a connection was replaced under a swap it stays that way. *)
LEMMA UndisturbedBefore ==
    ASSUME Inv, Owned, [Next]_vars, Undisturbed'
    PROVE  Undisturbed
<1>0. TypeOK /\ RecoveryInv
  BY DEF Inv
<1>1. ASSUME NEW r \in Runs, Working(r)
      PROVE  Undisturbed
  BY <1>0, <1>1, WorkFrame, RunsAreNoSwaps DEF Undisturbed
<1>2. ASSUME NEW r \in Runs, CloseInterrupted(r) \/ ConnectFails(r) \/ Connect(r)
      PROVE  Undisturbed
  BY <1>2 DEF CloseInterrupted, ConnectFails, Connect, runVars, engine, Undisturbed
<1>3. ASSUME NEW r \in Runs, Install(r)
      PROVE  Undisturbed
  <2>1. /\ conn = on[r] /\ \A w \in Swaps : on[w] # fresh[r]
    BY <1>0, <1>3 DEF RecoveryInv, Install
  <2>2. conn' = fresh[r] /\ on' = on
    BY <1>3, <2>1 DEF Install, runVars
  <2> QED BY <2>1, <2>2 DEF Undisturbed
<1>4. ASSUME NEW w \in Swaps, Swap(w)
      PROVE  Undisturbed
  <2>1. conn' = conn /\ \A v \in Swaps : v # w => on'[v] = on[v]
    BY <1>0, <1>4, SwapFrame
  <2>2. on[w] \in {None, conn}
    <3>1. CASE ReadTypes(w) \/ DropTarget(w) \/ CreateTarget(w)
      BY <2>1, <3>1 DEF ReadTypes, DropTarget, CreateTarget, runVars, Undisturbed
    <3>2. CASE Begin(w)
      BY <3>2 DEF Begin, Owned
    <3>3. CASE Commit(w) \/ Rollback(w)
      <4>1. on'[w] = on[w] \/ on[w] = conn
        BY <1>0, <3>3 DEF Commit, Rollback, EndsTxn, TypeOK
      <4> QED BY <2>1, <4>1 DEF Undisturbed
    <3> QED BY <1>4, <3>1, <3>2, <3>3 DEF Swap, SwapStep
  <2> QED BY <2>1, <2>2 DEF Undisturbed
<1>5. CASE UNCHANGED vars
  BY <1>5 DEF vars, engine, runVars, Undisturbed
<1> QED BY <1>1, <1>2, <1>3, <1>4, <1>5, NextCases

(* No step of a run disturbs the swaps but by replacing their connection.  *)
LEMMA RunKeepsSwaps ==
    ASSUME Inv, Owned, SwapInv, Undisturbed', NEW r \in Runs,
           Working(r) \/ CloseInterrupted(r) \/ ConnectFails(r) \/ Connect(r) \/ Install(r)
    PROVE  SwapInv'
<1>0. TypeOK /\ RecoveryInv
  BY DEF Inv
<1>1. CASE Working(r)
  <2>1. /\ conn' = conn /\ open' = open /\ kinds' = kinds /\ pos' = pos
        /\ \A w \in Swaps : pc'[w] = pc[w] /\ on'[w] = on[w]
    BY <1>0, <1>1, WorkFrame, RunsAreNoSwaps
  <2>2. /\ txn'[conn].on = txn[conn].on
        /\ \A t \in Live : /\ committed'[t] = committed[t]
                           /\ txn[conn].on => txn'[conn].view[t] = View[t]
    <3>1. CASE Define(r, "view")
      <4>1. r \notin Live /\ Live \subseteq Rels /\ "view" \in Kinds
        BY TargetsAssumption, TargetFacts DEF Kinds
      <4>2. View \in [Rels -> Kinds] /\ committed \in [Rels -> Kinds]
        BY <1>0 DEF View, TypeOK
      <4>3. /\ \A c \in ConnIds : txn'[c].on = txn[c].on
            /\ txn[conn].on => /\ committed' = committed
                               /\ txn'[conn].view = [View EXCEPT ![r] = "view"]
            /\ ~txn[conn].on => committed' = [committed EXCEPT ![r] = "view"]
        BY <1>0, <3>1, <4>1, DefineEffect
      <4>4. conn \in ConnIds
        BY <1>0 DEF TypeOK
      <4>5. \A t \in Live : t # r
        BY <4>1
      <4> HIDE DEF View
      <4> QED BY <4>1, <4>2, <4>3, <4>4, <4>5
    <3>2. CASE Rejected
      BY <1>0, <3>2, RejectedEffect DEF View, TypeOK
    <3>3. CASE UNCHANGED <<txn, committed>>
      BY <3>3 DEF View
    <3> QED BY <1>1, <3>1, <3>2, <3>3
            DEF Working, StartRun, Abort, SendQuery, Drain, QueryEnds, Interrupted,
                AwaitRecovery, Recovered, duckdb
  <2> QED BY <2>1, <2>2, Bystander DEF SwapInv
<1>2. CASE ~Working(r)
  <2>1. /\ on' = on /\ kinds' = kinds /\ pos' = pos /\ committed' = committed
        /\ \A w \in Swaps : pc'[w] = pc[w]
    BY <1>0, <1>2, RunsAreNoSwaps
       DEF CloseInterrupted, ConnectFails, Connect, Install, Goto, runVars, swapVars,
           duckdb, TypeOK
  <2>2. ~txn'[conn'].on
    <3>1. CASE CloseInterrupted(r)
      BY <1>0, <3>1, EndedTxn DEF CloseInterrupted
    <3>2. CASE ConnectFails(r) \/ Connect(r) \/ Install(r)
      <4>1. txn' = txn /\ pc[r] \in {"closing", "connecting"}
        BY <3>2 DEF ConnectFails, Connect, Install, duckdb
      <4>2. conn' \in ConnIds
        <5>1. fresh[r] \in ConnIds \/ pc[r] # "connecting"
          BY <1>0 DEF RecoveryInv, TypeOK
        <5>2. conn' = conn \/ (pc[r] = "connecting" /\ conn' = fresh[r])
          BY <3>2 DEF ConnectFails, Connect, Install, engine
        <5> QED BY <1>0, <5>1, <5>2 DEF TypeOK
      <4> QED BY <4>1, <4>2, NoTxnInRecovery
    <3> QED BY <1>2, <3>1, <3>2
  <2>3. \A w \in Swaps : Midway(w) => on'[w] = conn'
    BY <2>1 DEF Owned, Undisturbed
  <2>4. \A w \in Swaps : Midway(w) => conn' \notin open'
    <3>1. CASE CloseInterrupted(r)
      BY <3>1 DEF CloseInterrupted
    <3>2. CASE ConnectFails(r) \/ Connect(r)
      <4>1. pc[r] = "closing" /\ conn' = conn
        BY <3>2 DEF ConnectFails, Connect, engine
      <4>2. open = {} /\ conn # used + 1
        BY <1>0, <4>1 DEF RecoveryInv, Inv, Used, TypeOK, ConnIds
      <4> QED BY <3>2, <4>1, <4>2 DEF ConnectFails, Connect, duckdb
    <3>3. CASE Install(r)
      <4>1. conn = on[r] /\ \A w \in Swaps : on[w] # fresh[r]
        BY <1>0, <3>3 DEF RecoveryInv, Install
      <4>2. conn' = fresh[r]
        BY <3>3, <4>1 DEF Install
      <4> QED BY <2>1, <2>3, <4>1, <4>2
    <3> QED BY <1>2, <3>1, <3>2, <3>3
  <2> QED BY <2>1, <2>2, <2>3, <2>4, Bystander
<1> QED BY <1>1, <1>2

LEMMA ReadKeepsSwaps ==
    ASSUME Replacements # <<>>, Inv, SwapInv, NEW w \in Swaps, ReadTypes(w)
    PROVE  SwapInv'
<1>0. TypeOK
  BY DEF Inv
<1>1. /\ conn' = conn /\ open' = open /\ on' = on /\ pos' = pos
      /\ pc[w] = "idle" /\ pc'[w] \in {"begin", "failed"}
      /\ \A v \in Swaps : v # w => pc'[v] = pc[v] /\ kinds'[v] = kinds[v]
  BY <1>0 DEF ReadTypes, Goto, engine, runVars, TypeOK
<1>2. /\ committed' = committed
      /\ \A c \in ConnIds : txn'[c].on = txn[c].on /\ txn'[c].view = txn[c].view
  BY <1>0, RejectedEffect DEF ReadTypes
<1>3. conn \in ConnIds
  BY <1>0 DEF TypeOK
<1>4. Telling(kinds'[w])
  <2>1. CASE kinds' = kinds
    BY <2>1 DEF SwapInv
  <2>2. CASE kinds' = [kinds EXCEPT ![w] = [t \in Live |-> Visible(t)]]
    <3>1. \A t \in Live : kinds'[w][t] = Visible(t)
      BY <1>0, <2>2 DEF TypeOK
    <3>2. Telling(committed) /\ (txn[conn].on => Telling(View))
      BY CommittedTells DEF SwapInv
    <3>3. \A t \in Live : kinds'[w][t] = IF txn[conn].on THEN View[t] ELSE committed[t]
      BY <3>1 DEF Visible, View
    <3> QED BY <3>2, <3>3, TargetFacts, FirstFacts DEF Telling
  <2> QED BY <2>1, <2>2 DEF ReadTypes
<1>5. AllOrNothing'
  BY <1>1, <1>2, StillAllOrNothing DEF SwapInv
<1>6. \A v \in Swaps : Midway(v)' => v # w /\ Midway(v)
  BY <1>1 DEF Midway
<1>7. txn'[conn'].on => Telling(View)'
  BY <1>1, <1>2, <1>3 DEF SwapInv, Telling, View, First
<1>8. \A v \in Swaps : Telling(kinds[v])'
  BY <1>1, <1>4 DEF SwapInv, Telling, First
<1>9. ASSUME NEW v \in Swaps, txn'[conn'].on, pc'[v] \in {"drop", "create", "commit"}
      PROVE  Progress(v)'
  <2>1. v # w /\ Progress(v)
    BY <1>1, <1>2, <1>3, <1>9 DEF SwapInv
  <2> QED BY <1>1, <1>2, <1>3, <2>1 DEF Progress, View, First
<1> QED BY <1>1, <1>2, <1>3, <1>5, <1>6, <1>7, <1>8, <1>9 DEF SwapInv

LEMMA BeginKeepsSwaps ==
    ASSUME Replacements # <<>>, Inv, Owned, SwapInv, NEW w \in Swaps, Begin(w)
    PROVE  SwapInv'
<1>0. TypeOK
  BY DEF Inv
<1>1. /\ conn' = conn /\ open' = open /\ kinds' = kinds /\ pc[w] = "begin"
      /\ \A v \in Swaps : v # w => pc'[v] = pc[v] /\ pos'[v] = pos[v] /\ on'[v] = on[v]
  BY <1>0 DEF Begin, Goto, engine, TypeOK
<1>2. conn \in ConnIds
  BY <1>0 DEF TypeOK
<1>3. \A v \in Swaps : Telling(kinds[v])'
  BY <1>1 DEF SwapInv, Telling, First
<1>4. CASE Rejected /\ Goto(w, "failed") /\ UNCHANGED <<on, pos>>
  <2>1. /\ committed' = committed
        /\ txn'[conn].on = txn[conn].on /\ txn'[conn].view = txn[conn].view
    BY <1>0, <1>2, <1>4, RejectedEffect
  <2>2. pc'[w] = "failed"
    BY <1>0, <1>4 DEF Goto, TypeOK
  <2>3. AllOrNothing'
    BY <1>1, <2>1, StillAllOrNothing DEF SwapInv
  <2>4. \A v \in Swaps : Midway(v)' => v # w /\ Midway(v)
    BY <1>1, <2>2 DEF Midway
  <2>5. txn'[conn'].on => Telling(View)'
    BY <1>1, <2>1 DEF SwapInv, Telling, View, First
  <2>6. ASSUME NEW v \in Swaps, txn'[conn'].on, pc'[v] \in {"drop", "create", "commit"}
        PROVE  Progress(v)'
    <3>1. v # w /\ Progress(v)
      BY <1>1, <2>1, <2>2, <2>6 DEF SwapInv
    <3> QED BY <1>1, <2>1, <3>1 DEF Progress, View, First
  <2> QED BY <1>1, <1>3, <2>1, <2>3, <2>4, <2>5, <2>6 DEF SwapInv
<1>5. CASE /\ conn \in open /\ ~txn[conn].on
           /\ txn' = [txn EXCEPT ![conn] =
                        [on |-> TRUE, failed |-> FALSE, view |-> committed]]
           /\ on' = [on EXCEPT ![w] = conn]
           /\ pos' = [pos EXCEPT ![w] = 1]
           /\ Goto(w, "drop")
           /\ UNCHANGED committed
  <2>1. /\ txn'[conn].on /\ txn'[conn].view = committed
        /\ on'[w] = conn /\ pos'[w] = 1 /\ pc'[w] = "drop"
    BY <1>0, <1>5 DEF Goto, TypeOK
  <2>2. \A v \in Swaps : Midway(v)' => v = w
    <3>1. \A v \in Swaps : ~Midway(v)
      BY <1>5 DEF SwapInv
    <3> QED BY <1>1, <3>1 DEF Midway
  <2>3. AllOrNothing'
    BY <1>1, <1>5, StillAllOrNothing DEF SwapInv
  <2>4. Telling(View)'
    <3>1. Telling(committed)
      BY CommittedTells DEF SwapInv
    <3> QED BY <1>1, <2>1, <3>1 DEF Telling, View, First
  <2>5. Progress(w)'
    BY <1>1, <1>5, <2>1, TargetFacts, FirstFacts DEF Progress, View, First
  <2>6. \A v \in Swaps : pc'[v] \in {"drop", "create", "commit"} => Progress(v)'
    BY <2>2, <2>5 DEF Midway
  <2> QED BY <1>1, <1>3, <2>1, <2>2, <2>3, <2>4, <2>6 DEF SwapInv
<1> QED BY <1>4, <1>5 DEF Begin, Accepts

(* A statement of the swap under way that is rejected. *)
LEMMA RejectedKeepsSwaps ==
    ASSUME Inv, SwapInv, NEW w \in Swaps, Midway(w),
           Rejected, Goto(w, "rollback"), UNCHANGED <<conn, open, kinds, on>>
    PROVE  SwapInv'
<1>0. TypeOK /\ conn \in ConnIds
  BY DEF Inv, TypeOK
<1>1. /\ committed' = committed
      /\ txn'[conn].on = txn[conn].on /\ txn'[conn].view = txn[conn].view
  BY <1>0, RejectedEffect
<1>2. pc'[w] = "rollback" /\ \A v \in Swaps : v # w => pc'[v] = pc[v]
  BY <1>0 DEF Goto, TypeOK
<1>3. AllOrNothing'
  BY <1>1, <1>2, StillAllOrNothing DEF SwapInv, Midway
<1>4. txn'[conn].on => Telling(txn'[conn].view)
  BY <1>1 DEF SwapInv, View
<1> QED BY <1>1, <1>2, <1>3, <1>4, OwnStep DEF SwapInv

(* NextTarget leaves the swap at the next target, or ready to commit. *)
LEMMA NextTargetEffect ==
    ASSUME TypeOK, NEW w \in Swaps, pos[w] \in DOMAIN Targets, NextTarget(w)
    PROVE  /\ pos'[w] = pos[w] + 1
           /\ \/ pc'[w] = "drop" /\ pos'[w] \in DOMAIN Targets
              \/ pc'[w] = "commit" /\ pos'[w] = Len(Targets) + 1
           /\ \A v \in Swaps : v # w => pc'[v] = pc[v]
BY TargetFacts DEF NextTarget, Goto, TypeOK

(* What an accepted definition of the target a swap is at does to the      *)
(* targets, as the transaction sees them.                                  *)
LEMMA TargetDefined ==
    ASSUME TypeOK, NEW p \in DOMAIN Targets, NEW kind \in Kinds,
           txn[conn].on, Define(Targets[p], kind)
    PROVE  /\ committed' = committed
           /\ txn'[conn].on /\ txn'[conn].view[Targets[p]] = kind
           /\ \A i \in DOMAIN Targets :
                i # p => txn'[conn].view[Targets[i]] = View[Targets[i]]
<1>1. conn \in ConnIds /\ View \in [Rels -> Kinds]
  BY DEF TypeOK, View
<1>2. /\ committed' = committed /\ txn'[conn].on
      /\ txn'[conn].view = [View EXCEPT ![Targets[p]] = kind]
  BY <1>1, DefineEffect
<1>3. \A i \in DOMAIN Targets : Targets[i] \in Rels /\ (i # p => Targets[i] # Targets[p])
  BY TargetFacts, TargetsAssumption
<1> HIDE DEF View
<1> QED BY <1>1, <1>2, <1>3

LEMMA DropKeepsSwaps ==
    ASSUME Replacements # <<>>, Inv, SwapInv, NEW w \in Swaps, DropTarget(w)
    PROVE  SwapInv'
<1>0. TypeOK /\ conn \in ConnIds
  BY DEF Inv, TypeOK
<1>1. /\ conn' = conn /\ open' = open /\ kinds' = kinds /\ on' = on
      /\ pc[w] = "drop" /\ Midway(w) /\ on[w] = conn
  BY DEF DropTarget, engine, runVars, Midway, SwapInv
<1> DEFINE p       == pos[w]
           kind    == kinds[w][Targets[p]]
           dropped == IF p <= Len(Replacements)
                      THEN Goto(w, "create") /\ UNCHANGED pos
                      ELSE NextTarget(w)
<1>2. \/ Rejected /\ Goto(w, "rollback")
      \/ kind = "none" /\ dropped /\ UNCHANGED <<txn, committed>>
      \/ /\ kind # "none" /\ dropped /\ Accepts
         /\ Visible(Targets[p]) = kind /\ Define(Targets[p], "none")
  BY DEF DropTarget, Target
<1> HIDE DEF kind
<1>3. CASE Rejected /\ Goto(w, "rollback")
  BY <1>1, <1>3, RejectedKeepsSwaps
<1>4. CASE conn \notin open /\ kind = "none" /\ dropped /\ UNCHANGED <<txn, committed>>
  <2>1. ~txn'[conn].on
    BY <1>0, <1>4 DEF Inv, TxnInv
  <2>2. \A v \in Swaps : v # w => pc'[v] = pc[v]
    BY <1>0, <1>4 DEF NextTarget, Goto, TypeOK
  <2>3. AllOrNothing'
    BY <1>1, <1>4, <2>2, StillAllOrNothing DEF SwapInv
  <2> QED BY <1>1, <1>4, <2>1, <2>2, <2>3, OwnStep
<1>5. CASE /\ conn \in open /\ dropped
           /\ \/ kind = "none" /\ UNCHANGED <<txn, committed>>
              \/ /\ kind # "none" /\ Visible(Targets[p]) = kind
                 /\ Define(Targets[p], "none")
  <2>1. txn[conn].on /\ Progress(w)
    BY <1>1, <1>5 DEF SwapInv
  <2>2. /\ p \in DOMAIN Targets /\ View[Targets[p]] = committed[Targets[p]]
        /\ p > 1 => kinds[w][First] = committed[First] /\ View[First] = "table"
    BY <1>1, <2>1, TargetFacts, FirstFacts DEF Progress, First
  <2>3. p > Len(Replacements) => p > 1
    BY <2>2, TargetFacts, FirstFacts
  <2>4. /\ committed' = committed /\ txn'[conn].on
        /\ \A i \in DOMAIN Targets :
             i # p => txn'[conn].view[Targets[i]] = View[Targets[i]]
        /\ p > Len(Replacements) => txn'[conn].view[Targets[p]] = "none"
        /\ p = 1 => \/ kinds[w][First] = committed[First]
                    \/ kinds[w][First] = "none" /\ txn'[conn].view[First] = committed[First]
        /\ Telling(txn'[conn].view)
    <3>1. CASE kind = "none" /\ UNCHANGED <<txn, committed>>
      <4>1. p > Len(Replacements) => committed[Targets[p]] = "none"
        <5> SUFFICES ASSUME p > Len(Replacements)
                     PROVE  committed[Targets[p]] = "none"
          OBVIOUS
        <5>1. committed[First] # "view" /\ First \in Live
          BY <2>2, <2>3, <3>1, FirstFacts DEF SwapInv, Telling, kind
        <5>2. [t \in Live |-> committed[t]] # Original
          BY <5>1 DEF Original
        <5>3. \A t \in Live : committed[t] = IF t \in Dropped THEN "none" ELSE "table"
          <6>1. [t \in Live |-> committed[t]] = Swapped
            BY <5>2 DEF SwapInv, AllOrNothing
          <6> QED BY <6>1 DEF Swapped
        <5> QED BY <2>2, <5>3, TargetFacts
      <4> QED BY <2>1, <2>2, <3>1, <4>1 DEF SwapInv, View, First, kind
    <3>2. CASE kind # "none" /\ Visible(Targets[p]) = kind /\ Define(Targets[p], "none")
      <4>1. /\ committed' = committed
            /\ txn'[conn].on /\ txn'[conn].view[Targets[p]] = "none"
            /\ \A i \in DOMAIN Targets :
                 i # p => txn'[conn].view[Targets[i]] = View[Targets[i]]
        BY <1>0, <2>1, <2>2, <3>2, TargetDefined DEF Kinds
      <4>2. kind = committed[Targets[p]]
        BY <2>1, <2>2, <3>2 DEF Visible, View
      <4>3. txn'[conn].view[First] # "view"
        <5>1. CASE p = 1
          BY <4>1, <5>1 DEF First
        <5>2. CASE p # 1
          BY <2>2, <4>1, <5>2, TargetFacts, FirstFacts DEF First
        <5> QED BY <5>1, <5>2
      <4> QED BY <4>1, <4>2, <4>3 DEF Telling, First, kind
    <3> QED BY <1>5, <3>1, <3>2
  <2>5. Progress(w)' /\ (\A v \in Swaps : v # w => pc'[v] = pc[v])
    <3>1. CASE p <= Len(Replacements)
      <4>1. /\ pos' = pos /\ pc'[w] = "create"
            /\ \A v \in Swaps : v # w => pc'[v] = pc[v]
        BY <1>0, <1>5, <3>1 DEF Goto, TypeOK
      <4>2. ASSUME NEW i \in DOMAIN Targets
            PROVE  /\ i < p => txn'[conn].view[Targets[i]] =
                                 IF i <= Len(Replacements) THEN "table" ELSE "none"
                   /\ i > p => txn'[conn].view[Targets[i]] = committed[Targets[i]]
        BY <2>1, <2>2, <2>4, TargetFacts DEF Progress
      <4>3. pos'[w] = p /\ committed' = committed /\ kinds' = kinds /\ conn' = conn
        BY <1>1, <2>4, <4>1
      <4> QED BY <2>2, <2>4, <3>1, <4>1, <4>2, <4>3 DEF Progress, View, First
    <3>2. CASE p > Len(Replacements)
      <4>1. ~(p <= Len(Replacements))
        BY <2>2, <3>2, TargetFacts
      <4>2. /\ pos'[w] = p + 1
            /\ \/ pc'[w] = "drop" /\ pos'[w] \in DOMAIN Targets
               \/ pc'[w] = "commit" /\ pos'[w] = Len(Targets) + 1
            /\ \A v \in Swaps : v # w => pc'[v] = pc[v]
        BY <1>0, <1>5, <2>2, <4>1, NextTargetEffect
      <4>3. ASSUME NEW i \in DOMAIN Targets
            PROVE  /\ i < p + 1 => txn'[conn].view[Targets[i]] =
                                     IF i <= Len(Replacements) THEN "table" ELSE "none"
                   /\ i >= p + 1 => txn'[conn].view[Targets[i]] = committed[Targets[i]]
        BY <2>1, <2>2, <2>4, <3>2, TargetFacts DEF Progress
      <4> QED BY <1>1, <2>2, <2>3, <2>4, <3>2, <4>2, <4>3, TargetFacts
              DEF Progress, View, First
    <3> QED BY <2>2, <3>1, <3>2, TargetFacts
  <2>6. AllOrNothing'
    BY <1>1, <2>4, <2>5, StillAllOrNothing DEF SwapInv
  <2> QED BY <1>1, <2>4, <2>5, <2>6, OwnStep
<1> QED BY <1>2, <1>3, <1>4, <1>5 DEF Accepts

LEMMA CreateKeepsSwaps ==
    ASSUME Replacements # <<>>, Inv, SwapInv, NEW w \in Swaps, CreateTarget(w)
    PROVE  SwapInv'
<1>0. TypeOK /\ conn \in ConnIds
  BY DEF Inv, TypeOK
<1>1. /\ conn' = conn /\ open' = open /\ kinds' = kinds /\ on' = on
      /\ pc[w] = "create" /\ Midway(w) /\ on[w] = conn
  BY DEF CreateTarget, engine, runVars, Midway, SwapInv
<1> DEFINE p == pos[w]
<1>2. CASE Rejected /\ Goto(w, "rollback")
  BY <1>1, <1>2, RejectedKeepsSwaps
<1>3. CASE /\ Accepts /\ Visible(Targets[p]) = "none"
           /\ Define(Targets[p], "table") /\ NextTarget(w)
  <2>1. txn[conn].on /\ Progress(w)
    BY <1>1, <1>3 DEF SwapInv, Accepts
  <2>2. p \in DOMAIN Targets /\ p <= Len(Replacements) /\ p \in Nat
    BY <1>1, <2>1, TargetFacts DEF Progress
  <2>3. /\ committed' = committed
        /\ txn'[conn].on /\ txn'[conn].view[Targets[p]] = "table"
        /\ \A i \in DOMAIN Targets :
             i # p => txn'[conn].view[Targets[i]] = View[Targets[i]]
    BY <1>0, <1>3, <2>1, <2>2, TargetDefined DEF Kinds
  <2>4. /\ pos'[w] = p + 1
        /\ \/ pc'[w] = "drop" /\ pos'[w] \in DOMAIN Targets
           \/ pc'[w] = "commit" /\ pos'[w] = Len(Targets) + 1
        /\ \A v \in Swaps : v # w => pc'[v] = pc[v]
    BY <1>0, <1>3, <2>2, NextTargetEffect
  <2>5. kinds[w][First] = committed[First]
    <3>1. CASE p = 1
      <4>1. View[First] = "none"
        BY <1>3, <2>1, <3>1 DEF Visible, View, First
      <4>2. committed[First] # "none"
        BY CommittedTells DEF SwapInv
      <4> QED BY <1>1, <2>1, <3>1, <4>1, <4>2 DEF Progress
    <3>2. CASE p > 1
      BY <2>1, <3>2 DEF Progress
    <3> QED BY <2>2, <3>1, <3>2, TargetFacts
  <2>6. ASSUME NEW i \in DOMAIN Targets
        PROVE  /\ i < p + 1 => txn'[conn].view[Targets[i]] =
                                 IF i <= Len(Replacements) THEN "table" ELSE "none"
               /\ i >= p + 1 => txn'[conn].view[Targets[i]] = committed[Targets[i]]
    BY <2>1, <2>2, <2>3, TargetFacts DEF Progress
  <2>7. Telling(txn'[conn].view)
    <3>1. 1 < p + 1 /\ 1 \in DOMAIN Targets /\ 1 <= Len(Replacements)
      BY <2>2, TargetFacts, FirstFacts
    <3> QED BY <2>6, <3>1 DEF Telling, First
  <2>8. Progress(w)'
    BY <1>1, <2>2, <2>3, <2>4, <2>5, <2>6, TargetFacts DEF Progress, View, First
  <2>9. AllOrNothing'
    BY <1>1, <2>3, <2>4, StillAllOrNothing DEF SwapInv
  <2> QED BY <1>1, <2>3, <2>4, <2>7, <2>8, <2>9, OwnStep
<1> QED BY <1>2, <1>3 DEF CreateTarget, Target

LEMMA CommitKeepsSwaps ==
    ASSUME Replacements # <<>>, Inv, SwapInv, NEW w \in Swaps, Commit(w)
    PROVE  SwapInv'
<1>0. TypeOK /\ conn \in ConnIds
  BY DEF Inv, TypeOK
<1>1. /\ conn' = conn /\ open' = open /\ kinds' = kinds
      /\ pc[w] = "commit" /\ Midway(w)
  BY DEF Commit, engine, swapVars, Midway
<1>2. CASE Rejected /\ Goto(w, "rollback") /\ UNCHANGED on
  BY <1>1, <1>2, RejectedKeepsSwaps
<1>3. CASE /\ Accepts /\ txn[conn].on /\ committed' = txn[conn].view
           /\ txn' = [txn EXCEPT ![conn] = NoTxn] /\ Goto(w, "done")
  <2>1. ~txn'[conn].on
    BY <1>0, <1>3, EndedTxn
  <2>2. pc'[w] = "done" /\ \A v \in Swaps : v # w => pc'[v] = pc[v]
    BY <1>0, <1>3 DEF Goto, TypeOK
  <2>3. \A i \in DOMAIN Targets : committed'[Targets[i]] =
            IF Targets[i] \in Dropped THEN "none" ELSE "table"
    <3>1. Progress(w)
      BY <1>1, <1>3 DEF SwapInv
    <3> QED BY <1>1, <1>3, <3>1, TargetFacts DEF Progress, View
  <2>4. \A t \in Live : committed'[t] = IF t \in Dropped THEN "none" ELSE "table"
    BY <2>3 DEF Live
  <2>5. AllOrNothing'
    <3>1. [t \in Live |-> committed'[t]] = Swapped
      BY <2>4 DEF Swapped
    <3> QED BY <2>2, <3>1 DEF AllOrNothing, Swapped, Original
  <2> QED BY <1>1, <2>1, <2>2, <2>5, OwnStep DEF Midway
<1> QED BY <1>2, <1>3 DEF Commit

LEMMA RollbackKeepsSwaps ==
    ASSUME Inv, SwapInv, NEW w \in Swaps, Rollback(w)
    PROVE  SwapInv'
<1>0. TypeOK /\ conn \in ConnIds
  BY DEF Inv, TypeOK
<1>1. /\ conn' = conn /\ open' = open /\ kinds' = kinds /\ committed' = committed
      /\ pc[w] = "rollback" /\ Midway(w)
  BY DEF Rollback, engine, swapVars, Midway
<1>2. ~txn'[conn].on
  <2>1. CASE conn \in open
    BY <1>0, <2>1, EndedTxn DEF Rollback
  <2>2. CASE conn \notin open
    BY <1>0, <2>2 DEF Rollback, Inv, TxnInv
  <2> QED BY <2>1, <2>2
<1>3. pc'[w] = "failed" /\ \A v \in Swaps : v # w => pc'[v] = pc[v]
  BY <1>0 DEF Rollback, Goto, TypeOK
<1>4. AllOrNothing'
  BY <1>1, <1>3, StillAllOrNothing DEF SwapInv
<1> QED BY <1>1, <1>2, <1>3, <1>4, OwnStep DEF Midway

LEMMA AtomicKept ==
    ASSUME Replacements # <<>>, AtomicInv, [Next]_vars
    PROVE  AtomicInv'
<1>1. Inv' /\ Owned'
  BY InvKept, OwnedKept DEF AtomicInv
<1>2. ASSUME Undisturbed'
      PROVE  SwapInv'
  <2>1. Inv /\ Owned /\ SwapInv
    BY <1>2, UndisturbedBefore DEF AtomicInv
  <2>2. ASSUME NEW r \in Runs,
               \/ Working(r) \/ CloseInterrupted(r) \/ ConnectFails(r)
               \/ Connect(r) \/ Install(r)
        PROVE  SwapInv'
    BY <1>2, <2>1, <2>2, RunKeepsSwaps
  <2>3. ASSUME NEW w \in Swaps, Swap(w)
        PROVE  SwapInv'
    BY <2>1, <2>3, ReadKeepsSwaps, BeginKeepsSwaps, DropKeepsSwaps, CreateKeepsSwaps,
       CommitKeepsSwaps, RollbackKeepsSwaps DEF Swap, SwapStep
  <2>4. CASE UNCHANGED vars
    BY <2>1, <2>4
       DEF vars, engine, duckdb, runVars, swapVars, SwapInv, AllOrNothing, Midway,
           Telling, View, First, Progress
  <2> QED BY <2>2, <2>3, <2>4, NextCases
<1> QED BY <1>1, <1>2 DEF AtomicInv

(* Whatever is rejected, cancelled or run meanwhile, and however many      *)
(* swaps overlap, replaceRelationsAtomically takes effect on all its       *)
(* targets or on none, unless the connection was replaced under it; the    *)
(* call must replace something, not only remove.                           *)
THEOREM SwapsAreAtomic ==
    ASSUME Replacements # <<>>
    PROVE  Spec => []SwapAtomic
<1>1. Init => AtomicInv
  <2> SUFFICES ASSUME Init
               PROVE  AtomicInv
    OBVIOUS
  <2>1. AllOrNothing
    <3>1. [t \in Live |-> committed[t]] = Original
      BY TargetFacts DEF Init, Original
    <3> QED BY <3>1 DEF AllOrNothing
  <2>2. Owned /\ \A w \in Swaps : ~Midway(w)
    BY DEF Init, Owned, Midway
  <2>3. \A w \in Swaps : Telling(kinds[w])
    BY TargetFacts, FirstFacts DEF Init, Telling, First
  <2>4. ~txn[conn].on
    BY ConstantFacts DEF Init, NoTxn
  <2> QED BY <2>1, <2>2, <2>3, <2>4, InitInv DEF AtomicInv, SwapInv
<1>2. AtomicInv /\ [Next]_vars => AtomicInv'
  BY AtomicKept
<1>3. AtomicInv => SwapAtomic
  BY DEF AtomicInv, SwapInv, SwapAtomic
<1> QED BY <1>1, <1>2, <1>3, PTL DEF Spec
=============================================================================
