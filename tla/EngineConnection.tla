--------------------------- MODULE EngineConnection ---------------------------
(***************************************************************************)
(* The one DuckDB connection that every caller of src/core/engine.ts       *)
(* shares: cell runs (a view definition through exec, then a cancellable   *)
(* query), the replacement of a connection whose query was cancelled, and  *)
(* the transaction that swaps refreshed relations                          *)
(* (replaceRelationsAtomically).                                           *)
(*                                                                         *)
(* duckdb-wasm is external.  Its worker handles messages in the order they *)
(* are posted, so a statement takes effect in the step that posts it and   *)
(* the caller resumes in a later one.  Used of it: a statement on a closed *)
(* connection is rejected; outside a transaction a statement commits by    *)
(* itself; closing a connection rolls its transaction back; a rejected     *)
(* statement may doom the transaction it ran in.                           *)
(***************************************************************************)
EXTENDS Naturals, Sequences, FiniteSets

CONSTANTS
  Runs,        (* cell runs; each is one call of Notebook.runCell          *)
  Swaps,       (* calls of replaceRelationsAtomically                      *)
  Replacements, (* the live relations every swap replaces, in order        *)
  Removals,    (* the live relations every swap then drops, in order       *)
  MaxConns,    (* bound: connections opened; every run opens one at most   *)
  None,
  MayCancel,   (* the user presses Escape in this instance                 *)
  MayFail,     (* statements may be rejected by DuckDB in this instance    *)
  ConnectMayFail  (* db.connect() may be rejected in this instance         *)

ASSUME NoneAssumption == None \notin Nat \cup Runs
ASSUME ActorsAssumption == Runs \cap Swaps = {}
ASSUME ConnsAssumption == MaxConns \in Nat \ {0}

ConnIds == 1..MaxConns

Targets == Replacements \o Removals
Live    == {Targets[i] : i \in DOMAIN Targets}
Dropped == {Removals[i] : i \in DOMAIN Removals}
Rels    == Live \cup Runs            (* run r defines the view cell_<r> *)
Kinds   == {"none", "view", "table"}

(* A table is mounted once, and a removal that is also replaced is skipped; *)
(* no table has the name of a cell's view.                                 *)
ASSUME TargetsAssumption ==
  /\ Replacements \in Seq(Live) /\ Removals \in Seq(Live)
  /\ \A i, j \in DOMAIN Targets : Targets[i] = Targets[j] => i = j
  /\ Live \cap Runs = {}

VARIABLES
  conn,        (* Engine.conn                                              *)
  recovery,    (* Engine.cancellationRecovery: the run that started it     *)
  open, used,  (* connections open in the database; how many were opened   *)
  committed,   (* relation -> "none", "view" or "table"                    *)
  txn,         (* connection -> its transaction                            *)
  pc,          (* where each run and swap is                               *)
  on,          (* the connection a run's query was sent on; that of a      *)
               (* swap's transaction, until the swap ends it               *)
  aborted,     (* the run's AbortSignal                                    *)
  fresh,       (* the replacement a recovery has opened                    *)
  waits,       (* the recovery a run waits for                             *)
  kinds,       (* existingTypes of a swap                                  *)
  pos          (* the target a swap is at                                  *)

engine  == <<conn, recovery>>
duckdb  == <<open, used, committed, txn>>
runVars == <<on, aborted, fresh, waits>>
swapVars == <<kinds, pos>>
vars == <<engine, duckdb, pc, runVars, swapVars>>

NoTxn == [on |-> FALSE, failed |-> FALSE, view |-> [rel \in Rels |-> "none"]]

RunSteps  == {"idle", "view", "stream", "requery", "cancelled", "closing",
              "connecting", "waiting", "ended", "lost"}
SwapSteps == {"idle", "begin", "drop", "create", "commit", "rollback",
              "done", "failed"}

TypeOK ==
  /\ conn \in ConnIds
  /\ recovery \in Runs \cup {None}
  /\ open \subseteq ConnIds /\ used \in ConnIds
  /\ committed \in [Rels -> Kinds]
  /\ txn \in [ConnIds -> [on: BOOLEAN, failed: BOOLEAN, view: [Rels -> Kinds]]]
  /\ pc \in [Runs \cup Swaps -> RunSteps \cup SwapSteps]
  /\ on \in [Runs \cup Swaps -> ConnIds \cup {None}]
  /\ aborted \in [Runs -> BOOLEAN]
  /\ fresh \in [Runs -> ConnIds \cup {None}]
  /\ waits \in [Runs -> Runs \cup {None}]
  /\ kinds \in [Swaps -> [Live -> Kinds]]
  /\ pos \in [Swaps -> Nat]

Goto(a, step) == pc' = [pc EXCEPT ![a] = step]

(***************************************************************************)
(* DuckDB.                                                                 *)
(***************************************************************************)

Visible(rel) == IF txn[conn].on THEN txn[conn].view[rel] ELSE committed[rel]

(* A statement on the engine's connection makes rel a kind. *)
Define(rel, kind) ==
  IF txn[conn].on
  THEN /\ txn' = [txn EXCEPT ![conn].view[rel] = kind]
       /\ UNCHANGED committed
  ELSE /\ committed' = [committed EXCEPT ![rel] = kind]
       /\ UNCHANGED txn

Accepts == conn \in open /\ ~txn[conn].failed

(* The statement is rejected; inside a transaction that may doom it. *)
Rejected ==
  \E dooms \in BOOLEAN :
    /\ dooms => conn \in open /\ txn[conn].on
    /\ txn' = IF dooms THEN [txn EXCEPT ![conn].failed = TRUE] ELSE txn
    /\ UNCHANGED committed

(***************************************************************************)
(* Cell runs.                                                              *)
(***************************************************************************)

(* runCell: CREATE OR REPLACE VIEW cell_<id>.  exec posts the statement on *)
(* the connection of the moment and looks at the signal only afterwards.   *)
StartRun(r) ==
  /\ pc[r] = "idle"
  /\ \/ Accepts /\ Define(r, "view") /\ Goto(r, "view")
     \/ (MayFail \/ ~Accepts) /\ Rejected /\ Goto(r, "ended")
  /\ UNCHANGED <<engine, open, used, runVars, swapVars>>

(* Escape: AbortController.abort.  A query in flight is interrupted.       *)
Abort(r) ==
  /\ MayCancel
  /\ pc[r] \in {"view", "stream", "requery"}
  /\ ~aborted[r]
  /\ aborted' = [aborted EXCEPT ![r] = TRUE]
  /\ UNCHANGED <<engine, duckdb, pc, on, fresh, waits, swapVars>>

(* exec resumes; the query goes out on the connection of the moment.       *)
SendQuery(r) ==
  /\ pc[r] = "view"
  /\ IF aborted[r]
     THEN Goto(r, "ended") /\ UNCHANGED on
     ELSE Goto(r, "stream") /\ on' = [on EXCEPT ![r] = conn]
  /\ UNCHANGED <<engine, duckdb, aborted, fresh, waits, swapVars>>

(* The stream is drained; an empty one is run again through the            *)
(* materialised API on the same connection.                                *)
Drain(r) ==
  /\ pc[r] = "stream"
  /\ ~aborted[r] /\ on[r] \in open
  /\ Goto(r, "requery") \/ Goto(r, "ended")
  /\ UNCHANGED <<engine, duckdb, runVars, swapVars>>

QueryEnds(r) ==
  /\ ~aborted[r]
  /\ \/ pc[r] = "requery"
     \/ pc[r] = "stream" /\ (MayFail \/ on[r] \notin open)
  /\ Goto(r, "ended")
  /\ UNCHANGED <<engine, duckdb, runVars, swapVars>>

(* The query ends after the signal was aborted: the finally block first    *)
(* awaits the interruption.                                                *)
Interrupted(r) ==
  /\ pc[r] \in {"stream", "requery"} /\ aborted[r]
  /\ Goto(r, "cancelled")
  /\ UNCHANGED <<engine, duckdb, runVars, swapVars>>

(***************************************************************************)
(* recoverCancelledConnection.                                             *)
(***************************************************************************)

(* Somebody else replaces, or has replaced, the connection. *)
AwaitRecovery(r) ==
  /\ pc[r] = "cancelled"
  /\ recovery # None \/ conn # on[r]
  /\ waits' = [waits EXCEPT ![r] = recovery]
  /\ Goto(r, IF recovery # None THEN "waiting" ELSE "ended")
  /\ UNCHANGED <<engine, duckdb, on, aborted, fresh, swapVars>>

Recovered(r) ==
  /\ pc[r] = "waiting"
  /\ recovery # waits[r]
  /\ Goto(r, "ended")
  /\ UNCHANGED <<engine, duckdb, runVars, swapVars>>

CloseInterruptedTwice(r) ==
  \* Mutant: a recovery that is under way is not waited for.
  /\ pc[r] = "cancelled"
  /\ conn = on[r]
  /\ recovery' = r
  /\ open' = open \ {conn}
  /\ txn' = [txn EXCEPT ![conn] = NoTxn]
  /\ Goto(r, "closing")
  /\ UNCHANGED <<conn, used, committed, runVars, swapVars>>

(* conn.close(): the transaction of the connection is rolled back. *)
CloseInterrupted(r) ==
  /\ pc[r] = "cancelled"
  /\ recovery = None /\ conn = on[r]
  /\ recovery' = r
  /\ open' = open \ {conn}
  /\ txn' = [txn EXCEPT ![conn] = NoTxn]
  /\ Goto(r, "closing")
  /\ UNCHANGED <<conn, used, committed, runVars, swapVars>>

(* db.connect().  When it is rejected the recovery ends there, and         *)
(* Engine.conn is left at the connection that was closed.                  *)
ConnectFails(r) ==
  /\ ConnectMayFail
  /\ pc[r] = "closing"
  /\ recovery' = None
  /\ Goto(r, "lost")
  /\ UNCHANGED <<conn, duckdb, runVars, swapVars>>

Connect(r) ==
  /\ pc[r] = "closing" /\ used < MaxConns
  /\ used' = used + 1
  /\ open' = open \cup {used + 1}
  /\ fresh' = [fresh EXCEPT ![r] = used + 1]
  /\ Goto(r, "connecting")
  /\ UNCHANGED <<engine, committed, txn, on, aborted, waits, swapVars>>

InstallNothing(r) ==
  \* Mutant: the replacement is opened and then forgotten.
  /\ pc[r] = "connecting"
  /\ recovery' = None
  /\ Goto(r, "ended")
  /\ UNCHANGED <<conn, duckdb, runVars, swapVars>>

InstallStillRecovering(r) ==
  \* Mutant: cancellationRecovery is not cleared.
  /\ pc[r] = "connecting"
  /\ IF conn = on[r]
     THEN conn' = fresh[r] /\ UNCHANGED open
     ELSE open' = open \ {fresh[r]} /\ UNCHANGED conn
  /\ Goto(r, "ended")
  /\ UNCHANGED <<recovery, used, committed, txn, runVars, swapVars>>

(* The replacement is installed, or closed when it is not wanted any more. *)
Install(r) ==
  /\ pc[r] = "connecting"
  /\ IF conn = on[r]
     THEN conn' = fresh[r] /\ UNCHANGED open
     ELSE open' = open \ {fresh[r]} /\ UNCHANGED conn
  /\ recovery' = None
  /\ Goto(r, "ended")
  /\ UNCHANGED <<used, committed, txn, runVars, swapVars>>

(***************************************************************************)
(* replaceRelationsAtomically.  Every exec posts on the connection of the  *)
(* moment.                                                                 *)
(***************************************************************************)

(* The types of the live relations; a rejected query ends the call. *)
ReadTypes(w) ==
  /\ pc[w] = "idle"
  /\ \/ /\ Accepts
        /\ kinds' = [kinds EXCEPT ![w] = [t \in Live |-> Visible(t)]]
        /\ Goto(w, "begin")
        /\ UNCHANGED <<txn, committed>>
     \/ /\ MayFail \/ ~Accepts
        /\ Rejected /\ Goto(w, "failed") /\ UNCHANGED kinds
  /\ UNCHANGED <<engine, open, used, runVars, pos>>

BeginNothing(w) ==
  \* Mutant: no transaction around the swap.
  /\ pc[w] = "begin"
  /\ pos' = [pos EXCEPT ![w] = 1]
  /\ Goto(w, "drop")
  /\ UNCHANGED <<engine, duckdb, runVars, kinds>>

(* BEGIN TRANSACTION stands before the try: its rejection is not followed  *)
(* by a ROLLBACK.                                                          *)
Begin(w) ==
  /\ pc[w] = "begin"
  /\ IF Accepts /\ ~txn[conn].on
     THEN /\ txn' = [txn EXCEPT ![conn] =
                       [on |-> TRUE, failed |-> FALSE, view |-> committed]]
          /\ on' = [on EXCEPT ![w] = conn]
          /\ pos' = [pos EXCEPT ![w] = 1]
          /\ Goto(w, "drop")
          /\ UNCHANGED committed
     ELSE Rejected /\ Goto(w, "failed") /\ UNCHANGED <<on, pos>>
  /\ UNCHANGED <<engine, open, used, aborted, fresh, waits, kinds>>

Target(w) == Targets[pos[w]]

(* On to the next target: replacements are dropped and created again,      *)
(* removals only dropped.                                                  *)
NextTarget(w) ==
  /\ pos' = [pos EXCEPT ![w] = @ + 1]
  /\ Goto(w, IF pos[w] = Len(Targets) THEN "commit" ELSE "drop")

(* DROP VIEW or DROP TABLE, according to the type read before BEGIN. *)
DropTarget(w) ==
  LET kind    == kinds[w][Target(w)]
      dropped == IF pos[w] <= Len(Replacements)
                 THEN Goto(w, "create") /\ UNCHANGED pos
                 ELSE NextTarget(w)
  IN  /\ pc[w] = "drop"
      /\ IF kind = "none"
         THEN dropped /\ UNCHANGED <<txn, committed>>
         ELSE IF Accepts /\ Visible(Target(w)) = kind
         THEN Define(Target(w), "none") /\ dropped
         ELSE Rejected /\ Goto(w, "rollback") /\ UNCHANGED pos
      /\ UNCHANGED <<engine, open, used, runVars, kinds>>

(* CREATE TABLE target AS SELECT * FROM staged. *)
CreateTarget(w) ==
  LET accepted == Accepts /\ Visible(Target(w)) = "none"
  IN  /\ pc[w] = "create"
      /\ \/ accepted /\ Define(Target(w), "table") /\ NextTarget(w)
         \/ /\ MayFail \/ ~accepted
            /\ Rejected /\ Goto(w, "rollback") /\ UNCHANGED pos
      /\ UNCHANGED <<engine, open, used, runVars, kinds>>

(* A transaction that is on the connection of the moment is over. *)
EndsTxn(w) == on' = [on EXCEPT ![w] = IF @ = conn THEN None ELSE @]

Commit(w) ==
  /\ pc[w] = "commit"
  /\ IF Accepts /\ txn[conn].on
     THEN /\ committed' = txn[conn].view
          /\ txn' = [txn EXCEPT ![conn] = NoTxn]
          /\ EndsTxn(w)
          /\ Goto(w, "done")
     ELSE Rejected /\ Goto(w, "rollback") /\ UNCHANGED on
  /\ UNCHANGED <<engine, open, used, aborted, fresh, waits, swapVars>>

RollbackSkipped(w) ==
  \* Mutant: a failed swap leaves its transaction open.
  /\ pc[w] = "rollback"
  /\ Goto(w, "failed")
  /\ UNCHANGED <<engine, duckdb, runVars, swapVars>>

(* The rejection of ROLLBACK itself is swallowed. *)
Rollback(w) ==
  /\ pc[w] = "rollback"
  /\ txn' = IF conn \in open THEN [txn EXCEPT ![conn] = NoTxn] ELSE txn
  /\ EndsTxn(w)
  /\ Goto(w, "failed")
  /\ UNCHANGED <<engine, open, used, committed, aborted, fresh, waits,
                 swapVars>>

(***************************************************************************)
(* The specification.                                                      *)
(***************************************************************************)

Init ==
  /\ conn = 1 /\ open = {1} /\ used = 1
  /\ recovery = None
  /\ committed = [rel \in Rels |-> IF rel \in Live THEN "view" ELSE "none"]
  /\ txn = [c \in ConnIds |-> NoTxn]
  /\ pc = [a \in Runs \cup Swaps |-> "idle"]
  /\ on = [a \in Runs \cup Swaps |-> None]
  /\ aborted = [r \in Runs |-> FALSE]
  /\ fresh = [r \in Runs |-> None]
  /\ waits = [r \in Runs |-> None]
  /\ kinds = [w \in Swaps |-> [t \in Live |-> "none"]]
  /\ pos = [w \in Swaps |-> 1]

RunStep(r) ==
  \/ SendQuery(r) \/ Drain(r) \/ QueryEnds(r) \/ Interrupted(r)
  \/ AwaitRecovery(r) \/ Recovered(r) \/ CloseInterrupted(r) \/ Connect(r)
  \/ ConnectFails(r) \/ Install(r)

SwapStep(w) ==
  \/ Begin(w) \/ DropTarget(w) \/ CreateTarget(w) \/ Commit(w) \/ Rollback(w)

Next ==
  \/ \E r \in Runs : StartRun(r) \/ Abort(r) \/ RunStep(r)
  \/ \E w \in Swaps : ReadTypes(w) \/ SwapStep(w)

Spec == Init /\ [][Next]_vars

(* A posted message is answered and its continuation runs. *)
Fairness ==
  /\ \A r \in Runs : WF_vars(RunStep(r))
  /\ \A w \in Swaps : WF_vars(SwapStep(w))

FairSpec == Spec /\ Fairness

(***************************************************************************)
(* Properties.                                                             *)
(***************************************************************************)

(* However many runs are cancelled at once, no connection but the          *)
(* engine's own is left open when no recovery is under way.                *)
OneOpenConnection == recovery = None => open \subseteq {conn}

(* A run only ever replaces the connection it was cancelled on: the engine *)
(* is never handed back a connection that was closed, unless db.connect()  *)
(* itself was rejected.                                                    *)
Usable == conn \in open \/ \E r \in Runs : pc[r] = "lost"

EngineUsable == recovery = None => Usable

(* When no swap is under way no transaction is left open on the shared     *)
(* connection for later statements to fall into.                           *)
NoTransactionLeft ==
  (\A w \in Swaps : pc[w] \in {"idle", "begin", "done", "failed"})
    => \A c \in open : ~txn[c].on

(* Other connections and a reload see all targets swapped or none, and a   *)
(* swap that failed has changed none.                                      *)
Original == [t \in Live |-> "view"]
Swapped  == [t \in Live |-> IF t \in Dropped THEN "none" ELSE "table"]

AllOrNothing ==
  LET now == [t \in Live |-> committed[t]]
  IN  \/ now = Original
      \/ now = Swapped /\ \E w \in Swaps : pc[w] = "done"

(* No connection was replaced under the transaction of a swap. *)
Undisturbed == \A w \in Swaps : on[w] \in {None, conn}

(* Whatever statement of it or of another caller is rejected, and whoever  *)
(* else writes or swaps meanwhile, a swap takes effect as a whole, unless  *)
(* the connection is replaced under its transaction.                       *)
SwapAtomic == Undisturbed => AllOrNothing

(* Whatever statements are cancelled, terminated or rejected, the engine is  *)
(* again and again out of recovery with a connection that answers.          *)
EngineComesBack == []<>(recovery = None /\ Usable)
=============================================================================
