----------------------- MODULE WarehouseBridge_proofs -----------------------
(***************************************************************************)
(* Proofs about WarehouseBridge, for any set of numbered tables and any    *)
(* poll limit: the type invariant, the two safety invariants, and that the *)
(* bridge implements RemoteQuery.                                          *)
(***************************************************************************)
EXTENDS WarehouseBridge, TLAPS

(* Browser and server: the server has nothing of a table that the mount    *)
(* has not asked for, and a response waits for nobody but its request.     *)
Asked(p) ==
    /\ reply[p] # "none" => pick[p] = "asking"
    /\ pick[p] = "todo" => server[p] = "none"
    /\ server[p] = "none" => pick[p] \in {"todo", "failed"}
    /\ post[p] # "none" => server[p] \in {"running", "ended"}
    /\ post[p] # "taken" => stmt[p] = "none"

(* Rows, wherever they are, are those of a statement that succeeded.       *)
FromSuccess(p) ==
    /\ adapter[p] \in {"collect", "rows"} => stmt[p] = "succeeded"
    /\ reply[p] = "rows" => stmt[p] = "succeeded"
    /\ pick[p] \in {"registering", "mounted"} => stmt[p] = "succeeded"

NotOrphaned(p) == adapter[p] \in {"rows", "failed"} /\ known[p] => stmt[p] \in Ended

(* The mount is through with every table before the one it is at.          *)
InTurn ==
    \A p, q \in Picks : q < p /\ pick[p] # "todo" => pick[q] \in {"mounted", "failed"}

IInv ==
    /\ TypeOK
    /\ \A p \in Picks : Asked(p) /\ FromSuccess(p) /\ NotOrphaned(p)
    /\ InTurn

-----------------------------------------------------------------------------
(* Operators. *)

(* What one turn of the polling loop does, whatever was answered: to       *)
(* collect or to end with a handle it takes a statement that has ended.    *)
LEMMA TurnEffect ==
    ASSUME NEW p \in Picks, NEW a \in Answers(p), TypeOK, Turn(p, a)
    PROVE  /\ TypeOK'
           /\ UNCHANGED <<vendor, browser, bridge, warehouse>>
           /\ \A q \in Picks : q # p => adapter'[q] = adapter[q] /\ known'[q] = known[q]
           /\ adapter'[p] \in {"collect", "poll", "cancel", "failed"}
           /\ adapter'[p] = "collect" => stmt[p] = "succeeded"
           /\ adapter'[p] = "failed" /\ known'[p] => stmt[p] \in Ended
<1> DEFINE k  == Knows(p, a)
           id == k \/ (vendor = "snowflake" /\ a.handle)
<1>1. a.handle \in BOOLEAN /\ k \in BOOLEAN /\ id \in BOOLEAN
  BY DEF Answers, Knows, SnowflakeKnows, DatabricksKnows, TypeOK
<1>2. a.kind \in Ended => a.kind = stmt[p]
  BY DEF Answers, Ended
<1>3. /\ known' = [known EXCEPT ![p] = k]
      /\ UNCHANGED <<vendor, browser, bridge, warehouse>>
  BY DEF Turn
<1>4. known' \in [Picks -> BOOLEAN] /\ known'[p] = k
  BY <1>1, <1>3 DEF TypeOK
<1> HIDE DEF k
<1>5. CASE HasResult(a) /\ id
  <2>1. Goto(p, "collect") /\ polls' = [polls EXCEPT ![p] = 0]
    BY <1>5 DEF Turn, k, HasResult
  <2>2. polls' \in [Picks -> 0..MaxPolls]
    BY <2>1, MaxPollsAssumption DEF TypeOK
  <2>3. stmt[p] = "succeeded"
    BY <1>2, <1>5 DEF HasResult, Ended
  <2> QED BY <1>3, <1>4, <2>1, <2>2, <2>3
          DEF Goto, TypeOK, Awaits, browser, bridge, warehouse
<1>6. CASE ~(HasResult(a) /\ id) /\ a.kind = "pending" /\ id /\ polls[p] < MaxPolls
  <2>1. Goto(p, "poll") /\ polls' = [polls EXCEPT ![p] = @ + 1]
    BY <1>6 DEF Turn, k, HasResult
  <2>2. polls' \in [Picks -> 0..MaxPolls]
    BY <1>6, <2>1, MaxPollsAssumption DEF TypeOK
  <2> QED BY <1>3, <1>4, <2>1, <2>2
          DEF Goto, TypeOK, Awaits, browser, bridge, warehouse
<1>7. CASE ~(HasResult(a) /\ id) /\ ~(a.kind = "pending" /\ id /\ polls[p] < MaxPolls)
  <2>1. Fail(p, k, a.kind \in Ended) /\ polls' = [polls EXCEPT ![p] = 0]
    BY <1>7 DEF Turn, k
  <2>2. polls' \in [Picks -> 0..MaxPolls]
    BY <2>1, MaxPollsAssumption DEF TypeOK
  <2>3. /\ adapter' \in [Picks -> {"idle", "rows"} \cup Awaits \cup Outcomes]
        /\ \A q \in Picks : q # p => adapter'[q] = adapter[q]
        /\ adapter'[p] \in {"cancel", "failed"}
        /\ adapter'[p] = "failed" => ~k \/ a.kind \in Ended
    BY <1>1, <2>1 DEF Fail, Goto, TypeOK, Awaits, Outcomes
  <2>4. adapter'[p] = "failed" /\ known'[p] => stmt[p] \in Ended
    BY <1>2, <1>4, <2>3
  <2>5. TypeOK'
    BY <1>3, <1>4, <2>2, <2>3 DEF TypeOK, browser, bridge, warehouse
  <2> QED BY <1>3, <1>4, <2>3, <2>4, <2>5
<1> QED BY <1>5, <1>6, <1>7

-----------------------------------------------------------------------------
(* The invariant. *)

LEMMA InitInv == Init => IInv
<1> SUFFICES ASSUME Init PROVE IInv
  OBVIOUS
<1>1. TypeOK
  <2>1. polls \in [Picks -> 0..MaxPolls]
    BY MaxPollsAssumption DEF Init
  <2> QED BY <2>1 DEF Init, TypeOK
<1>2. \A p \in Picks : Asked(p) /\ FromSuccess(p) /\ NotOrphaned(p)
  BY DEF Init, Asked, FromSuccess, NotOrphaned
<1> QED BY <1>1, <1>2 DEF Init, IInv, InTurn

(* The browser's steps. *)
LEMMA BrowserInv ==
    ASSUME IInv, OpenMount \/ CloseDialog \/ Health \/ EndMount
                    \/ \E p \in Picks : BrowserStep(p)
    PROVE  IInv'
<1> USE DEF IInv, browser, bridge, execute, warehouse
<1>1. CASE OpenMount \/ Health \/ EndMount
  BY <1>1 DEF OpenMount, Health, EndMount, TypeOK, Asked, FromSuccess, NotOrphaned, InTurn
<1>2. CASE CloseDialog
  <2>1. TypeOK'
    BY <1>2 DEF CloseDialog, TypeOK
  <2>2. \A p \in Picks : /\ pick'[p] = IF pick[p] = "asking" THEN "failed" ELSE pick[p]
                         /\ reply'[p] = IF pick[p] = "asking" THEN "none" ELSE reply[p]
    BY <1>2 DEF CloseDialog
  <2>3. \A p \in Picks : Asked(p)' /\ FromSuccess(p)' /\ NotOrphaned(p)'
    BY <1>2, <2>2 DEF CloseDialog, Asked, FromSuccess, NotOrphaned
  <2>4. InTurn'
    BY <2>2 DEF InTurn
  <2> QED BY <2>1, <2>3, <2>4
<1>3. ASSUME NEW p \in Picks, Ask(p) PROVE IInv'
  <2>1. TypeOK'
    BY <1>3 DEF Ask, TypeOK
  <2>2. \A q \in Picks : Asked(q)' /\ FromSuccess(q)' /\ NotOrphaned(q)'
    BY <1>3 DEF Ask, TypeOK, Asked, FromSuccess, NotOrphaned
  <2>3. pick[p] = "todo" /\ \A q \in Picks : q < p => pick[q] \in {"mounted", "failed"}
    BY <1>3 DEF Ask
  <2>4. pick'[p] \in {"asking", "failed"} /\ \A q \in Picks \ {p} : pick'[q] = pick[q]
    BY <1>3 DEF Ask, TypeOK
  <2>5. \A q \in Picks : p < q => pick[q] = "todo"
    BY <2>3 DEF InTurn
  <2>6. \A q, r \in Picks : q < r => ~(r < q) /\ q # r
    BY PicksAssumption
  <2>7. InTurn'
    BY <2>3, <2>4, <2>5, <2>6 DEF InTurn
  <2> QED BY <2>1, <2>2, <2>7
<1>4. ASSUME NEW p \in Picks, GiveUp(p) \/ Answered(p) \/ Register(p) PROVE IInv'
  <2>1. TypeOK'
    BY <1>4 DEF GiveUp, Answered, Register, TypeOK
  <2>2. \A q \in Picks : Asked(q)' /\ FromSuccess(q)' /\ NotOrphaned(q)'
    BY <1>4 DEF GiveUp, Answered, Register, TypeOK, Asked, FromSuccess, NotOrphaned
  <2>3. pick[p] \in {"asking", "registering"} /\ \A q \in Picks \ {p} : pick'[q] = pick[q]
    BY <1>4 DEF GiveUp, Answered, Register, TypeOK
  <2>4. InTurn'
    BY <2>3 DEF InTurn
  <2> QED BY <2>1, <2>2, <2>4
<1> QED BY <1>1, <1>2, <1>3, <1>4 DEF BrowserStep

(* The server's steps. *)
LEMMA ServerInv ==
    ASSUME IInv, NEW p \in Picks,
           Receive(p) \/ Disconnect(p) \/ DeadlinePasses(p) \/ Respond(p)
    PROVE  IInv'
<1> USE DEF IInv, browser, bridge, execute, warehouse
<1>1. CASE Disconnect(p) \/ DeadlinePasses(p)
  BY <1>1 DEF Disconnect, DeadlinePasses, TypeOK, Asked, FromSuccess, NotOrphaned, InTurn
<1>2. CASE Receive(p)
  <2>1. TypeOK'
    BY <1>2 DEF Receive, Answer, TypeOK, Awaits, Outcomes
  <2>2. \A q \in Picks : Asked(q)' /\ FromSuccess(q)' /\ NotOrphaned(q)'
    BY <1>2 DEF Receive, Answer, TypeOK, Asked, FromSuccess, NotOrphaned
  <2> QED BY <1>2, <2>1, <2>2 DEF Receive, InTurn
<1>3. CASE Respond(p)
  <2>1. PICK code \in {"rows"} \cup Outcomes :
            Answer(p, code) /\ (code = "rows" => adapter[p] = "rows")
    <3>1. Reported(p) \in {"rows"} \cup Outcomes /\ (Reported(p) = "rows" => adapter[p] = "rows")
      BY <1>3 DEF Respond, Reported, TypeOK, Outcomes
    <3> QED BY <1>3, <3>1 DEF Respond, Outcomes
  <2>2. TypeOK'
    BY <1>3, <2>1 DEF Respond, Answer, TypeOK
  <2>3. \A q \in Picks : Asked(q)' /\ FromSuccess(q)' /\ NotOrphaned(q)'
    BY <1>3, <2>1 DEF Respond, Answer, TypeOK, Asked, FromSuccess, NotOrphaned
  <2> QED BY <1>3, <2>2, <2>3 DEF Respond, InTurn
<1> QED BY <1>1, <1>2, <1>3

(* A step of the adapter that leaves the rest alone, keeps what it knows,  *)
(* and ends well only when the statement has ended.                        *)
LEMMA AdapterMoves ==
    ASSUME IInv, NEW p \in Picks, TypeOK',
           UNCHANGED <<vendor, browser, bridge, post, stmt>>,
           \A q \in Picks : q # p => adapter'[q] = adapter[q] /\ known'[q] = known[q],
           adapter'[p] \in {"collect", "rows"} => stmt[p] = "succeeded",
           adapter'[p] \in {"rows", "failed"} /\ known'[p] => stmt[p] \in Ended
    PROVE  IInv'
BY DEF IInv, browser, bridge, Asked, FromSuccess, NotOrphaned, InTurn

(* The adapter's steps. *)
LEMMA AdapterInv ==
    ASSUME IInv, NEW p \in Picks, AdapterStep(p) \/ CancelPollFails(p) \/ Body(p)
    PROVE  IInv'
<1> USE DEF browser, bridge, execute, warehouse
<1>0. TypeOK /\ known[p] \in BOOLEAN
  BY DEF IInv, TypeOK
<1>1. CASE RequestFails(p)
  <2>1. Fail(p, known[p], FALSE) /\ polls' = [polls EXCEPT ![p] = 0]
          /\ UNCHANGED <<vendor, browser, bridge, known, warehouse>>
    BY <1>1 DEF RequestFails
  <2>2. /\ adapter' \in [Picks -> {"idle", "rows"} \cup Awaits \cup Outcomes]
        /\ \A q \in Picks : q # p => adapter'[q] = adapter[q]
        /\ adapter'[p] \in {"cancel", "failed"}
        /\ adapter'[p] = "failed" => ~known[p]
    BY <1>0, <2>1 DEF Fail, Goto, TypeOK, Awaits, Outcomes
  <2>3. polls' \in [Picks -> 0..MaxPolls]
    BY <1>0, <2>1, MaxPollsAssumption DEF TypeOK
  <2>4. TypeOK'
    BY <1>0, <2>1, <2>2, <2>3 DEF TypeOK
  <2> QED BY <2>1, <2>2, <2>4, AdapterMoves
<1>2. CASE SubmitHeaders(p) \/ PollHeaders(p)
  <2>1. TypeOK' /\ adapter'[p] \in {"submitBody", "pollBody"}
          /\ \A q \in Picks : q # p => adapter'[q] = adapter[q]
    BY <1>0, <1>2 DEF SubmitHeaders, PollHeaders, Goto, TypeOK, Awaits
  <2> QED BY <1>2, <2>1, AdapterMoves DEF SubmitHeaders, PollHeaders
<1>3. CASE Body(p)
  <2>1. PICK a \in Answers(p) : Turn(p, a)
    BY <1>3 DEF Body
  <2> QED BY <1>0, <2>1, TurnEffect, AdapterMoves
<1>4. CASE Collect(p)
  <2>1. stmt[p] = "succeeded"
    BY <1>4 DEF Collect, IInv, FromSuccess
  <2>2. Goto(p, "rows") \/ Fail(p, known[p], TRUE)
    BY <1>4 DEF Collect
  <2>3. TypeOK' /\ adapter'[p] \in {"rows", "failed", "cancel"}
          /\ \A q \in Picks : q # p => adapter'[q] = adapter[q]
    BY <1>0, <1>4, <2>2 DEF Collect, Fail, Goto, TypeOK, Awaits, Outcomes
  <2> QED BY <1>4, <2>1, <2>3, AdapterMoves DEF Collect, Ended
<1>5. CASE PostCancel(p)
  <2>1. TypeOK' /\ adapter'[p] = "cancelPoll"
          /\ \A q \in Picks : q # p => adapter'[q] = adapter[q]
    BY <1>0, <1>5 DEF PostCancel, Goto, TypeOK, Awaits
  <2> QED BY <1>5, <2>1, AdapterMoves DEF PostCancel
<1>6. CASE CancelPoll(p) \/ CancelPollFails(p)
  <2>1. TypeOK' /\ (adapter'[p] = "failed" => stmt[p] \in Ended)
          /\ adapter'[p] \in {"failed", "unconfirmed", "cancelPoll"}
          /\ \A q \in Picks : q # p => adapter'[q] = adapter[q]
    <3>1. polls' \in [Picks -> 0..MaxPolls]
      BY <1>0, <1>6, MaxPollsAssumption DEF CancelPoll, CancelPollFails, TypeOK
    <3> QED BY <1>0, <1>6, <3>1
            DEF CancelPoll, CancelPollFails, Goto, TypeOK, Awaits, Outcomes
  <2> QED BY <1>6, <2>1, AdapterMoves DEF CancelPoll, CancelPollFails
<1> QED BY <1>1, <1>2, <1>3, <1>4, <1>5, <1>6 DEF AdapterStep

(* The warehouse's steps: no statement that has ended runs again. *)
LEMMA WarehouseInv ==
    ASSUME IInv, NEW p \in Picks, TakeStatement(p) \/ StatementEnds(p)
    PROVE  IInv'
<1> USE DEF IInv, browser, bridge, execute
<1>1. TypeOK'
  BY ZenonT(60) DEF TakeStatement, StatementEnds, TypeOK, Ended
<1>2. \A q \in Picks : Asked(q)' /\ FromSuccess(q)' /\ NotOrphaned(q)'
  BY DEF TakeStatement, StatementEnds, TypeOK, Asked, FromSuccess, NotOrphaned, Ended
<1> QED BY <1>1, <1>2 DEF TakeStatement, StatementEnds, InTurn

LEMMA NextInv == ASSUME IInv, [Next]_vars PROVE IInv'
<1>1. CASE Finished \/ UNCHANGED vars
  BY <1>1 DEF Finished, vars, browser, bridge, execute, warehouse, IInv, TypeOK, Asked,
              FromSuccess, NotOrphaned, InTurn
<1> QED BY <1>1, BrowserInv, ServerInv, AdapterInv, WarehouseInv DEF Next

LEMMA Invariant == Spec => []IInv
BY InitInv, NextInv, PTL DEF Spec

-----------------------------------------------------------------------------
(* Every variable keeps its type, for any number of tables and of polls.   *)
THEOREM TypeCorrect == Spec => []TypeOK
<1>1. IInv => TypeOK
  BY DEF IInv
<1> QED BY <1>1, Invariant, PTL

(* An adapter that has ended leaves no statement running that it had a     *)
(* handle of, unless it says so: whatever of submission, polling, download *)
(* and cancellation failed, and whenever.                                  *)
THEOREM NothingOrphaned == Spec => []NoOrphan
<1>1. IInv => NoOrphan
  BY DEF IInv, NotOrphaned, NoOrphan
<1> QED BY <1>1, Invariant, PTL

(* What is mounted are the rows of a statement that succeeded. *)
THEOREM MountsSucceeded == Spec => []MountedSucceeded
<1>1. IInv => MountedSucceeded
  BY DEF IInv, FromSuccess, MountedSucceeded
<1> QED BY <1>1, Invariant, PTL

-----------------------------------------------------------------------------
(* The refinement. *)

AskOf(p) ==
    CASE pick[p] = "todo" -> "no"
      [] pick[p] = "asking" -> "asked"
      [] pick[p] \in {"registering", "mounted"} -> "rows"
      [] pick[p] = "failed" /\ server[p] = "none" -> "dropped"
      [] OTHER -> "error"

WorkOf(p) ==
    CASE stmt[p] \in {"none", "running"} -> stmt[p]
      [] stmt[p] = "succeeded" -> "finished"
      [] OTHER -> "broken"

AskMap == [p \in Picks |-> AskOf(p)]
WorkMap == [p \in Picks |-> WorkOf(p)]

(* What a step of RemoteQuery does to the query and the work of one table. *)
Moves(p) ==
    \/ /\ WorkOf(p)' = WorkOf(p)
       /\ \/ AskOf(p) = "no" /\ AskOf(p)' \in {"asked", "dropped"}
          \/ AskOf(p) = "asked" /\ WorkOf(p) = "finished" /\ AskOf(p)' = "rows"
          \/ AskOf(p) \in {"asked", "rows"} /\ AskOf(p)' = "error"
    \/ /\ AskOf(p)' = AskOf(p)
       /\ \/ AskOf(p) \in {"asked", "error"} /\ WorkOf(p) = "none" /\ WorkOf(p)' = "running"
          \/ WorkOf(p) = "running" /\ WorkOf(p)' \in {"finished", "broken"}

Stays(p) == AskOf(p)' = AskOf(p) /\ WorkOf(p)' = WorkOf(p)

(* The mapping by cases. *)
Values(p) ==
    /\ pick[p] = "todo" => AskOf(p) = "no"
    /\ pick[p] = "asking" => AskOf(p) = "asked"
    /\ pick[p] \in {"registering", "mounted"} => AskOf(p) = "rows"
    /\ pick[p] = "failed" => AskOf(p) = IF server[p] = "none" THEN "dropped" ELSE "error"
    /\ stmt[p] \in {"none", "running"} => WorkOf(p) = stmt[p]
    /\ stmt[p] = "succeeded" => WorkOf(p) = "finished"
    /\ stmt[p] \in {"failed", "canceled"} => WorkOf(p) = "broken"

LEMMA MapValues == ASSUME NEW p PROVE Values(p) /\ Values(p)'
<1>1. Values(p)
  BY DEF Values, AskOf, WorkOf
<1>2. Values(p)'
  BY <1>1, PTL
<1> QED BY <1>1, <1>2

LEMMA InitMaps == Init => Query!Init
<1> SUFFICES ASSUME Init PROVE Query!Init
  OBVIOUS
<1>1. \A p \in Picks : AskOf(p) = "no" /\ WorkOf(p) = "none"
  BY MapValues DEF Init, Values
<1>2. AskMap = [p \in Picks |-> "no"] /\ WorkMap = [p \in Picks |-> "none"]
  BY <1>1 DEF AskMap, WorkMap
<1> QED BY <1>2 DEF Query!Init, AskMap, WorkMap, AskOf, WorkOf

(* A step that moves one table and leaves the others is one of RemoteQuery. *)
LEMMA MoveMaps ==
    ASSUME NEW p \in Picks, Moves(p), \A q \in Picks : q # p => Stays(q)
    PROVE  Query!Next
<1>1. AskMap' = [AskMap EXCEPT ![p] = AskOf(p)']
  BY DEF AskMap, Stays
<1>2. WorkMap' = [WorkMap EXCEPT ![p] = WorkOf(p)']
  BY DEF WorkMap, Stays
<1>3. AskOf(p)' = AskOf(p) => AskMap' = AskMap
  BY <1>1 DEF AskMap
<1>4. WorkOf(p)' = WorkOf(p) => WorkMap' = WorkMap
  BY <1>2 DEF WorkMap
<1>5. AskMap[p] = AskOf(p) /\ WorkMap[p] = WorkOf(p)
  BY DEF AskMap, WorkMap
<1>6. Query!Next <=>
        \E q \in Picks :
          \/ AskMap[q] = "no" /\ AskMap' = [AskMap EXCEPT ![q] = "asked"] /\ WorkMap' = WorkMap
          \/ AskMap[q] = "no" /\ AskMap' = [AskMap EXCEPT ![q] = "dropped"] /\ WorkMap' = WorkMap
          \/ /\ AskMap[q] \in {"asked", "error"} /\ WorkMap[q] = "none"
             /\ WorkMap' = [WorkMap EXCEPT ![q] = "running"] /\ AskMap' = AskMap
          \/ /\ WorkMap[q] = "running"
             /\ \E w \in {"finished", "broken"} : WorkMap' = [WorkMap EXCEPT ![q] = w]
             /\ AskMap' = AskMap
          \/ /\ AskMap[q] = "asked" /\ WorkMap[q] = "finished"
             /\ AskMap' = [AskMap EXCEPT ![q] = "rows"] /\ WorkMap' = WorkMap
          \/ /\ AskMap[q] \in {"asked", "rows"}
             /\ AskMap' = [AskMap EXCEPT ![q] = "error"] /\ WorkMap' = WorkMap
  BY DEF Query!Next, Query!Ask, Query!Drop, Query!Begin, Query!End, Query!Rows, Query!Error,
         AskMap, WorkMap, AskOf, WorkOf
<1> QED BY <1>1, <1>2, <1>3, <1>4, <1>5, <1>6 DEF Moves

LEMMA StayMaps ==
    ASSUME \A q \in Picks : Stays(q)
    PROVE  UNCHANGED Query!vars
<1>1. AskMap' = AskMap /\ WorkMap' = WorkMap
  BY DEF AskMap, WorkMap, Stays
<1> QED BY <1>1 DEF Query!vars, AskMap, WorkMap, AskOf, WorkOf

(* A table stays where it is when the mount, the statement and the         *)
(* server's first word of it stay.                                         *)
LEMMA SameStays ==
    ASSUME NEW q \in Picks, TypeOK, pick'[q] = pick[q], stmt'[q] = stmt[q],
           (server'[q] = "none") = (server[q] = "none")
    PROVE  Stays(q)
<1>1. pick[q] \in {"todo", "asking", "registering", "mounted", "failed"}
  BY DEF TypeOK
<1>2. stmt[q] \in {"none", "running", "succeeded", "failed", "canceled"}
  BY DEF TypeOK, Ended
<1>3. Values(q) /\ Values(q)'
  BY MapValues
<1> QED BY <1>1, <1>2, <1>3 DEF Values, Stays

LEMMA BrowserMaps ==
    ASSUME IInv, CloseDialog \/ \E p \in Picks : BrowserStep(p)
    PROVE  Query!Next \/ UNCHANGED Query!vars
<1> USE DEF browser, bridge, execute, warehouse
<1>0. TypeOK /\ \A q \in Picks : Asked(q) /\ FromSuccess(q)
  BY DEF IInv
<1>1. \A q \in Picks : Values(q) /\ Values(q)'
  BY MapValues
<1>2. CASE CloseDialog
  <2>1. /\ UNCHANGED <<stmt, server>>
        /\ \A q \in Picks : pick'[q] = IF pick[q] = "asking" THEN "failed" ELSE pick[q]
    BY <1>2 DEF CloseDialog
  <2>2. \A q \in Picks : pick[q] # "asking" => Stays(q)
    BY <1>0, <2>1, SameStays
  <2>3. CASE \E p \in Picks : pick[p] = "asking"
    <3>1. PICK p \in Picks : pick[p] = "asking"
      BY <2>3
    <3>2. \A q \in Picks : pick[q] = "asking" => q = p
      <4>1. \A q \in Picks : q < p \/ p < q \/ q = p
        BY PicksAssumption
      <4> QED BY <3>1, <4>1 DEF IInv, InTurn
    <3>3. server[p] # "none" /\ pick'[p] = "failed"
      BY <1>0, <2>1, <3>1 DEF Asked
    <3>4. WorkOf(p)' = WorkOf(p)
      BY <2>1 DEF WorkOf
    <3>5. Moves(p)
      BY <1>1, <2>1, <3>1, <3>3, <3>4 DEF Values, Moves
    <3> QED BY <2>2, <3>2, <3>5, MoveMaps
  <2> QED BY <2>2, <2>3, StayMaps
<1>3. ASSUME NEW p \in Picks, BrowserStep(p) PROVE Query!Next \/ UNCHANGED Query!vars
  <2>1. UNCHANGED stmt /\ \A q \in Picks : q # p => pick'[q] = pick[q] /\ server'[q] = server[q]
    BY <1>0, <1>3 DEF BrowserStep, Ask, GiveUp, Answered, Register, TypeOK
  <2>2. \A q \in Picks : q # p => Stays(q)
    BY <1>0, <2>1, SameStays
  <2>3. WorkOf(p)' = WorkOf(p)
    BY <2>1 DEF WorkOf
  <2>4. CASE Ask(p)
    <3>1. /\ pick[p] = "todo" /\ server[p] = "none"
          /\ \/ pick'[p] = "failed" /\ server'[p] = "none"
             \/ pick'[p] = "asking"
      BY <1>0, <2>4 DEF Ask, Asked, TypeOK
    <3>2. Moves(p)
      BY <1>1, <2>3, <3>1 DEF Values, Moves
    <3> QED BY <2>2, <3>2, MoveMaps
  <2>5. CASE GiveUp(p) \/ Answered(p)
    <3>1. /\ pick[p] = "asking" /\ server[p] # "none" /\ server'[p] = server[p]
          /\ \/ pick'[p] = "failed"
             \/ pick'[p] = "registering" /\ stmt[p] = "succeeded"
      BY <1>0, <2>5 DEF GiveUp, Answered, Asked, FromSuccess, TypeOK
    <3>2. Moves(p)
      BY <1>1, <2>3, <3>1 DEF Values, Moves
    <3> QED BY <2>2, <3>2, MoveMaps
  <2>6. CASE Register(p)
    <3>1. /\ pick[p] = "registering" /\ server[p] # "none" /\ server'[p] = server[p]
          /\ pick'[p] \in {"mounted", "failed"}
      BY <1>0, <2>6 DEF Register, Asked, TypeOK
    <3>2. Moves(p) \/ Stays(p)
      BY <1>1, <2>3, <3>1 DEF Values, Moves, Stays
    <3> QED BY <2>2, <3>2, MoveMaps, StayMaps
  <2> QED BY <1>3, <2>4, <2>5, <2>6 DEF BrowserStep
<1> QED BY <1>2, <1>3

LEMMA WarehouseMaps ==
    ASSUME IInv, NEW p \in Picks, TakeStatement(p) \/ StatementEnds(p)
    PROVE  Query!Next \/ UNCHANGED Query!vars
<1> USE DEF browser, bridge, execute
<1>0. TypeOK /\ Asked(p) /\ FromSuccess(p)
  BY DEF IInv
<1>1. Values(p) /\ Values(p)'
  BY MapValues
<1>2. UNCHANGED <<pick, server>> /\ \A q \in Picks : q # p => stmt'[q] = stmt[q]
  BY <1>0 DEF TakeStatement, StatementEnds, TypeOK
<1>3. \A q \in Picks : q # p => Stays(q)
  BY <1>0, <1>2, SameStays
<1>4. AskOf(p)' = AskOf(p)
  BY <1>2 DEF AskOf
<1>5. CASE TakeStatement(p)
  <2>1. /\ pick[p] \in {"asking", "failed"} /\ server[p] # "none" /\ stmt[p] = "none"
    BY <1>0, <1>5 DEF TakeStatement, Asked, FromSuccess, TypeOK
  <2>2. stmt'[p] \in {"running", "none"}
    BY <1>0, <1>5, <2>1 DEF TakeStatement, TypeOK
  <2>3. Moves(p) \/ Stays(p)
    BY <1>1, <1>4, <2>1, <2>2 DEF Values, Moves, Stays
  <2> QED BY <1>3, <2>3, MoveMaps, StayMaps
<1>6. CASE StatementEnds(p)
  <2>1. stmt[p] = "running" /\ stmt'[p] \in {"succeeded", "failed", "canceled"}
    BY <1>0, <1>6 DEF StatementEnds, TypeOK, Ended
  <2>2. Moves(p)
    BY <1>1, <1>4, <2>1 DEF Values, Moves
  <2> QED BY <1>3, <2>2, MoveMaps
<1> QED BY <1>5, <1>6

(* Everything else, adapter and server included, is a step RemoteQuery     *)
(* does not see.                                                           *)
LEMMA NextMaps == ASSUME IInv, [Next]_vars PROVE Query!Next \/ UNCHANGED Query!vars
<1> USE DEF browser, bridge, execute, warehouse
<1>0. TypeOK
  BY DEF IInv
<1>1. ASSUME UNCHANGED <<pick, stmt>>,
             \A q \in Picks : (server'[q] = "none") = (server[q] = "none")
      PROVE  UNCHANGED Query!vars
  BY <1>0, <1>1, SameStays, StayMaps
<1>2. CASE OpenMount \/ Health \/ EndMount \/ Finished \/ UNCHANGED vars
  BY <1>1, <1>2 DEF OpenMount, Health, EndMount, Finished, vars
<1>3. ASSUME NEW p \in Picks,
             Receive(p) \/ Disconnect(p) \/ DeadlinePasses(p) \/ Respond(p)
      PROVE  UNCHANGED Query!vars
  <2>1. /\ UNCHANGED <<pick, stmt>>
        /\ \A q \in Picks : (server'[q] = "none") = (server[q] = "none")
    BY <1>0, <1>3 DEF Receive, Disconnect, DeadlinePasses, Respond, TypeOK
  <2> QED BY <1>1, <2>1
<1>4. ASSUME NEW p \in Picks, AdapterStep(p) \/ CancelPollFails(p) \/ Body(p)
      PROVE  UNCHANGED Query!vars
  <2>1. UNCHANGED <<pick, stmt, server>>
    BY <1>4 DEF AdapterStep, RequestFails, SubmitHeaders, PollHeaders, Collect, PostCancel,
                CancelPoll, CancelPollFails, Body, Turn
  <2> QED BY <1>1, <2>1
<1> QED BY <1>2, <1>3, <1>4, BrowserMaps, WarehouseMaps DEF Next

(* The bridge, its adapters, deadlines and cancellations implement         *)
(* RemoteQuery: every behaviour, seen through the mapping, is one of a     *)
(* query that is asked at most once and answered with finished work only.  *)
THEOREM ImplementsRemoteQuery == Spec => ReadsRemotely
<1>1. IInv /\ [Next]_vars => [Query!Next]_Query!vars
  BY NextMaps
<1> QED BY <1>1, InitMaps, Invariant, PTL DEF Spec, ReadsRemotely, Query!Spec
=============================================================================
