-------------------------- MODULE AgentSession_proofs --------------------------
(***************************************************************************)
(* Proofs about AgentSession, for any number of invocations, any activity  *)
(* limit and any number of replaced workspaces.                            *)
(***************************************************************************)
EXTENDS AgentSession, TLAPS

(* No invocation is of a later epoch, and one of an earlier epoch that     *)
(* still works has been aborted.                                           *)
OldAborted ==
  \A c \in Calls :
    /\ calls[c].epoch <= epoch
    /\ Working(c) /\ calls[c].epoch # epoch => calls[c].aborted

IInv ==
  /\ TypeOK
  /\ InFlightExact
  /\ OldAborted
  /\ NoUngrantedWork
  /\ ActivityOfEpoch
  /\ NoLateProposal

-----------------------------------------------------------------------------
(* Operators. *)

(* record keeps the ledger a sequence of entries within its limit, and     *)
(* adds the given entry only.                                              *)
LEMMA RecordBounds ==
  ASSUME activity \in Seq(Entry), Len(activity) <= ActivityLimit,
         NEW entry \in Entry, Record(entry)
  PROVE  /\ activity' \in Seq(Entry)
         /\ Len(activity') <= ActivityLimit
         /\ \A i \in DOMAIN activity' :
              \/ activity'[i] = entry
              \/ \E j \in DOMAIN activity : activity'[i] = activity[j]
<1> DEFINE n    == IF Len(activity) < ActivityLimit THEN Len(activity)
                   ELSE ActivityLimit - 1
           kept == SubSeq(activity, 1, n)
<1>1. ActivityLimit \in Nat \ {0} /\ Len(activity) \in Nat
  BY LimitAssumption
<1>2. n \in Nat /\ n <= Len(activity) /\ n < ActivityLimit
  BY <1>1
<1>3. kept \in Seq(Entry) /\ Len(kept) = n
  BY <1>2
<1>4. \A j \in 1..n : kept[j] = activity[j] /\ j \in DOMAIN activity
  BY <1>1, <1>2
<1>5. activity' = <<entry>> \o kept
  BY DEF Record
<1> HIDE DEF n, kept
<1>6. <<entry>> \in Seq(Entry) /\ Len(<<entry>>) = 1
  OBVIOUS
<1>7. activity' \in Seq(Entry) /\ Len(activity') = n + 1
  BY <1>2, <1>3, <1>5, <1>6
<1>8. ASSUME NEW i \in DOMAIN activity'
      PROVE  \/ activity'[i] = entry
             \/ \E j \in DOMAIN activity : activity'[i] = activity[j]
  <2>1. i \in 1..(n + 1)
    BY <1>7
  <2>2. CASE i = 1
    BY <1>3, <1>5, <2>2
  <2>3. CASE i # 1
    <3>1. i - 1 \in 1..n /\ activity'[i] = kept[i - 1]
      BY <1>2, <1>3, <1>5, <2>1, <2>3
    <3> QED BY <1>4, <3>1
  <2> QED BY <2>2, <2>3
<1> QED BY <1>1, <1>2, <1>7, <1>8

(* Aborting keeps an invocation an invocation and changes nothing but its  *)
(* controller and its timer.                                               *)
LEMMA AbortEffect ==
  ASSUME calls \in [Calls -> Call], NEW cs
  PROVE  /\ Abort(cs) \in [Calls -> Call]
         /\ \A c \in Calls :
              /\ Abort(cs)[c].pc = calls[c].pc
              /\ Abort(cs)[c].scope = calls[c].scope
              /\ Abort(cs)[c].epoch = calls[c].epoch
              /\ Abort(cs)[c].aborted = (calls[c].aborted \/ c \in cs)
              /\ Abort(cs)[c].began = calls[c].began
              /\ Abort(cs)[c].read = calls[c].read
              /\ Abort(cs)[c].ended = calls[c].ended
              /\ Abort(cs)[c].outcome = calls[c].outcome
BY ZenonT(60) DEF Abort, Call

-----------------------------------------------------------------------------
(* The invariant. *)

LEMMA InitInv == Init => IInv
<1> SUFFICES ASSUME Init PROVE IInv
  OBVIOUS
<1>1. IdleCall \in Call
  BY DEF IdleCall, Call, Scopes, Outcomes, Screen
<1>2. TypeOK
  <2>1. activity \in Seq(Entry) /\ Len(activity) <= ActivityLimit
    BY LimitAssumption DEF Init
  <2>2. calls \in [Calls -> Call]
    BY <1>1 DEF Init
  <2>3. grantedIn \in [Sensitive -> Screen]
    BY DEF Init, OnScreen, Screen
  <2> QED BY <2>1, <2>2, <2>3 DEF Init, TypeOK
<1>3. \A c \in Calls : ~Working(c) /\ calls[c].epoch = 0
  BY DEF Init, Working, IdleCall
<1>4. InFlightExact /\ OldAborted /\ NoUngrantedWork
  BY <1>3 DEF Init, InFlightExact, OldAborted, NoUngrantedWork
<1>5. ActivityOfEpoch /\ NoLateProposal
  BY DEF Init, ActivityOfEpoch, NoLateProposal
<1> QED BY <1>2, <1>4, <1>5 DEF IInv

(* The part of the invariant that speaks of the invocations holds again    *)
(* when some are aborted and neither the epoch nor the in-flight map       *)
(* changes, as long as the aborted ones hold what was withdrawn.           *)
LEMMA AbortInv ==
  ASSUME IInv, NEW cs, calls' = Abort(cs),
         UNCHANGED <<activity, inFlight, epoch, shell, grantedIn, cells>>,
         grants' \in SUBSET Sensitive,
         \A c \in inFlight \ cs : Has(calls[c].scope) => Has(calls[c].scope)'
  PROVE  IInv'
<1> USE DEF IInv, shell
<1>1. calls \in [Calls -> Call]
  BY DEF TypeOK
<1>2. \A c \in Calls : /\ Working(c)' = Working(c)
                       /\ calls'[c].epoch = calls[c].epoch
                       /\ calls'[c].scope = calls[c].scope
                       /\ calls'[c].aborted = (calls[c].aborted \/ c \in cs)
  BY <1>1, AbortEffect DEF Working
<1>3. TypeOK'
  BY <1>1, AbortEffect DEF TypeOK
<1>4. InFlightExact'
  BY <1>2 DEF InFlightExact
<1>5. OldAborted'
  BY <1>2 DEF OldAborted
<1>6. NoUngrantedWork'
  <2> SUFFICES ASSUME NEW c \in Calls, Working(c)', ~calls'[c].aborted
               PROVE  Has(calls[c].scope)'
    BY DEF NoUngrantedWork
  <2>1. Working(c) /\ ~calls[c].aborted /\ c \notin cs
    BY <1>2
  <2>2. c \in inFlight /\ Has(calls[c].scope)
    BY <2>1 DEF OldAborted, InFlightExact, NoUngrantedWork
  <2> QED BY <1>2, <2>1, <2>2 DEF Has
<1>7. ActivityOfEpoch' /\ NoLateProposal'
  BY DEF ActivityOfEpoch, NoLateProposal
<1> QED BY <1>3, <1>4, <1>5, <1>6, <1>7

LEMMA GrantInv == ASSUME IInv, NEW s \in Sensitive, Grant(s) PROVE IInv'
<1> USE DEF IInv, Grant, shell
<1>1. TypeOK'
  <2>1. OnScreen \in Screen
    BY DEF TypeOK, OnScreen, Screen
  <2> QED BY <2>1 DEF TypeOK
<1>2. NoUngrantedWork'
  BY DEF NoUngrantedWork, Working, Has
<1>3. InFlightExact' /\ OldAborted' /\ ActivityOfEpoch' /\ NoLateProposal'
  BY DEF InFlightExact, OldAborted, ActivityOfEpoch, NoLateProposal, Working
<1> QED BY <1>1, <1>2, <1>3

LEMMA WithdrawInv == ASSUME IInv, NEW s \in Sensitive, Withdraw(s) PROVE IInv'
<1> DEFINE cs == {c \in inFlight : calls[c].scope = s}
<1>1. calls' = Abort(cs) /\ grants' = grants \ {s}
  BY DEF Withdraw
<1>2. grants' \in SUBSET Sensitive
  BY <1>1 DEF IInv, TypeOK
<1>3. \A c \in inFlight \ cs : Has(calls[c].scope) =>
        calls'[c].scope = "metadata:read" \/ calls'[c].scope \in grants'
  BY <1>1, AbortEffect DEF Has, IInv, TypeOK
<1> HIDE DEF cs
<1> QED BY <1>1, <1>2, <1>3, AbortInv DEF Withdraw, Has

LEMMA RevokeAllInv == ASSUME IInv, RevokeAll PROVE IInv'
<1>1. grants' \in SUBSET Sensitive
  BY DEF RevokeAll
<1> QED BY <1>1, AbortInv DEF RevokeAll

(* A step of one invocation that keeps its scope, its epoch and whether it *)
(* still works, and does not take an abort back.                           *)
LEMMA LocalInv ==
  ASSUME IInv, NEW c \in Calls, NEW r \in Call,
         calls' = [calls EXCEPT ![c] = r],
         r.epoch = calls[c].epoch, r.scope = calls[c].scope,
         r.pc \in {"running", "ready"} <=> Working(c),
         calls[c].aborted => r.aborted,
         UNCHANGED <<session, shell, grantedIn>>,
         cells' \subseteq Cell, NoLateProposal'
  PROVE  IInv'
<1> USE DEF IInv, session, shell
<1>1. calls' \in [Calls -> Call] /\ calls'[c] = r
  BY DEF TypeOK
<1>2. \A d \in Calls : d # c => calls'[d] = calls[d]
  BY DEF TypeOK
<1>3. \A d \in Calls : /\ Working(d)' <=> Working(d)
                       /\ calls'[d].epoch = calls[d].epoch
                       /\ calls'[d].scope = calls[d].scope
                       /\ calls[d].aborted => calls'[d].aborted
  BY <1>1, <1>2 DEF Working
<1>4. TypeOK'
  BY <1>1 DEF TypeOK
<1>5. InFlightExact'
  BY <1>3 DEF InFlightExact
<1>6. OldAborted'
  BY <1>3 DEF OldAborted
<1>7. NoUngrantedWork'
  BY <1>3 DEF NoUngrantedWork, Has
<1>8. ActivityOfEpoch'
  BY DEF ActivityOfEpoch
<1> QED BY <1>4, <1>5, <1>6, <1>7, <1>8

LEMMA DeadlineInv == ASSUME IInv, NEW c \in Calls, Deadline(c) PROVE IInv'
<1> DEFINE r == [calls[c] EXCEPT !.armed = FALSE, !.aborted = TRUE]
<1>1. calls[c] \in Call
  BY DEF IInv, TypeOK
<1>2. /\ r \in Call
      /\ r.epoch = calls[c].epoch /\ r.scope = calls[c].scope
      /\ r.pc = calls[c].pc /\ r.aborted
  BY <1>1 DEF Call
<1>3. calls' = [calls EXCEPT ![c] = r] /\ UNCHANGED <<session, shell, grantedIn, cells>>
  BY DEF Deadline
<1>4. cells' \subseteq Cell /\ NoLateProposal'
  BY <1>3 DEF IInv, TypeOK, NoLateProposal
<1> HIDE DEF r
<1> QED BY <1>2, <1>3, <1>4, LocalInv DEF Working

LEMMA ReadInv == ASSUME IInv, NEW c \in Calls, Read(c) PROVE IInv'
<1>1. PICK failed \in BOOLEAN :
        calls' = [calls EXCEPT ![c] = [@ EXCEPT !.pc = "ready",
                                                !.read = workspace,
                                                !.failed = failed]]
  BY DEF Read
<1> DEFINE r == [calls[c] EXCEPT !.pc = "ready", !.read = workspace,
                                 !.failed = failed]
<1>2. calls[c] \in Call /\ workspace \in Nat
  BY DEF IInv, TypeOK
<1>3. /\ r \in Call
      /\ r.epoch = calls[c].epoch /\ r.scope = calls[c].scope
      /\ r.pc = "ready" /\ r.aborted = calls[c].aborted
  BY <1>2 DEF Call
<1>4. /\ calls' = [calls EXCEPT ![c] = r] /\ calls[c].pc = "running"
      /\ UNCHANGED <<session, shell, grantedIn, cells>>
  BY <1>1 DEF Read
<1>5. cells' \subseteq Cell /\ NoLateProposal'
  BY <1>4 DEF IInv, TypeOK, NoLateProposal
<1> HIDE DEF r
<1> QED BY <1>3, <1>4, <1>5, LocalInv DEF Working

(* abortIfNeeded stands in the step that adds the cell: a request that has *)
(* not been aborted still holds its grant.                                 *)
LEMMA ProposeInv == ASSUME IInv, NEW c \in Calls, Propose(c) PROVE IInv'
<1>1. PICK failed \in BOOLEAN :
        /\ calls[c].aborted => failed
        /\ IF failed THEN UNCHANGED cells ELSE AddProposal(c)
        /\ calls' = [calls EXCEPT ![c] = [@ EXCEPT !.pc = "ready",
                                                   !.read = workspace,
                                                   !.failed = failed]]
  BY DEF Propose
<1> DEFINE r == [calls[c] EXCEPT !.pc = "ready", !.read = workspace,
                                 !.failed = failed]
<1>2. /\ calls[c] \in Call /\ workspace \in Nat /\ cells \subseteq Cell
      /\ calls[c].pc = "running" /\ calls[c].scope = "workspace:propose"
      /\ UNCHANGED <<session, shell, grantedIn>>
  BY DEF IInv, TypeOK, Propose
<1>3. /\ r \in Call
      /\ r.epoch = calls[c].epoch /\ r.scope = calls[c].scope
      /\ r.pc = "ready" /\ r.aborted = calls[c].aborted
  BY <1>2 DEF Call
<1>4. cells' \subseteq Cell /\ NoLateProposal'
  <2>1. CASE failed
    BY <1>1, <1>2, <2>1 DEF IInv, NoLateProposal
  <2>2. CASE ~failed
    <3> DEFINE cell == [call |-> c, workspace |-> workspace, granted |-> TRUE]
    <3>1. ~calls[c].aborted /\ Working(c)
      BY <1>1, <1>2, <2>2 DEF Working
    <3>2. "workspace:propose" \in grants
      BY <1>2, <3>1 DEF IInv, NoUngrantedWork, Has
    <3>3. cells' = cells \cup {cell}
      BY <1>1, <2>2, <3>2, Zenon DEF AddProposal
    <3>4. cell \in Cell /\ cell.granted
      BY <1>2 DEF Cell
    <3> HIDE DEF cell
    <3> QED BY <1>2, <3>3, <3>4 DEF NoLateProposal, IInv
  <2> QED BY <2>1, <2>2
<1>5. calls' = [calls EXCEPT ![c] = r]
  BY <1>1
<1> HIDE DEF r
<1> QED BY <1>2, <1>3, <1>4, <1>5, LocalInv DEF Working

(* A ledger entry of this epoch keeps the ledger one of this epoch. *)
LEMMA RecordEpoch ==
  ASSUME TypeOK, ActivityOfEpoch, epoch' = epoch,
         NEW entry \in Entry, entry.epoch = epoch, Record(entry)
  PROVE  /\ activity' \in Seq(Entry) /\ Len(activity') <= ActivityLimit
         /\ ActivityOfEpoch'
BY RecordBounds DEF TypeOK, ActivityOfEpoch

(* A request begins under a scope that is granted, in the current epoch. *)
LEMMA BeginInv ==
  ASSUME IInv, NEW c \in Calls, NEW s \in Scopes, Begin(c, s)
  PROVE  IInv'
<1>1. /\ calls \in [Calls -> Call] /\ calls[c] \in Call /\ epoch \in Nat
      /\ workspace \in Nat /\ calls[c].pc = "idle" /\ inFlight \subseteq Calls
      /\ UNCHANGED <<grants, epoch, workspace, creating, grantedIn, cells>>
  BY DEF IInv, TypeOK, Begin, shell
<1> OnScreen \in Screen
  BY DEF IInv, TypeOK, OnScreen, Screen
<1>2. NoLateProposal' /\ cells' \subseteq Cell
  BY <1>1 DEF IInv, TypeOK, NoLateProposal
<1>3. ~Working(c)
  BY <1>1 DEF Working
<1>4. CASE Has(s)
  <2> DEFINE r == [calls[c] EXCEPT !.pc = "running", !.scope = s,
                                   !.epoch = epoch, !.armed = TRUE,
                                   !.began = OnScreen]
  <2>1. r \in Call /\ r.pc = "running" /\ r.scope = s /\ r.epoch = epoch
    BY <1>1 DEF Call
  <2>2. /\ calls' = [calls EXCEPT ![c] = r]
        /\ inFlight' = inFlight \cup {c} /\ activity' = activity
    BY <1>4 DEF Begin
  <2> HIDE DEF r
  <2>3. calls' \in [Calls -> Call] /\ calls'[c] = r
    BY <1>1, <2>1, <2>2
  <2>4. \A d \in Calls : d # c => calls'[d] = calls[d]
    BY <1>1, <2>2
  <2>5. TypeOK'
    BY <1>1, <1>2, <2>2, <2>3 DEF IInv, TypeOK
  <2>6. InFlightExact'
    BY <1>1, <2>1, <2>2, <2>3, <2>4 DEF IInv, InFlightExact, Working
  <2>7. OldAborted'
    BY <1>1, <2>1, <2>3, <2>4 DEF IInv, OldAborted, Working
  <2>8. NoUngrantedWork'
    BY <1>1, <1>4, <2>1, <2>3, <2>4 DEF IInv, NoUngrantedWork, Working, Has
  <2>9. ActivityOfEpoch'
    BY <1>1, <2>2 DEF IInv, ActivityOfEpoch
  <2> QED BY <1>2, <2>5, <2>6, <2>7, <2>8, <2>9 DEF IInv
<1>5. CASE ~Has(s)
  <2> DEFINE r == [calls[c] EXCEPT !.pc = "done", !.scope = s,
                                   !.epoch = epoch, !.outcome = "denied"]
             e == [call |-> c, scope |-> s, outcome |-> "denied",
                   epoch |-> epoch]
  <2>1. r \in Call /\ r.pc = "done" /\ r.epoch = epoch
    BY <1>1 DEF Call, Outcomes
  <2>2. e \in Entry /\ e.epoch = epoch
    BY <1>1 DEF Entry, Outcomes
  <2>3. /\ calls' = [calls EXCEPT ![c] = r]
        /\ inFlight' = inFlight /\ Record(e)
    BY <1>5 DEF Begin
  <2> HIDE DEF r, e
  <2>4. calls' \in [Calls -> Call] /\ calls'[c] = r
    BY <1>1, <2>1, <2>3
  <2>5. \A d \in Calls : d # c => calls'[d] = calls[d]
    BY <1>1, <2>3
  <2>6. /\ activity' \in Seq(Entry) /\ Len(activity') <= ActivityLimit
        /\ ActivityOfEpoch'
    BY <1>1, <2>2, <2>3, RecordEpoch DEF IInv
  <2>7. TypeOK'
    BY <1>1, <1>2, <2>3, <2>4, <2>6 DEF IInv, TypeOK
  <2>8. InFlightExact'
    BY <1>1, <1>3, <2>1, <2>3, <2>4, <2>5 DEF IInv, InFlightExact, Working
  <2>9. OldAborted' /\ NoUngrantedWork'
    BY <1>1, <2>1, <2>4, <2>5
    DEF IInv, OldAborted, NoUngrantedWork, Working, Has
  <2> QED BY <1>2, <2>6, <2>7, <2>8, <2>9 DEF IInv
<1> QED BY <1>4, <1>5

(* finish takes the request out of the map, and leaves an entry only when  *)
(* the request is of the current epoch.                                    *)
LEMMA FinishInv == ASSUME IInv, NEW c \in Calls, Finish(c) PROVE IInv'
<1> DEFINE a == Answer(calls[c])
           r == [calls[c] EXCEPT !.pc = "done", !.armed = FALSE,
                                 !.ended = workspace, !.outcome = a]
           e == [call |-> c, scope |-> calls[c].scope, outcome |-> a,
                 epoch |-> calls[c].epoch]
<1>1. /\ calls \in [Calls -> Call] /\ calls[c] \in Call /\ epoch \in Nat
      /\ workspace \in Nat /\ inFlight \subseteq Calls /\ calls[c].pc = "ready"
      /\ UNCHANGED <<grants, epoch, workspace, creating, grantedIn, cells>>
  BY DEF IInv, TypeOK, Finish, shell
<1>2. a \in Outcomes
  BY DEF Answer, Outcomes
<1>3. /\ calls' = [calls EXCEPT ![c] = r]
      /\ inFlight' = inFlight \ {c}
      /\ IF calls[c].epoch # epoch THEN UNCHANGED activity ELSE Record(e)
  BY DEF Finish
<1> HIDE DEF a
<1>4. r \in Call /\ r.pc = "done" /\ r.epoch = calls[c].epoch
  BY <1>1, <1>2 DEF Call
<1>5. e \in Entry /\ e.epoch = calls[c].epoch
  BY <1>1, <1>2 DEF Call, Entry
<1> HIDE DEF r, e
<1>6. calls' \in [Calls -> Call] /\ calls'[c] = r
  BY <1>1, <1>3, <1>4
<1>7. \A d \in Calls : d # c => calls'[d] = calls[d]
  BY <1>1, <1>3
<1>8. /\ activity' \in Seq(Entry) /\ Len(activity') <= ActivityLimit
      /\ ActivityOfEpoch'
  <2>1. CASE calls[c].epoch # epoch
    BY <1>1, <1>3, <2>1 DEF IInv, TypeOK, ActivityOfEpoch
  <2>2. CASE calls[c].epoch = epoch
    BY <1>1, <1>3, <1>5, <2>2, RecordEpoch DEF IInv
  <2> QED BY <2>1, <2>2
<1>9. TypeOK' /\ NoLateProposal'
  BY <1>1, <1>3, <1>6, <1>8 DEF IInv, TypeOK, NoLateProposal
<1>10. InFlightExact'
  BY <1>1, <1>3, <1>4, <1>6, <1>7 DEF IInv, InFlightExact, Working
<1>11. OldAborted' /\ NoUngrantedWork'
  BY <1>1, <1>4, <1>6, <1>7
  DEF IInv, OldAborted, NoUngrantedWork, Working, Has
<1> QED BY <1>8, <1>9, <1>10, <1>11 DEF IInv

(* Moving the epoch aborts every request of the map, which holds every     *)
(* working request of the epoch that ends: only aborted ones work on.      *)
LEMMA ResetInv ==
  ASSUME IInv, ResetAgentAccess, workspace' \in Nat, creating' \in BOOLEAN
  PROVE  IInv'
<1> USE DEF ResetAgentAccess
<1>1. /\ calls \in [Calls -> Call] /\ epoch \in Nat /\ epoch' = epoch + 1
      /\ calls' = Abort(inFlight) /\ inFlight' = {} /\ activity' = <<>>
  BY DEF IInv, TypeOK
<1>2. \A c \in Calls : /\ Working(c)' = Working(c)
                       /\ calls'[c].epoch = calls[c].epoch
                       /\ calls'[c].aborted = (calls[c].aborted \/ c \in inFlight)
  BY <1>1, AbortEffect DEF Working
<1>3. \A c \in Calls : calls[c].epoch \in Nat /\ calls[c].epoch <= epoch
  BY <1>1 DEF IInv, OldAborted, Call
<1>4. \A c \in Calls : Working(c)' => calls'[c].aborted
  BY <1>2 DEF IInv, InFlightExact, OldAborted
<1>5. TypeOK'
  <2>1. Abort(inFlight) \in [Calls -> Call]
    BY <1>1, AbortEffect
  <2>2. activity' \in Seq(Entry) /\ Len(activity') <= ActivityLimit
    BY LimitAssumption
  <2> QED BY <1>1, <2>1, <2>2 DEF IInv, TypeOK
<1>6. InFlightExact'
  BY <1>1, <1>2, <1>3 DEF InFlightExact
<1>7. OldAborted' /\ NoUngrantedWork'
  BY <1>1, <1>2, <1>3, <1>4 DEF OldAborted, NoUngrantedWork
<1>8. ActivityOfEpoch' /\ NoLateProposal'
  BY <1>1 DEF IInv, ActivityOfEpoch, NoLateProposal
<1> QED BY <1>5, <1>6, <1>7, <1>8 DEF IInv

LEMMA SessionCreatedInv == ASSUME IInv, SessionCreated PROVE IInv'
<1> USE DEF IInv, SessionCreated, session
<1>1. TypeOK'
  <2>1. workspace \in Nat /\ workspace' = workspace + 1
    BY Zenon DEF TypeOK
  <2>2. creating' \in BOOLEAN
    BY Zenon
  <2>3. UNCHANGED <<grants, activity, inFlight, epoch, calls, grantedIn, cells>>
    BY Zenon
  <2> HIDE DEF SessionCreated
  <2> QED BY <2>1, <2>2, <2>3 DEF TypeOK
<1>2. InFlightExact' /\ OldAborted' /\ NoUngrantedWork'
  BY DEF InFlightExact, OldAborted, NoUngrantedWork, Working, Has
<1>3. ActivityOfEpoch' /\ NoLateProposal'
  BY DEF ActivityOfEpoch, NoLateProposal
<1> QED BY <1>1, <1>2, <1>3

LEMMA StutterInv == ASSUME IInv, UNCHANGED vars PROVE IInv'
BY DEF IInv, TypeOK, InFlightExact, OldAborted, NoUngrantedWork,
       ActivityOfEpoch, NoLateProposal, Working, Has, vars, session, shell

LEMMA NextInv == ASSUME IInv, [Next]_vars PROVE IInv'
<1>1. CASE UserStep
  BY <1>1, GrantInv, WithdrawInv, RevokeAllInv DEF UserStep
<1>2. CASE \E c \in Calls : CallStep(c)
  BY <1>2, BeginInv, DeadlineInv, ReadInv, ProposeInv, FinishInv DEF CallStep
<1>3. CASE ShellStep
  <2>1. workspace \in Nat /\ creating \in BOOLEAN
    BY DEF IInv, TypeOK
  <2>2. CASE EngineFails
    BY <2>1, <2>2, ResetInv DEF EngineFails, shell
  <2>3. CASE ReplaceWorkspace
    BY <2>1, <2>3, ResetInv DEF ReplaceWorkspace
  <2>4. CASE NewSession
    BY <2>1, <2>4, ResetInv DEF NewSession
  <2> QED BY <1>3, <2>2, <2>3, <2>4, SessionCreatedInv DEF ShellStep
<1> QED BY <1>1, <1>2, <1>3, StutterInv DEF Next

-----------------------------------------------------------------------------
(* The theorems. *)

LEMMA Invariant == Spec => []IInv
BY InitInv, NextInv, PTL DEF Spec

(* The types hold: in particular the ledger never outgrows its limit, and  *)
(* every in-flight id is an invocation.                                    *)
THEOREM TypeCorrect == Spec => []TypeOK
BY Invariant, PTL DEF IInv

(* setGrant, revokeAll and syncEpoch leave no request working under a      *)
(* scope that is not granted, unless it has been aborted.                  *)
THEOREM WithdrawnStops == Spec => []NoUngrantedWork
BY Invariant, PTL DEF IInv

(* The in-flight map is exactly the working requests of the current epoch, *)
(* and the ledger holds entries of that epoch only.                        *)
THEOREM PanelIsCurrent == Spec => [](InFlightExact /\ ActivityOfEpoch)
BY Invariant, PTL DEF IInv

(* A proposal cell is only ever added while workspace:propose is granted,  *)
(* although a request holds no grant of its own once it has begun.         *)
THEOREM ProposalsGranted == Spec => []NoLateProposal
BY Invariant, PTL DEF IInv

-----------------------------------------------------------------------------
(* Answers and grants of the workspace.                                    *)

(* A working request of the current epoch began in, and has read, the      *)
(* workspace on screen, and began while it was being left if it still is;  *)
(* unless it began then, a request that succeeded was answered in it.      *)
Coherent(c) ==
  /\ Working(c) /\ calls[c].epoch = epoch /\ ~calls[c].began.leaving
       => /\ ~creating
          /\ calls[c].began.workspace = workspace
          /\ calls[c].pc = "ready" => calls[c].read = workspace
  /\ calls[c].outcome = "ok"
       => /\ calls[c].pc = "done"
          /\ calls[c].began.leaving \/ Within(c)

WInv ==
  /\ creating => \A s \in grants : grantedIn[s].leaving
  /\ GrantsOfWorkspace
  /\ \A c \in Calls : Coherent(c)

LEMMA InitWInv == Init => WInv
BY DEF Init, WInv, GrantsOfWorkspace, Coherent, Working, IdleCall

(* Aborting disturbs no answer. *)
LEMMA AbortCoherent ==
  ASSUME IInv, WInv, NEW cs, calls' = Abort(cs),
         UNCHANGED <<epoch, workspace, creating>>
  PROVE  \A c \in Calls : Coherent(c)'
BY AbortEffect DEF IInv, TypeOK, WInv, Coherent, Working, Within

(* A new epoch has no request and no grant yet; what was answered stays    *)
(* answered.                                                               *)
LEMMA ResetWInv ==
  ASSUME IInv, WInv, ResetAgentAccess
  PROVE  WInv'
<1>1. /\ calls \in [Calls -> Call] /\ epoch \in Nat /\ epoch' = epoch + 1
      /\ calls' = Abort(inFlight) /\ grants' = {}
  BY DEF IInv, TypeOK, ResetAgentAccess
<1>2. \A c \in Calls : calls'[c].epoch # epoch'
  BY <1>1, AbortEffect DEF IInv, OldAborted, Call
<1>3. \A c \in Calls : Coherent(c)'
  BY <1>1, <1>2, AbortEffect DEF WInv, Coherent, Within
<1> QED BY <1>1, <1>3 DEF WInv, GrantsOfWorkspace

(* The workspace is emptied after the await: what works in the current     *)
(* epoch, and what has been granted in it, came while it was being left.   *)
LEMMA SessionCreatedWInv ==
  ASSUME IInv, WInv, SessionCreated
  PROVE  WInv'
<1>1. /\ creating /\ ~creating'
      /\ UNCHANGED <<grants, epoch, calls, grantedIn>>
  BY DEF SessionCreated, session
<1>2. \A c \in Calls : Coherent(c)'
  BY <1>1 DEF WInv, Coherent, Working, Within
<1> QED BY <1>1, <1>2 DEF WInv, GrantsOfWorkspace

(* A step of one invocation that leaves it coherent. *)
LEMMA LocalCoherent ==
  ASSUME IInv, WInv, NEW c \in Calls, NEW r \in Call,
         calls' = [calls EXCEPT ![c] = r],
         UNCHANGED <<grants, epoch, workspace, creating, grantedIn>>,
         r.pc \in {"running", "ready"} /\ r.epoch = epoch /\ ~r.began.leaving
           => /\ ~creating /\ r.began.workspace = workspace
              /\ r.pc = "ready" => r.read = workspace,
         r.outcome = "ok" => /\ r.pc = "done"
                             /\ \/ r.began.leaving
                                \/ /\ r.read = r.began.workspace
                                   /\ r.ended = r.began.workspace
  PROVE  WInv'
<1>1. calls'[c] = r /\ \A d \in Calls : d # c => calls'[d] = calls[d]
  BY DEF IInv, TypeOK
<1>2. Coherent(c)'
  BY <1>1 DEF Coherent, Working, Within
<1>3. \A d \in Calls : d # c => Coherent(d)'
  BY <1>1 DEF WInv, Coherent, Working, Within
<1> QED BY <1>2, <1>3 DEF WInv, GrantsOfWorkspace

(* The dispatcher looks at the revision and the signal after the tool: an  *)
(* answer is "ok" only within the epoch the request was made in.           *)
LEMMA CallWInv ==
  ASSUME IInv, WInv, NEW c \in Calls, CallStep(c)
  PROVE  WInv'
<1>1. /\ calls[c] \in Call /\ epoch \in Nat /\ workspace \in Nat
      /\ OnScreen \in Screen /\ Coherent(c)
  BY DEF IInv, TypeOK, WInv, OnScreen, Screen
<1>2. ASSUME NEW s \in Scopes, Begin(c, s) PROVE WInv'
  <2>1. calls[c].pc = "idle"
          /\ UNCHANGED <<grants, epoch, workspace, creating, grantedIn>>
    BY <1>2 DEF Begin, shell
  <2>2. CASE Has(s)
    <3> DEFINE r == [calls[c] EXCEPT !.pc = "running", !.scope = s,
                                     !.epoch = epoch, !.armed = TRUE,
                                     !.began = OnScreen]
    <3>1. r \in Call /\ r.pc = "running" /\ r.began = OnScreen
            /\ r.outcome = calls[c].outcome
      BY <1>1 DEF Call
    <3>2. calls' = [calls EXCEPT ![c] = r]
      BY <1>2, <2>2 DEF Begin
    <3>3. OnScreen.workspace = workspace /\ OnScreen.leaving = creating
      BY DEF OnScreen
    <3> HIDE DEF r
    <3> QED BY <1>1, <2>1, <3>1, <3>2, <3>3, LocalCoherent DEF Coherent
  <2>3. CASE ~Has(s)
    <3> DEFINE r == [calls[c] EXCEPT !.pc = "done", !.scope = s,
                                     !.epoch = epoch, !.outcome = "denied"]
    <3>1. r \in Call /\ r.pc = "done" /\ r.outcome = "denied"
      BY <1>1 DEF Call, Outcomes
    <3>2. calls' = [calls EXCEPT ![c] = r]
      BY <1>2, <2>3 DEF Begin
    <3> HIDE DEF r
    <3> QED BY <2>1, <3>1, <3>2, LocalCoherent
  <2> QED BY <2>2, <2>3
<1>3. CASE Deadline(c)
  <2> DEFINE r == [calls[c] EXCEPT !.armed = FALSE, !.aborted = TRUE]
  <2>1. /\ r \in Call /\ r.pc = calls[c].pc /\ r.epoch = calls[c].epoch
        /\ r.began = calls[c].began /\ r.read = calls[c].read
        /\ r.ended = calls[c].ended /\ r.outcome = calls[c].outcome
    BY <1>1 DEF Call
  <2>2. /\ calls' = [calls EXCEPT ![c] = r]
        /\ UNCHANGED <<grants, epoch, workspace, creating, grantedIn>>
    BY <1>3 DEF Deadline, session, shell
  <2> HIDE DEF r
  <2> QED BY <1>1, <2>1, <2>2, LocalCoherent DEF Coherent, Working, Within
<1>4. CASE Read(c) \/ Propose(c)
  <2>1. PICK failed \in BOOLEAN :
          calls' = [calls EXCEPT ![c] = [@ EXCEPT !.pc = "ready",
                                                  !.read = workspace,
                                                  !.failed = failed]]
    BY <1>4 DEF Read, Propose
  <2> DEFINE r == [calls[c] EXCEPT !.pc = "ready", !.read = workspace,
                                   !.failed = failed]
  <2>2. /\ r \in Call /\ r.pc = "ready" /\ r.epoch = calls[c].epoch
        /\ r.began = calls[c].began /\ r.read = workspace
        /\ r.outcome = calls[c].outcome
    BY <1>1 DEF Call
  <2>3. /\ calls' = [calls EXCEPT ![c] = r] /\ calls[c].pc = "running"
        /\ UNCHANGED <<grants, epoch, workspace, creating, grantedIn>>
    BY <1>4, <2>1 DEF Read, Propose, session, shell
  <2> HIDE DEF r
  <2> QED BY <1>1, <2>2, <2>3, LocalCoherent DEF Coherent, Working
<1>5. CASE Finish(c)
  <2> DEFINE a == Answer(calls[c])
             r == [calls[c] EXCEPT !.pc = "done", !.armed = FALSE,
                                   !.ended = workspace, !.outcome = a]
  <2>1. a \in Outcomes /\ (a = "ok" => calls[c].epoch = epoch)
    BY DEF Answer, Outcomes
  <2>2. /\ calls' = [calls EXCEPT ![c] = r] /\ calls[c].pc = "ready"
        /\ UNCHANGED <<grants, epoch, workspace, creating, grantedIn>>
    BY <1>5 DEF Finish, shell
  <2> HIDE DEF a
  <2>3. /\ r \in Call /\ r.pc = "done" /\ r.began = calls[c].began
        /\ r.read = calls[c].read /\ r.ended = workspace /\ r.outcome = a
    BY <1>1, <2>1 DEF Call
  <2> HIDE DEF r
  <2> QED BY <1>1, <2>1, <2>2, <2>3, LocalCoherent DEF Coherent, Working
<1> QED BY <1>2, <1>3, <1>4, <1>5 DEF CallStep

LEMMA NextWInv == ASSUME IInv, WInv, [Next]_vars PROVE WInv'
<1>1. ASSUME NEW s \in Sensitive, Grant(s) PROVE WInv'
  <2>1. /\ \A x \in grants' : grantedIn'[x] = IF x = s THEN OnScreen
                                               ELSE grantedIn[x]
        /\ \A x \in grants' : x = s \/ x \in grants
        /\ UNCHANGED <<epoch, calls, workspace, creating>>
    BY <1>1 DEF Grant, shell, IInv, TypeOK
  <2>2. OnScreen.workspace = workspace /\ OnScreen.leaving = creating
    BY DEF OnScreen
  <2>3. \A c \in Calls : Coherent(c)'
    BY <2>1 DEF WInv, Coherent, Working, Within
  <2> QED BY <2>1, <2>2, <2>3 DEF WInv, GrantsOfWorkspace
<1>2. ASSUME NEW s \in Sensitive, Withdraw(s) PROVE WInv'
  <2>1. /\ \E cs \in SUBSET Calls : calls' = Abort(cs)
        /\ UNCHANGED <<epoch, workspace, creating, grantedIn>>
        /\ grants' \subseteq grants
    BY <1>2 DEF Withdraw, shell, IInv, TypeOK
  <2> QED BY <2>1, AbortCoherent DEF WInv, GrantsOfWorkspace
<1>3. CASE RevokeAll
  <2>1. calls' = Abort(inFlight) /\ UNCHANGED <<epoch, workspace, creating>>
          /\ grants' = {}
    BY <1>3 DEF RevokeAll, shell
  <2> QED BY <2>1, AbortCoherent DEF WInv, GrantsOfWorkspace
<1>4. ASSUME NEW c \in Calls, CallStep(c) PROVE WInv'
  BY <1>4, CallWInv
<1>5. CASE EngineFails \/ ReplaceWorkspace \/ NewSession
  BY <1>5, ResetWInv DEF EngineFails, ReplaceWorkspace, NewSession
<1>6. CASE SessionCreated
  BY <1>6, SessionCreatedWInv
<1>7. CASE UNCHANGED vars
  BY <1>7 DEF WInv, GrantsOfWorkspace, Coherent, Working, Within, vars,
              session, shell
<1> QED BY <1>1, <1>2, <1>3, <1>4, <1>5, <1>6, <1>7
        DEF Next, UserStep, ShellStep

LEMMA WorkspaceInvariant == Spec => []WInv
<1>1. IInv /\ WInv /\ [Next]_vars => WInv'
  BY NextWInv
<1> QED BY <1>1, InitWInv, Invariant, PTL DEF Spec

(* A request that succeeds has read, and is answered in, the workspace it  *)
(* was made in, unless it was made while a new session was being created.  *)
THEOREM AnswersOfWorkspace == Spec => []AnswerOfWorkspace
<1>1. WInv => AnswerOfWorkspace
  BY DEF WInv, AnswerOfWorkspace, Coherent
<1> QED BY <1>1, WorkspaceInvariant, PTL

(* A grant opens the workspace it was given in front of, with the same     *)
(* exception.                                                              *)
THEOREM GrantsFollowWorkspace == Spec => []GrantsOfWorkspace
<1>1. WInv => GrantsOfWorkspace
  BY DEF WInv
<1> QED BY <1>1, WorkspaceInvariant, PTL
=============================================================================
