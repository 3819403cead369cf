----------------------------- MODULE AgentSession -----------------------------
(***************************************************************************)
(* Agent access to one tab: the grants, in-flight requests and activity    *)
(* ledger of AgentSession (src/core/agent/session.ts), a v3 invocation     *)
(* from dispatchV3 to its result (src/lazy/agent-surface.ts and            *)
(* src/core/agent/registry-v3.ts), and the shell that moves the workspace  *)
(* epoch (src/ui/agent-bridge.ts, called from src/main.ts).                *)
(*                                                                         *)
(* resetAgentAccess moves the epoch and syncs the session in one step, so  *)
(* the syncEpoch at the head of every other operation finds nothing to do; *)
(* a session that does not exist yet starts at the epoch of that moment.   *)
(***************************************************************************)
EXTENDS Naturals, Sequences, FiniteSets

CONSTANTS
  Calls,          (* invocations of window.naklidata.v3.invoke             *)
  ActivityLimit,  (* AgentSession.activityLimit                            *)
  MaxEpoch        (* bound: how often the access is reset                  *)

ASSUME LimitAssumption == ActivityLimit \in Nat \ {0}
ASSUME BoundAssumption == MaxEpoch \in Nat

VARIABLES
  grants,      (* AgentSession.grants, metadata:read left out              *)
  activity,    (* AgentSession.activity, newest first                      *)
  inFlight,    (* AgentSession.inFlight                                    *)
  epoch,       (* AgentSession.epoch = _workspaceEpoch                     *)
  calls,       (* the invocations and their AbortControllers               *)
  workspace,   (* which workspace the workbook and notebook hold           *)
  creating,    (* session-new awaits createSession                         *)
  grantedIn,   (* what was on screen when a scope was granted              *)
  cells        (* proposals added to the notebook                          *)

session == <<grants, activity, inFlight, epoch>>
shell   == <<workspace, creating>>
vars    == <<session, calls, shell, grantedIn, cells>>

Sensitive == {"values:read", "workspace:propose"}
Scopes    == Sensitive \cup {"metadata:read"}
Outcomes  == {"none", "ok", "error", "cancelled", "workspace_changed", "denied"}

(* A workspace on screen, and whether it is about to be left for a session *)
(* that is being created.                                                  *)
Screen == [workspace: Nat, leaving: BOOLEAN]

Call  == [pc: {"idle", "running", "ready", "done"}, scope: Scopes,
          epoch: Nat, armed: BOOLEAN, aborted: BOOLEAN, failed: BOOLEAN,
          began: Screen, read: Nat, ended: Nat, outcome: Outcomes]
Entry == [call: Calls, scope: Scopes, outcome: Outcomes, epoch: Nat]
Cell  == [call: Calls, workspace: Nat, granted: BOOLEAN]

TypeOK ==
  /\ grants \subseteq Sensitive
  /\ activity \in Seq(Entry) /\ Len(activity) <= ActivityLimit
  /\ inFlight \subseteq Calls
  /\ epoch \in Nat /\ workspace \in Nat
  /\ calls \in [Calls -> Call]
  /\ creating \in BOOLEAN
  /\ grantedIn \in [Sensitive -> Screen]
  /\ cells \subseteq Cell

OnScreen == [workspace |-> workspace, leaving |-> creating]

Has(scope) == scope = "metadata:read" \/ scope \in grants

(* record: newest first, cut at the limit. *)
Record(entry) ==
  activity' = <<entry>> \o SubSeq(activity, 1,
                IF Len(activity) < ActivityLimit THEN Len(activity)
                ELSE ActivityLimit - 1)

(* AbortController.abort, with the deadline cleared. *)
AbortDisarms(cs) ==
  \* Mutant: only the deadline is cleared.
  [c \in Calls |-> IF c \in cs THEN [calls[c] EXCEPT !.armed = FALSE]
                   ELSE calls[c]]

Abort(cs) ==
  [c \in Calls |-> IF c \in cs
                   THEN [calls[c] EXCEPT !.armed = FALSE, !.aborted = TRUE]
                   ELSE calls[c]]

(***************************************************************************)
(* The user, in Settings -> Agent access.                                  *)
(***************************************************************************)

Grant(scope) ==
  /\ grants' = grants \cup {scope}
  /\ grantedIn' = [grantedIn EXCEPT ![scope] = OnScreen]
  /\ UNCHANGED <<activity, inFlight, epoch, calls, shell, cells>>

WithdrawOnly(scope) ==
  \* Mutant: what is in flight goes on.
  /\ grants' = grants \ {scope}
  /\ UNCHANGED <<activity, inFlight, epoch, calls, shell, grantedIn, cells>>

(* setGrant(scope, false), with abortScope. *)
Withdraw(scope) ==
  /\ grants' = grants \ {scope}
  /\ calls' = Abort({c \in inFlight : calls[c].scope = scope})
  /\ UNCHANGED <<activity, inFlight, epoch, shell, grantedIn, cells>>

(* revokeAll, with abortAll: metadata requests are aborted too. *)
RevokeAll ==
  /\ grants' = {}
  /\ calls' = Abort(inFlight)
  /\ UNCHANGED <<activity, inFlight, epoch, shell, grantedIn, cells>>

(***************************************************************************)
(* An invocation.                                                          *)
(***************************************************************************)

(* begin: a request with its deadline, or a denied entry.  The dispatcher  *)
(* has read workspaceRevision just before: it is the epoch.                *)
Begin(c, scope) ==
  /\ calls[c].pc = "idle"
  /\ IF Has(scope)
     THEN /\ inFlight' = inFlight \cup {c}
          /\ calls' = [calls EXCEPT ![c] =
                         [@ EXCEPT !.pc = "running", !.scope = scope,
                                   !.epoch = epoch, !.armed = TRUE,
                                   !.began = OnScreen]]
          /\ UNCHANGED activity
     ELSE /\ Record([call |-> c, scope |-> scope, outcome |-> "denied",
                     epoch |-> epoch])
          /\ calls' = [calls EXCEPT ![c] =
                         [@ EXCEPT !.pc = "done", !.scope = scope,
                                   !.epoch = epoch, !.outcome = "denied"]]
          /\ UNCHANGED inFlight
  /\ UNCHANGED <<grants, epoch, shell, grantedIn, cells>>

(* The requestDeadlineMs timer fires. *)
Deadline(c) ==
  /\ calls[c].armed
  /\ calls' = [calls EXCEPT ![c] = [@ EXCEPT !.armed = FALSE, !.aborted = TRUE]]
  /\ UNCHANGED <<session, shell, grantedIn, cells>>

(* A metadata or value tool reads the live workspace and resolves, or      *)
(* throws: refused, rejected by DuckDB, or interrupted.                    *)
Read(c) ==
  /\ calls[c].pc = "running" /\ calls[c].scope # "workspace:propose"
  /\ \E failed \in BOOLEAN :
       calls' = [calls EXCEPT ![c] = [@ EXCEPT !.pc = "ready",
                                               !.read = workspace,
                                               !.failed = failed]]
  /\ UNCHANGED <<session, shell, grantedIn, cells>>

AddProposal(c) ==
  cells' = cells \cup {[call |-> c, workspace |-> workspace,
                        granted |-> "workspace:propose" \in grants]}

ProposeUnchecked(c) ==
  \* Mutant: the signal is not looked at again before the cell is added.
  /\ calls[c].pc = "running" /\ calls[c].scope = "workspace:propose"
  /\ AddProposal(c)
  /\ calls' = [calls EXCEPT ![c] = [@ EXCEPT !.pc = "ready", !.read = workspace]]
  /\ UNCHANGED <<session, shell, grantedIn>>

(* A proposal tool: validation that may await a chunk, abortIfNeeded, then *)
(* addCell and patchCell in the same step.                                 *)
Propose(c) ==
  /\ calls[c].pc = "running" /\ calls[c].scope = "workspace:propose"
  /\ \E failed \in BOOLEAN :
       /\ calls[c].aborted => failed
       /\ IF failed THEN UNCHANGED cells ELSE AddProposal(c)
       /\ calls' = [calls EXCEPT ![c] = [@ EXCEPT !.pc = "ready",
                                                  !.read = workspace,
                                                  !.failed = failed]]
  /\ UNCHANGED <<session, shell, grantedIn>>

(* What dispatchAgentV3Tool answers. *)
AnswerUnchecked(r) ==
  \* Mutant: neither the revision nor the signal is looked at afterwards.
  IF r.failed THEN "error" ELSE "ok"

Answer(r) ==
  IF r.epoch # epoch THEN "workspace_changed"
  ELSE IF r.aborted THEN "cancelled"
  ELSE IF r.failed THEN "error" ELSE "ok"

(* The answer, then request.finish: a request of an older epoch leaves no  *)
(* entry.                                                                  *)
Finish(c) ==
  LET r == calls[c]
  IN  /\ r.pc = "ready"
      /\ calls' = [calls EXCEPT ![c] =
                     [r EXCEPT !.pc = "done", !.armed = FALSE,
                               !.ended = workspace, !.outcome = Answer(r)]]
      /\ inFlight' = inFlight \ {c}
      /\ IF r.epoch # epoch
         THEN UNCHANGED activity
         ELSE Record([call |-> c, scope |-> r.scope, outcome |-> Answer(r),
                      epoch |-> r.epoch])
      /\ UNCHANGED <<grants, epoch, shell, grantedIn, cells>>

(***************************************************************************)
(* The shell.                                                              *)
(***************************************************************************)

ResetAgentAccessKeepsGrants ==
  \* Mutant: the grants survive the epoch.
  /\ epoch < MaxEpoch
  /\ epoch' = epoch + 1
  /\ inFlight' = {} /\ activity' = <<>> /\ grants' = grants
  /\ calls' = Abort(inFlight)
  /\ UNCHANGED <<grantedIn, cells>>

(* resetAgentAccess and the syncEpoch that it forces. *)
ResetAgentAccess ==
  /\ epoch < MaxEpoch
  /\ epoch' = epoch + 1
  /\ inFlight' = {} /\ activity' = <<>> /\ grants' = {}
  /\ calls' = Abort(inFlight)
  /\ UNCHANGED <<grantedIn, cells>>

(* The engine fails, or the page is hidden. *)
EngineFails == ResetAgentAccess /\ UNCHANGED shell

(* Switch or delete a session, open a file: the access is reset and the    *)
(* workbook and notebook are emptied in one step.                          *)
ReplaceWorkspace ==
  /\ ResetAgentAccess
  /\ workspace' = workspace + 1
  /\ UNCHANGED creating

(* New session: the access is reset before createSession is awaited, the   *)
(* workspace is emptied after it.                                          *)
NewSession ==
  /\ ~creating
  /\ ResetAgentAccess
  /\ creating' = TRUE
  /\ UNCHANGED workspace

SessionCreated ==
  /\ creating
  /\ creating' = FALSE
  /\ workspace' = workspace + 1
  /\ UNCHANGED <<session, calls, grantedIn, cells>>

(***************************************************************************)
(* The specification.                                                      *)
(***************************************************************************)

IdleCall == [pc |-> "idle", scope |-> "metadata:read", epoch |-> 0,
             armed |-> FALSE, aborted |-> FALSE, failed |-> FALSE,
             began |-> [workspace |-> 0, leaving |-> FALSE],
             read |-> 0, ended |-> 0, outcome |-> "none"]

Init ==
  /\ grants = {} /\ activity = <<>> /\ inFlight = {} /\ epoch = 0
  /\ calls = [c \in Calls |-> IdleCall]
  /\ workspace = 0 /\ creating = FALSE
  /\ grantedIn = [s \in Sensitive |-> OnScreen]
  /\ cells = {}

UserStep == \/ \E s \in Sensitive : Grant(s) \/ Withdraw(s)
            \/ RevokeAll

CallStep(c) ==
  \/ \E s \in Scopes : Begin(c, s)
  \/ Deadline(c) \/ Read(c) \/ Propose(c) \/ Finish(c)

ShellStep == EngineFails \/ ReplaceWorkspace \/ NewSession \/ SessionCreated

Next == UserStep \/ ShellStep \/ \E c \in Calls : CallStep(c)

Spec == Init /\ [][Next]_vars

(* Timers fire; nothing is assumed of tools, which may hang. *)
Fairness == \A c \in Calls : WF_vars(Deadline(c))
FairSpec == Spec /\ Fairness

(***************************************************************************)
(* Properties.                                                             *)
(***************************************************************************)

Working(c) == calls[c].pc \in {"running", "ready"}

(* Withdrawing a grant, revoking everything or replacing the workspace     *)
(* aborts what runs under it: a request that has not been aborted holds a  *)
(* scope that is granted now.                                              *)
NoUngrantedWork ==
  \A c \in Calls : Working(c) /\ ~calls[c].aborted => Has(calls[c].scope)

(* The count the panel shows: the requests of this epoch that have not     *)
(* been answered.                                                          *)
InFlightExact ==
  inFlight = {c \in Calls : Working(c) /\ calls[c].epoch = epoch}

(* The ledger shows requests of the current workspace epoch only, however  *)
(* late an answer to an older one comes.                                   *)
ActivityOfEpoch ==
  \A i \in DOMAIN activity : activity[i].epoch = epoch

(* A proposal is only ever added while workspace:propose is granted.       *)
NoLateProposal == \A cell \in cells : cell.granted

(* What a request that succeeded has read, and the workspace on screen     *)
(* when it is answered, is the workspace it was made in.                   *)
Within(c) == /\ calls[c].read = calls[c].began.workspace
             /\ calls[c].ended = calls[c].began.workspace

NoCrossWorkspaceAnswer ==
  \A c \in Calls : calls[c].outcome = "ok" => Within(c)

(* So it is whenever the request was not made while a new session was      *)
(* being created: the epoch has moved before that await, and does not move *)
(* again when the workspace is emptied after it.                           *)
AnswerOfWorkspace ==
  \A c \in Calls :
    calls[c].outcome = "ok" /\ ~calls[c].began.leaving => Within(c)

(* A grant was given by a user looking at the workspace it now opens, with *)
(* the same exception.                                                     *)
GrantsOfWorkspace ==
  \A s \in grants :
    ~grantedIn[s].leaving => grantedIn[s].workspace = workspace

(* A tool that hangs does not hold its request open for ever.              *)
RequestsEnd ==
  \A c \in Calls : calls[c].pc = "running"
                     ~> calls[c].aborted \/ calls[c].pc = "done"
=============================================================================
