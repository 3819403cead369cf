-------------------------- MODULE WarehouseBridge --------------------------
(***************************************************************************)
(* Tables that are mounted through the compute bridge: the browser's mount *)
(* (mountComputeBridgeCatalog with lazy/bridge-client.ts), the bridge      *)
(* server (packages/compute-bridge/src/handler.ts), the Databricks and     *)
(* Snowflake adapters it runs (core/bridge/*.ts), and the statements at    *)
(* the warehouse.                                                          *)
(*                                                                         *)
(* The mount asks for one table after the other; a request whose client    *)
(* has given up goes on at the server, beside the next one.  Three clocks  *)
(* run: the client's deadline, the server's, and one per vendor request.   *)
(* An abort ends the await of a vendor request, not the request: what was  *)
(* posted may still arrive.  A vendor request has two awaits, headers and  *)
(* body; fetchWithDeadline takes its timer and its listener away between   *)
(* the two.                                                                *)
(*                                                                         *)
(* External: the network and the warehouse.  A posted statement starts     *)
(* late or never; a statement ends by itself or when it is cancelled; an   *)
(* answer reports the statement's state, or fails, or is garbled.          *)
(***************************************************************************)
EXTENDS Naturals

CONSTANTS
    Picks,    \* the tables that were picked, numbered in their order
    MaxPolls, \* config.maxPolls
    MayStall  \* an answer's body may never arrive in this instance

ASSUME PicksAssumption == Picks \subseteq Nat
ASSUME MaxPollsAssumption == MaxPolls \in Nat

VARIABLES
    vendor,  \* the configured adapter
    mount,   \* the browser's mount
    closed,  \* the dialog was closed: opts.signal is aborted
    pick,    \* pick[p]: how far the mount is with table p
    reply,   \* reply[p]: the server's response
    server,  \* server[p]: the handler of p's request
    signal,  \* signal[p]: the controller of withDeadline
    adapter, \* adapter[p]: the adapter's execute
    known,   \* known[p]: the adapter has the statement's handle
    polls,   \* polls[p]: the poll counter of the current loop
    post,    \* post[p]: the message that submits the statement
    stmt,    \* stmt[p]: the statement at the warehouse
    cancel   \* cancel[p]: the warehouse was asked to cancel it

browser == <<mount, closed, pick>>
bridge == <<server, signal, reply>>
execute == <<adapter, known, polls>>
warehouse == <<post, stmt, cancel>>
vars == <<vendor, browser, bridge, execute, warehouse>>

Outcomes == {"timeout", "cancelled", "failed", "unconfirmed"}
Ended == {"succeeded", "failed", "canceled"}
Awaits == {"submit", "submitBody", "poll", "pollBody", "collect", "cancel", "cancelPoll"}

TypeOK ==
    /\ vendor \in {"databricks", "snowflake"}
    /\ mount \in {"idle", "health", "loading", "mounted", "error"}
    /\ closed \in BOOLEAN
    /\ pick \in [Picks -> {"todo", "asking", "registering", "mounted", "failed"}]
    /\ reply \in [Picks -> {"none", "rows"} \cup Outcomes]
    /\ server \in [Picks -> {"none", "posted", "running", "ended"}]
    /\ signal \in [Picks -> {"open", "cancelled", "timeout"}]
    /\ adapter \in [Picks -> {"idle", "rows"} \cup Awaits \cup Outcomes]
    /\ known \in [Picks -> BOOLEAN]
    /\ polls \in [Picks -> 0..MaxPolls]
    /\ post \in [Picks -> {"none", "sent", "taken", "refused"}]
    /\ stmt \in [Picks -> {"none", "running"} \cup Ended]
    /\ cancel \in [Picks -> BOOLEAN]

Init ==
    /\ vendor \in {"databricks", "snowflake"}
    /\ mount = "idle"
    /\ closed = FALSE
    /\ pick = [p \in Picks |-> "todo"]
    /\ reply = [p \in Picks |-> "none"]
    /\ server = [p \in Picks |-> "none"]
    /\ signal = [p \in Picks |-> "open"]
    /\ adapter = [p \in Picks |-> "idle"]
    /\ known = [p \in Picks |-> FALSE]
    /\ polls = [p \in Picks |-> 0]
    /\ post = [p \in Picks |-> "none"]
    /\ stmt = [p \in Picks |-> "none"]
    /\ cancel = [p \in Picks |-> FALSE]

-----------------------------------------------------------------------------
(* The browser. *)

OpenMount ==
    /\ mount = "idle"
    /\ mount' = "health"
    /\ UNCHANGED <<vendor, closed, pick, bridge, execute, warehouse>>

(* Closing the dialog aborts the signal of the mount that is under way: the *)
(* request that is waited for is given up.                                 *)
CloseDialog ==
    /\ mount \in {"health", "loading"}
    /\ ~closed
    /\ closed' = TRUE
    /\ mount' = IF mount = "health" THEN "error" ELSE mount
    /\ pick' = [p \in Picks |-> IF pick[p] = "asking" THEN "failed" ELSE pick[p]]
    /\ reply' = [p \in Picks |-> IF pick[p] = "asking" THEN "none" ELSE reply[p]]
    /\ UNCHANGED <<vendor, server, signal, execute, warehouse>>

(* client.health: a bridge that is unreachable or not ready ends the mount. *)
Health ==
    /\ mount = "health"
    /\ mount' \in {"loading", "error"}
    /\ UNCHANGED <<vendor, closed, pick, bridge, execute, warehouse>>

(* client.queryTable: nothing is sent once the signal is aborted. *)
Ask(p) ==
    /\ mount = "loading"
    /\ pick[p] = "todo"
    /\ \A q \in Picks : q < p => pick[q] \in {"mounted", "failed"}
    /\ IF closed
       THEN /\ pick' = [pick EXCEPT ![p] = "failed"]
            /\ UNCHANGED server
       ELSE /\ pick' = [pick EXCEPT ![p] = "asking"]
            /\ server' = [server EXCEPT ![p] = "posted"]
    /\ UNCHANGED <<vendor, mount, closed, signal, reply, execute, warehouse>>

(* Mutant: the deadline starts when the server has taken the request. *)
GiveUpServed(p) ==
    /\ pick[p] = "asking"
    /\ server[p] # "posted"
    /\ pick' = [pick EXCEPT ![p] = "failed"]
    /\ reply' = [reply EXCEPT ![p] = "none"]
    /\ UNCHANGED <<vendor, mount, closed, server, signal, execute, warehouse>>

(* withResponse: the deadline or the network ends the await. *)
GiveUp(p) ==
    /\ pick[p] = "asking"
    /\ pick' = [pick EXCEPT ![p] = "failed"]
    /\ reply' = [reply EXCEPT ![p] = "none"]
    /\ UNCHANGED <<vendor, mount, closed, server, signal, execute, warehouse>>

(* Mutant: the status of the response is not looked at. *)
AnsweredAny(p) ==
    /\ pick[p] = "asking"
    /\ reply[p] # "none"
    /\ pick' = [pick EXCEPT ![p] = "registering"]
    /\ reply' = [reply EXCEPT ![p] = "none"]
    /\ UNCHANGED <<vendor, mount, closed, server, signal, execute, warehouse>>

(* postArrow: the response is read, and is rows or an error. *)
Answered(p) ==
    /\ pick[p] = "asking"
    /\ reply[p] # "none"
    /\ pick' = [pick EXCEPT ![p] = IF reply[p] = "rows" THEN "registering" ELSE "failed"]
    /\ reply' = [reply EXCEPT ![p] = "none"]
    /\ UNCHANGED <<vendor, mount, closed, server, signal, execute, warehouse>>

(* registerArrowBuffer and getRowCount. *)
Register(p) ==
    /\ pick[p] = "registering"
    /\ \E out \in {"mounted", "failed"} : pick' = [pick EXCEPT ![p] = out]
    /\ UNCHANGED <<vendor, mount, closed, bridge, execute, warehouse>>

(* What was mounted stays, whatever failed; nothing mounted is an error. *)
EndMount ==
    /\ mount = "loading"
    /\ \A p \in Picks : pick[p] \in {"mounted", "failed"}
    /\ mount' = IF \E p \in Picks : pick[p] = "mounted" THEN "mounted" ELSE "error"
    /\ UNCHANGED <<vendor, closed, pick, bridge, execute, warehouse>>

-----------------------------------------------------------------------------
(* The bridge server. *)

(* A response to a client that has given up goes nowhere. *)
Answer(p, code) == reply' = [reply EXCEPT ![p] = IF pick[p] = "asking" THEN code ELSE @]

(* The request arrives; origin, bearer, readiness, body, capabilities, then *)
(* withDeadline(..., backend.queryTable): the adapter validates the query  *)
(* and submits it.  A request refused, or aborted by then, runs nothing.   *)
Receive(p) ==
    /\ server[p] = "posted"
    /\ \/ /\ server' = [server EXCEPT ![p] = "running"]
          /\ adapter' = [adapter EXCEPT ![p] = "submit"]
          /\ post' = [post EXCEPT ![p] = "sent"]
          /\ UNCHANGED reply
       \/ /\ server' = [server EXCEPT ![p] = "ended"]
          /\ Answer(p, "failed")
          /\ UNCHANGED <<adapter, post>>
    /\ UNCHANGED <<vendor, browser, signal, known, polls, stmt, cancel>>

(* request.signal of a client that gave up; it may come at any time. *)
Disconnect(p) ==
    /\ server[p] = "running"
    /\ pick[p] = "failed"
    /\ signal[p] = "open"
    /\ signal' = [signal EXCEPT ![p] = "cancelled"]
    /\ UNCHANGED <<vendor, browser, server, reply, execute, warehouse>>

(* withDeadline's timer. *)
DeadlinePasses(p) ==
    /\ server[p] = "running"
    /\ signal[p] = "open"
    /\ signal' = [signal EXCEPT ![p] = "timeout"]
    /\ UNCHANGED <<vendor, browser, server, reply, execute, warehouse>>

(* An aborted controller renames every error the adapter ends with. *)
Reported(p) ==
    IF adapter[p] = "rows" \/ signal[p] = "open" THEN adapter[p] ELSE signal[p]

Respond(p) ==
    /\ server[p] = "running"
    /\ adapter[p] \in {"rows"} \cup Outcomes
    /\ server' = [server EXCEPT ![p] = "ended"]
    /\ Answer(p, Reported(p)) \/ (adapter[p] = "rows" /\ Answer(p, "failed"))
    /\ UNCHANGED <<vendor, browser, signal, execute, warehouse>>

-----------------------------------------------------------------------------
(* The adapter. *)

Goto(p, step) == adapter' = [adapter EXCEPT ![p] = step]

(* Mutant: the error is passed on at once. *)
FailAtOnce(p, handle, terminal) == Goto(p, "failed")

(* The catch of execute: a statement that may be running is cancelled. *)
Fail(p, handle, terminal) ==
    Goto(p, IF handle /\ ~terminal THEN "cancel" ELSE "failed")

(* Answers to a request that asks for the statement; kind "refused" has an *)
(* error status, "garbled" a body or a link that the adapter rejects.      *)
Answers(p) ==
    [kind : {IF stmt[p] \in Ended THEN stmt[p] ELSE "pending"}, handle : BOOLEAN]
        \cup [kind : {"refused"}, handle : {FALSE}]
        \cup [kind : {"garbled"}, handle : BOOLEAN]

(* Snowflake keeps a handle only of an answer that says pending. *)
SnowflakeKnows(p, a) == known[p] \/ (a.handle /\ a.kind \in {"pending", "garbled"})

(* Databricks requires the id in the answer to the submission. *)
DatabricksKnows(p, a) == known[p] \/ a.handle

Knows(p, a) == IF vendor = "snowflake" THEN SnowflakeKnows(p, a) ELSE DatabricksKnows(p, a)

(* Mutant: every terminal state has a result. *)
HasResultEnded(a) == a.kind \in Ended

HasResult(a) == a.kind = "succeeded"

(* One turn of the polling loop. *)
Turn(p, a) ==
    LET k == Knows(p, a)
        id == k \/ (vendor = "snowflake" /\ a.handle)
    IN  /\ known' = [known EXCEPT ![p] = k]
        /\ CASE HasResult(a) /\ id ->
                    Goto(p, "collect") /\ polls' = [polls EXCEPT ![p] = 0]
             [] a.kind = "pending" /\ id /\ polls[p] < MaxPolls ->
                    Goto(p, "poll") /\ polls' = [polls EXCEPT ![p] = @ + 1]
             [] OTHER -> Fail(p, k, a.kind \in Ended) /\ polls' = [polls EXCEPT ![p] = 0]
        /\ UNCHANGED <<vendor, browser, bridge, warehouse>>

(* The wait for the next poll is ended by the abort of the signal, and so  *)
(* is a vendor request that waits for headers, which also has a deadline   *)
(* of its own and a network that fails.                                    *)
RequestFails(p) ==
    /\ adapter[p] \in {"submit", "poll"}
    /\ Fail(p, known[p], FALSE)
    /\ polls' = [polls EXCEPT ![p] = 0]
    /\ UNCHANGED <<vendor, browser, bridge, known, warehouse>>

SubmitHeaders(p) ==
    /\ adapter[p] = "submit"
    /\ signal[p] = "open"
    /\ post[p] \in {"taken", "refused"}
    /\ Goto(p, "submitBody")
    /\ UNCHANGED <<vendor, browser, bridge, known, polls, warehouse>>

PollHeaders(p) ==
    /\ adapter[p] = "poll"
    /\ signal[p] = "open"
    /\ Goto(p, "pollBody")
    /\ UNCHANGED <<vendor, browser, bridge, known, polls, warehouse>>

(* The body: no clock runs and no signal is heard. *)
Body(p) ==
    \/ /\ adapter[p] = "submitBody"
       /\ \E a \in Answers(p) :
             /\ post[p] = "refused" => a.kind = "refused"
             /\ Turn(p, a)
    \/ /\ adapter[p] = "pollBody"
       /\ \E a \in Answers(p) : Turn(p, a)

(* collectResult: the statement is terminal, whatever the download does. *)
Collect(p) ==
    /\ adapter[p] = "collect"
    /\ Goto(p, "rows") \/ Fail(p, known[p], TRUE)
    /\ UNCHANGED <<vendor, browser, bridge, known, polls, warehouse>>

(* cancelToTerminal: the receipt is ignored, the statement polled. *)
PostCancel(p) ==
    /\ adapter[p] = "cancel"
    /\ \E arrives \in BOOLEAN : cancel' = [cancel EXCEPT ![p] = @ \/ (arrives /\ stmt[p] = "running")]
    /\ Goto(p, "cancelPoll")
    /\ UNCHANGED <<vendor, browser, bridge, known, polls, post, stmt>>

(* Mutant: polls until the statement is terminal. *)
CancelPollForever(p) ==
    /\ adapter[p] = "cancelPoll"
    /\ IF stmt[p] \in Ended THEN Goto(p, "failed") ELSE UNCHANGED adapter
    /\ UNCHANGED <<vendor, browser, bridge, known, polls, warehouse>>

CancelPoll(p) ==
    /\ adapter[p] = "cancelPoll"
    /\ IF stmt[p] \in Ended THEN Goto(p, "failed") /\ polls' = [polls EXCEPT ![p] = 0]
       ELSE IF polls[p] < MaxPolls
            THEN UNCHANGED adapter /\ polls' = [polls EXCEPT ![p] = @ + 1]
            ELSE Goto(p, "unconfirmed") /\ polls' = [polls EXCEPT ![p] = 0]
    /\ UNCHANGED <<vendor, browser, bridge, known, warehouse>>

CancelPollFails(p) ==
    /\ adapter[p] = "cancelPoll"
    /\ Goto(p, "unconfirmed")
    /\ polls' = [polls EXCEPT ![p] = 0]
    /\ UNCHANGED <<vendor, browser, bridge, known, warehouse>>

-----------------------------------------------------------------------------
(* The warehouse. *)

TakeStatement(p) ==
    /\ post[p] = "sent"
    /\ \/ post' = [post EXCEPT ![p] = "taken"] /\ stmt' = [stmt EXCEPT ![p] = "running"]
       \/ post' = [post EXCEPT ![p] = "refused"] /\ UNCHANGED stmt
    /\ UNCHANGED <<vendor, browser, bridge, execute, cancel>>

StatementEnds(p) ==
    /\ stmt[p] = "running"
    /\ \E s \in Ended :
          /\ s = "canceled" => cancel[p]
          /\ stmt' = [stmt EXCEPT ![p] = s]
          /\ cancel' = [cancel EXCEPT ![p] = FALSE]
    /\ UNCHANGED <<vendor, browser, bridge, execute, post>>

-----------------------------------------------------------------------------
AdapterStep(p) ==
    \/ RequestFails(p) \/ SubmitHeaders(p) \/ PollHeaders(p) \/ Collect(p)
    \/ PostCancel(p) \/ CancelPoll(p)

BrowserStep(p) == Ask(p) \/ GiveUp(p) \/ Answered(p) \/ Register(p)

(* The mount is over and no request is left anywhere. *)
Finished ==
    /\ mount \in {"mounted", "error"}
    /\ \A p \in Picks : server[p] \in {"none", "ended"} /\ stmt[p] # "running" /\ post[p] # "sent"
    /\ UNCHANGED vars

Next ==
    \/ OpenMount \/ CloseDialog \/ Health \/ EndMount \/ Finished
    \/ \E p \in Picks :
          \/ BrowserStep(p) \/ Receive(p) \/ Disconnect(p) \/ DeadlinePasses(p) \/ Respond(p)
          \/ AdapterStep(p) \/ CancelPollFails(p) \/ Body(p) \/ TakeStatement(p) \/ StatementEnds(p)

(* Timers fire and requests settle: every await of the browser, the server *)
(* and the adapter ends.  Nothing is assumed of the user, of the network   *)
(* between browser and server, or of the warehouse: its statements may run *)
(* for ever and need not be cancelled.  That the body of an answer arrives *)
(* is assumed unless it may stall.                                         *)
Fairness ==
    /\ WF_vars(Health) /\ WF_vars(EndMount)
    /\ \A p \in Picks :
          /\ WF_vars(BrowserStep(p))
          /\ WF_vars(Respond(p))
          /\ WF_vars(DeadlinePasses(p))
          /\ WF_vars(AdapterStep(p))
          /\ ~MayStall => WF_vars(Body(p))

Spec == Init /\ [][Next]_vars /\ Fairness

-----------------------------------------------------------------------------
(* An adapter that has ended leaves no statement running that it had a     *)
(* handle of, unless it says that the cancellation is unconfirmed:         *)
(* cancelToTerminal polls to a terminal state, and only an answer that is  *)
(* terminal spares it.                                                     *)
NoOrphan ==
    \A p \in Picks :
        adapter[p] \in {"rows", "failed"} /\ known[p] => stmt[p] \in Ended

(* A table that is on screen holds the rows of a statement that succeeded, *)
(* although deadlines, cancellation and late answers ran beside it.        *)
MountedSucceeded ==
    \A p \in Picks : pick[p] \in {"registering", "mounted"} => stmt[p] = "succeeded"

(* A request that the server took ends, whatever the warehouse's statement *)
(* does: every loop is bounded by maxPolls and every request by a clock.   *)
RequestEnds == \A p \in Picks : server[p] = "running" ~> server[p] = "ended"

(* The mount ends although no answer is assumed to arrive: BridgeClient    *)
(* gives every request a deadline that covers its body.                    *)
MountEnds == mount = "health" ~> mount \in {"mounted", "error"}

(* docs/compute-bridge-protocol.md:70 "cancel the downstream warehouse     *)
(* statement when the HTTP request is cancelled or disconnected, then poll *)
(* until the vendor reports a terminal state".                             *)
CancelledIsTerminal ==
    \A p \in Picks :
        server[p] = "ended" /\ signal[p] = "cancelled" /\ adapter[p] # "unconfirmed"
            => stmt[p] # "running"

(* The read as RemoteQuery sees it. *)
Query == INSTANCE RemoteQuery WITH
    ask <- [p \in Picks |->
              CASE pick[p] = "todo" -> "no"
                [] pick[p] = "asking" -> "asked"
                [] pick[p] \in {"registering", "mounted"} -> "rows"
                [] pick[p] = "failed" /\ server[p] = "none" -> "dropped"
                [] OTHER -> "error"],
    work <- [p \in Picks |->
              CASE stmt[p] \in {"none", "running"} -> stmt[p]
                [] stmt[p] = "succeeded" -> "finished"
                [] OTHER -> "broken"]

(* The bridge implements RemoteQuery: a dropped query starts no statement, *)
(* rows come from a statement that finished, an ended one is never revived.*)
ReadsRemotely == Query!Spec
=============================================================================
