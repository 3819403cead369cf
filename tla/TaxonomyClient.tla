--------------------------- MODULE TaxonomyClient ---------------------------
(***************************************************************************)
(* The page's side of the taxonomy worker (taxonomy/client.ts) and the     *)
(* worker itself (workers/taxonomy.worker.ts): one worker for all callers, *)
(* started by the first ensureReady, replaced after it broke.              *)
(*                                                                         *)
(* A caller awaits one promise of the client at a time: a boot or a        *)
(* classification.  The continuations of settled promises are microtasks,  *)
(* they run before the page takes its next event (Quiet).  The worker is a *)
(* thread of its own; messages between the two are in order.               *)
(*                                                                         *)
(* A request's id is unique; here the caller, or the version of the user   *)
(* types, names the request, for no caller has two at once and no version  *)
(* is sent twice to one worker.  Version 0 of the user types is none at    *)
(* all; a restored workspace comes with some.  terminate() also discards   *)
(* the messages of the worker.                                             *)
(***************************************************************************)
EXTENDS Naturals, Sequences

CONSTANTS
    Callers,   \* the loops that classify columns
    MaxFaults, \* bound: how often something breaks or is late
    MaxEdits   \* bound: how often the user types change

ASSUME FaultsAssumption == MaxFaults \in Nat
ASSUME EditsAssumption == MaxEdits \in Nat

Workers == 1..(MaxFaults + 1)
Versions == 0..MaxEdits

VARIABLES
    call,      \* call[c]: the promise caller c awaits, or how it settled
    since,     \* since[c]: the user types when c asked
    answer,    \* answer[c]: the user types its column was classified with
    bundle,    \* this.bundle is loaded
    boot,      \* how far the boot under readyPromise is
    awaited,   \* the user types whose acknowledgement the boot awaits
    worker,    \* this.worker, 0 for null
    userTypes, \* this.userTypes
    pending,   \* this.pending
    updates,   \* this.userTypeRequests
    spawned,   \* workers created so far
    proc,      \* proc[w]: the thread of worker w
    types,     \* types[w]: the user types it has
    inbox,     \* inbox[w]: messages to it
    outbox,    \* outbox[w]: messages from it
    faults     \* what broke or was late so far

callers == <<call, since, answer>>
page == <<bundle, boot, awaited, worker, userTypes, pending, updates>>
threads == <<spawned, proc, types, inbox, outbox>>
client == <<callers, page, threads, faults>>

Settled == {"ready", "answered", "rejected"}
InitMessage == [type |-> "init"]
SetTypes(v) == [type |-> "set_user_types", types |-> v]
Sample(c) == [type |-> "classify", caller |-> c]
ToWorker == {InitMessage} \cup {SetTypes(v) : v \in Versions} \cup {Sample(c) : c \in Callers}
InitOk == [type |-> "init_ok"]
Applied(v) == [type |-> "user_types_applied", types |-> v]
Classified(c, v) == [type |-> "classify_result", caller |-> c, types |-> v]
Failed(c) == [type |-> "error", caller |-> c]
ToPage == {InitOk} \cup {Applied(v) : v \in Versions}
            \cup {Classified(c, v) : c \in Callers, v \in Versions}
            \cup {Failed(c) : c \in Callers}

ClientTypeOK ==
    /\ call \in [Callers -> {"none", "boot", "asked"} \cup Settled]
    /\ since \in [Callers -> Versions]
    /\ answer \in [Callers -> Versions]
    /\ bundle \in BOOLEAN
    /\ boot \in {"no", "bundle", "init", "types"}
    /\ awaited \in Versions
    /\ worker \in {0} \cup Workers
    /\ userTypes \in Versions
    /\ pending \in SUBSET Callers
    /\ updates \in SUBSET Versions
    /\ spawned \in {0} \cup Workers
    /\ proc \in [Workers -> {"none", "running", "hung", "terminated"}]
    /\ types \in [Workers -> Versions]
    /\ inbox \in [Workers -> Seq(ToWorker)]
    /\ outbox \in [Workers -> Seq(ToPage)]
    /\ faults \in 0..MaxFaults

ClientInit ==
    /\ call = [c \in Callers |-> "none"]
    /\ since = [c \in Callers |-> 0]
    /\ answer = [c \in Callers |-> 0]
    /\ bundle = FALSE
    /\ boot = "no"
    /\ awaited = 0
    /\ worker = 0
    /\ userTypes \in Versions
    /\ pending = {}
    /\ updates = {}
    /\ spawned = 0
    /\ proc = [w \in Workers |-> "none"]
    /\ types = [w \in Workers |-> 0]
    /\ inbox = [w \in Workers |-> <<>>]
    /\ outbox = [w \in Workers |-> <<>>]
    /\ faults = 0

(***************************************************************************)
(* Quiet: no continuation is due, the page may take its next event.        *)
(***************************************************************************)
Quiet == \A c \in Callers : call[c] \notin Settled
Free(c) == call[c] \notin {"boot", "asked"}
Lives(w) == proc[w] \in {"running", "hung"}
Fault == faults < MaxFaults /\ faults' = faults + 1

Forget(c) ==
    /\ since' = [since EXCEPT ![c] = 0]
    /\ answer' = [answer EXCEPT ![c] = 0]

Post(w, message) == inbox' = [inbox EXCEPT ![w] = Append(@, message)]

Spawn ==
    /\ spawned' = spawned + 1
    /\ proc' = [proc EXCEPT ![spawned + 1] = "running"]
    /\ inbox' = [inbox EXCEPT ![spawned + 1] = <<InitMessage>>]
    /\ UNCHANGED <<types, outbox>>

Terminate(w) ==
    /\ proc' = [proc EXCEPT ![w] = "terminated"]
    /\ inbox' = [inbox EXCEPT ![w] = <<>>]
    /\ outbox' = [outbox EXCEPT ![w] = <<>>]

(***************************************************************************)
(* ensureReady: at once with a worker, else by the boot that is under way  *)
(* or by a new one.                                                        *)
(***************************************************************************)
EnsureReady(c) ==
    /\ Free(c)
    /\ call' = [call EXCEPT ![c] = IF worker # 0 /\ bundle THEN "ready" ELSE "boot"]
    /\ IF (worker # 0 /\ bundle) \/ boot # "no"
       THEN UNCHANGED <<boot, threads>>
       ELSE IF bundle
       THEN boot' = "init" /\ Spawn
       ELSE boot' = "bundle" /\ UNCHANGED threads
    /\ Forget(c)
    /\ UNCHANGED <<bundle, awaited, worker, userTypes, pending, updates, faults>>

BundleLoads ==
    /\ Quiet
    /\ boot = "bundle"
    /\ bundle' = TRUE
    /\ boot' = "init"
    /\ Spawn
    /\ UNCHANGED <<callers, awaited, worker, userTypes, pending, updates, faults>>

(***************************************************************************)
(* The boot's promise settles for everyone who awaits it.                  *)
(***************************************************************************)
BootSettles(as) == [c \in Callers |-> IF call[c] = "boot" THEN as ELSE call[c]]

BundleFails ==
    /\ Quiet
    /\ Fault
    /\ boot = "bundle"
    /\ boot' = "no"
    /\ call' = BootSettles("rejected")
    /\ UNCHANGED <<since, answer, bundle, awaited, worker, userTypes, pending, updates, threads>>

(* Mutant: the worker that was not initialised is left alone. *)
BootFailsOnly ==
    /\ boot = "init"
    /\ boot' = "no"
    /\ call' = BootSettles("rejected")
    /\ UNCHANGED <<since, answer, bundle, awaited, worker, userTypes, pending, updates, threads>>

(***************************************************************************)
(* finish(err) of the boot: the worker that was being initialised goes.    *)
(***************************************************************************)
BootFails ==
    /\ boot = "init"
    /\ boot' = "no"
    /\ call' = BootSettles("rejected")
    /\ Terminate(spawned)
    /\ UNCHANGED <<since, answer, bundle, awaited, worker, userTypes, pending, updates,
                   spawned, types>>

(* Mutant: the user types are not sent to a new worker. *)
AdoptBare(w) ==
    /\ boot = "init" /\ w = spawned
    /\ Head(outbox[w]) = InitOk
    /\ worker' = w
    /\ boot' = "no"
    /\ call' = BootSettles("ready")
    /\ UNCHANGED <<since, answer, bundle, awaited, userTypes, pending, updates, inbox>>

(***************************************************************************)
(* init_ok: the worker is adopted and given the user types of the moment.  *)
(***************************************************************************)
Adopt(w) ==
    /\ boot = "init" /\ w = spawned
    /\ Head(outbox[w]) = InitOk
    /\ worker' = w
    /\ IF userTypes = 0
       THEN /\ boot' = "no"
            /\ call' = BootSettles("ready")
            /\ UNCHANGED <<awaited, updates, inbox>>
       ELSE /\ boot' = "types"
            /\ awaited' = userTypes
            /\ updates' = updates \cup {userTypes}
            /\ Post(w, SetTypes(userTypes))
            /\ UNCHANGED call
    /\ UNCHANGED <<since, answer, bundle, userTypes, pending>>

(***************************************************************************)
(* handleMessage of an adopted worker.                                     *)
(***************************************************************************)
TypesApplied(v) ==
    /\ updates' = updates \ {v}
    /\ IF v \in updates /\ boot = "types" /\ v = awaited
       THEN boot' = "no" /\ call' = BootSettles("ready")
       ELSE UNCHANGED <<boot, call>>
    /\ UNCHANGED <<since, answer, bundle, awaited, worker, userTypes, pending, inbox>>

ResultArrives(c, v) ==
    /\ pending' = pending \ {c}
    /\ IF c \in pending
       THEN call' = [call EXCEPT ![c] = "answered"] /\ answer' = [answer EXCEPT ![c] = v]
       ELSE UNCHANGED <<call, answer>>
    /\ UNCHANGED <<since, bundle, boot, awaited, worker, userTypes, updates, inbox>>

ErrorArrives(c) ==
    /\ pending' = pending \ {c}
    /\ call' = IF c \in pending THEN [call EXCEPT ![c] = "rejected"] ELSE call
    /\ UNCHANGED <<since, answer, bundle, boot, awaited, worker, userTypes, updates, inbox>>

HandleMessage(w) ==
    LET message == Head(outbox[w])
    IN  /\ w = worker
        /\ \/ message.type = "user_types_applied" /\ TypesApplied(message.types)
           \/ message.type = "classify_result" /\ ResultArrives(message.caller, message.types)
           \/ message.type = "error" /\ ErrorArrives(message.caller)

Deliver(w) ==
    /\ Quiet
    /\ outbox[w] # <<>>
    /\ outbox' = [outbox EXCEPT ![w] = Tail(@)]
    /\ Adopt(w) \/ HandleMessage(w)
    /\ UNCHANGED <<spawned, proc, types, faults>>

(***************************************************************************)
(* failWorker: every promise the worker owes is rejected; a boot that      *)
(* awaits the acknowledgement of the user types fails with it.             *)
(***************************************************************************)
FailWorker ==
    /\ worker # 0
    /\ worker' = 0
    /\ Terminate(worker)
    /\ call' = [c \in Callers |->
                   IF c \in pending \/ (call[c] = "boot" /\ boot = "types")
                   THEN "rejected" ELSE call[c]]
    /\ pending' = {}
    /\ updates' = {}
    /\ boot' = IF boot = "types" THEN "no" ELSE boot
    /\ UNCHANGED <<since, answer, bundle, awaited, userTypes, spawned, types>>

(***************************************************************************)
(* The timers.  One fires because the worker hangs, or, as a fault, though *)
(* it is only slow.                                                        *)
(***************************************************************************)
Late(w) == IF proc[w] = "hung" THEN UNCHANGED faults ELSE Fault

(* Mutant: only classifications have a timer. *)
RequestTimerClassify ==
    Quiet /\ pending # {} /\ worker # 0 /\ Late(worker) /\ FailWorker

InitTimer == Quiet /\ boot = "init" /\ Late(spawned) /\ BootFails
RequestTimer == Quiet /\ pending \cup updates # {} /\ worker # 0 /\ Late(worker) /\ FailWorker

(***************************************************************************)
(* An error or messageerror event of the worker, while it is initialised   *)
(* or later.                                                               *)
(***************************************************************************)
WorkerBreaks ==
    /\ Quiet
    /\ spawned # 0
    /\ Lives(spawned)
    /\ Fault
    /\ BootFails \/ (worker = spawned /\ FailWorker)

WorkerHangs(w) ==
    /\ proc[w] = "running"
    /\ Fault
    /\ proc' = [proc EXCEPT ![w] = "hung"]
    /\ UNCHANGED <<callers, page, spawned, types, inbox, outbox>>

(***************************************************************************)
(* onmessage of the worker.  A sample it throws on is answered with an     *)
(* error; merging the user types does not throw.                           *)
(***************************************************************************)
Replies(w, message) ==
    \/ message.type = "init" /\ outbox' = [outbox EXCEPT ![w] = Append(@, InitOk)]
       /\ UNCHANGED <<types, faults>>
    \/ message.type = "set_user_types"
       /\ types' = [types EXCEPT ![w] = message.types]
       /\ outbox' = [outbox EXCEPT ![w] = Append(@, Applied(message.types))]
       /\ UNCHANGED faults
    \/ message.type = "classify"
       /\ outbox' = [outbox EXCEPT ![w] = Append(@, Classified(message.caller, types[w]))]
       /\ UNCHANGED <<types, faults>>
    \/ message.type = "classify" /\ Fault
       /\ outbox' = [outbox EXCEPT ![w] = Append(@, Failed(message.caller))]
       /\ UNCHANGED types

WorkerTakes(w) ==
    /\ proc[w] = "running"
    /\ inbox[w] # <<>>
    /\ Replies(w, Head(inbox[w]))
    /\ inbox' = [inbox EXCEPT ![w] = Tail(@)]
    /\ UNCHANGED <<callers, page, spawned, proc>>

(***************************************************************************)
(* classify: throws without a worker.                                      *)
(***************************************************************************)
Classify(c) ==
    /\ Free(c)
    /\ since' = [since EXCEPT ![c] = userTypes]
    /\ IF worker = 0
       THEN /\ call' = [call EXCEPT ![c] = "rejected"]
            /\ UNCHANGED <<pending, inbox>>
       ELSE /\ call' = [call EXCEPT ![c] = "asked"]
            /\ pending' = pending \cup {c}
            /\ Post(worker, Sample(c))
    /\ UNCHANGED <<answer, bundle, boot, awaited, worker, userTypes, updates,
                   spawned, proc, types, outbox, faults>>

(***************************************************************************)
(* setUserTypes: kept for the next worker, sent to the present one.        *)
(***************************************************************************)
SetUserTypes ==
    /\ userTypes < MaxEdits
    /\ userTypes' = userTypes + 1
    /\ IF worker = 0
       THEN UNCHANGED <<updates, inbox>>
       ELSE /\ updates' = updates \cup {userTypes + 1}
            /\ Post(worker, SetTypes(userTypes + 1))
    /\ UNCHANGED <<callers, bundle, boot, awaited, worker, pending,
                   spawned, proc, types, outbox, faults>>

(***************************************************************************)
(* A caller goes on, and asks the client for nothing.                      *)
(***************************************************************************)
Resume(c) ==
    /\ call[c] \in Settled
    /\ call' = [call EXCEPT ![c] = "none"]
    /\ Forget(c)
    /\ UNCHANGED <<page, threads, faults>>

(***************************************************************************)
(* What happens at the client without a caller's doing.                    *)
(***************************************************************************)
ClientStep ==
    \/ BundleLoads
    \/ BundleFails
    \/ \E w \in Workers : Deliver(w) \/ WorkerTakes(w) \/ WorkerHangs(w)
    \/ InitTimer
    \/ RequestTimer
    \/ WorkerBreaks

ClientNext ==
    \/ ClientStep
    \/ \E c \in Callers : EnsureReady(c) \/ Classify(c) \/ Resume(c)
    \/ SetUserTypes

ClientSpec == ClientInit /\ [][ClientNext]_client

(***************************************************************************)
(* Fetching the bundle ends; a running worker takes its messages, the page *)
(* takes its events; the timer of a hung worker fires.                     *)
(***************************************************************************)
ClientFairness ==
    /\ WF_client(BundleLoads)
    /\ \A w \in Workers : WF_client(Deliver(w)) /\ WF_client(WorkerTakes(w))
    /\ WF_client(boot = "init" /\ proc[spawned] = "hung" /\ InitTimer)
    /\ WF_client(worker # 0 /\ proc[worker] = "hung" /\ RequestTimer)

(***************************************************************************)
(* No worker is left behind: of all workers created only the last can      *)
(* live, and only as this.worker or while it is being initialised          *)
(* ("terminate the orphaned Worker on any error path", boot).              *)
(***************************************************************************)
OneWorker ==
    /\ \A w \in Workers : Lives(w) => w = spawned /\ (w = worker \/ boot = "init")
    /\ worker # 0 => Lives(worker)

(***************************************************************************)
(* A column is classified with the user types of the moment it was asked   *)
(* for, or newer ones, also when the worker was replaced in between        *)
(* ("re-apply any user types we knew about", boot).                        *)
(***************************************************************************)
AnswerFresh ==
    \A c \in Callers : call[c] = "answered" => answer[c] >= since[c]

(***************************************************************************)
(* Who waits is answered: a caller that awaits a classification is in      *)
(* pending, and its sample or the answer is under way or the worker hangs; *)
(* a caller that awaits a boot awaits one that is under way (handleMessage *)
(* and failWorker delete nothing they do not settle).                      *)
(***************************************************************************)
Carries(queue, kinds, c) ==
    \E i \in 1..Len(queue) : queue[i].type \in kinds /\ queue[i].caller = c

WaiterHeld ==
    \A c \in Callers :
        /\ call[c] = "boot" => boot # "no"
        /\ call[c] = "asked" <=> c \in pending
        /\ c \in pending =>
              /\ worker # 0
              /\ \/ Carries(inbox[worker], {"classify"}, c)
                 \/ Carries(outbox[worker], {"classify_result", "error"}, c)
=============================================================================
