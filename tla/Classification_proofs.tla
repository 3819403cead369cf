------------------------- MODULE Classification_proofs -------------------------
(***************************************************************************)
(* Proofs about TaxonomyClient and Classification, for any number of       *)
(* callers, of sources and columns, of faults and of changes to the user   *)
(* types.  The first part is about the client: its type invariant, that    *)
(* one worker serves (ClientInv), and that answers know the user types     *)
(* (FreshInv).  The second carries them over to the loops that use it, and *)
(* adds that override rules reach every column.                            *)
(***************************************************************************)
EXTENDS Classification, SequenceTheorems, TLAPS

-----------------------------------------------------------------------------
(* The client. *)

(* A worker is initialised or in use only once the bundle is loaded, and   *)
(* lives meanwhile.                                                        *)
BootShape ==
    /\ boot \in {"init", "types"} \/ worker # 0 => bundle
    /\ boot = "bundle" => ~bundle
    /\ boot = "init" => worker = 0 /\ spawned # 0 /\ Lives(spawned)
    /\ boot = "types" => worker # 0

(* Every worker but the first replaces one that broke, hung or was late.   *)
InUse == boot = "init" \/ worker # 0

Budget ==
    /\ spawned <= faults + 1
    /\ ~InUse => spawned <= faults
    /\ InUse /\ proc[spawned] = "hung" => spawned <= faults

ClientInv ==
    /\ ClientTypeOK
    /\ BootShape
    /\ Budget
    /\ OneWorker

-----------------------------------------------------------------------------
(* Operators.                                                              *)

LEMMA BoundFacts ==
    /\ MaxFaults \in Nat /\ MaxEdits \in Nat
    /\ Workers \subseteq Nat /\ 0 \notin Workers /\ Versions \subseteq Nat /\ 0 \in Versions
BY FaultsAssumption, EditsAssumption DEF Workers, Versions

LEMMA AppendAt ==
    ASSUME NEW S, NEW q \in Seq(S), NEW m \in S
    PROVE  /\ Append(q, m) \in Seq(S) /\ Append(q, m) # <<>>
           /\ DOMAIN Append(q, m) = 1..(Len(q) + 1) /\ DOMAIN q = 1..Len(q) /\ Len(q) \in Nat
           /\ Append(q, m)[Len(q) + 1] = m
           /\ \A i \in DOMAIN q : Append(q, m)[i] = q[i]
BY AppendProperties, LenProperties

LEMMA TailAt ==
    ASSUME NEW S, NEW q \in Seq(S), q # <<>>
    PROVE  /\ Head(q) \in S /\ Tail(q) \in Seq(S)
           /\ Head(q) = q[1] /\ 1 \in DOMAIN q
           /\ \A i \in DOMAIN Tail(q) : i + 1 \in DOMAIN q /\ Tail(q)[i] = q[i + 1]
           /\ \A i \in DOMAIN q : i # 1 => i - 1 \in DOMAIN Tail(q)
<1>1. /\ Head(q) \in S /\ Tail(q) \in Seq(S) /\ Len(Tail(q)) = Len(q) - 1
      /\ \A i \in 1..Len(Tail(q)) : Tail(q)[i] = q[i + 1]
  BY HeadTailProperties
<1>2. Len(q) \in Nat /\ Len(q) # 0 /\ DOMAIN q = 1..Len(q)
  BY LenProperties, EmptySeq
<1>3. DOMAIN Tail(q) = 1..(Len(q) - 1)
  BY <1>1, LenProperties
<1>4. Head(q) = q[1]
  OBVIOUS
<1>5. \A i \in DOMAIN Tail(q) : i + 1 \in DOMAIN q /\ Tail(q)[i] = q[i + 1]
  BY <1>1, <1>2, <1>3
<1>6. 1 \in DOMAIN q /\ \A i \in DOMAIN q : i # 1 => i - 1 \in DOMAIN Tail(q)
  BY <1>2, <1>3
<1> QED BY <1>1, <1>4, <1>5, <1>6

LEMMA MessageShape ==
    /\ \A m \in ToWorker :
         \/ m.type = "init"
         \/ m.type = "set_user_types" /\ m.types \in Versions
         \/ m.type = "classify" /\ m.caller \in Callers
    /\ \A m \in ToPage :
         \/ m.type = "init_ok"
         \/ m.type = "user_types_applied" /\ m.types \in Versions
         \/ m.type = "classify_result" /\ m.caller \in Callers /\ m.types \in Versions
         \/ m.type = "error" /\ m.caller \in Callers
    /\ InitMessage \in ToWorker /\ InitOk \in ToPage
    /\ \A v \in Versions : SetTypes(v) \in ToWorker /\ Applied(v) \in ToPage
    /\ \A c \in Callers : Sample(c) \in ToWorker /\ Failed(c) \in ToPage
    /\ \A c \in Callers, v \in Versions : Classified(c, v) \in ToPage
<1>1. ASSUME NEW m \in ToWorker
      PROVE  \/ m.type = "init"
             \/ m.type = "set_user_types" /\ m.types \in Versions
             \/ m.type = "classify" /\ m.caller \in Callers
  BY DEF ToWorker, InitMessage, SetTypes, Sample
<1>2. ASSUME NEW m \in ToPage
      PROVE  \/ m.type = "init_ok"
             \/ m.type = "user_types_applied" /\ m.types \in Versions
             \/ m.type = "classify_result" /\ m.caller \in Callers /\ m.types \in Versions
             \/ m.type = "error" /\ m.caller \in Callers
  <2>1. CASE m \in {Classified(c, v) : c \in Callers, v \in Versions}
    BY <2>1 DEF Classified
  <2>2. CASE m \notin {Classified(c, v) : c \in Callers, v \in Versions}
    BY <2>2 DEF ToPage, InitOk, Applied, Failed
  <2> QED BY <2>1, <2>2
<1>3. /\ InitMessage \in ToWorker /\ InitOk \in ToPage
      /\ \A v \in Versions : SetTypes(v) \in ToWorker /\ Applied(v) \in ToPage
      /\ \A c \in Callers : Sample(c) \in ToWorker /\ Failed(c) \in ToPage
      /\ \A c \in Callers, v \in Versions : Classified(c, v) \in ToPage
  BY DEF ToWorker, ToPage
<1> QED BY <1>1, <1>2, <1>3

Threads ==
    /\ proc \in [Workers -> {"none", "running", "hung", "terminated"}]
    /\ inbox \in [Workers -> Seq(ToWorker)]
    /\ outbox \in [Workers -> Seq(ToPage)]

LEMMA SpawnEffect ==
    ASSUME ClientTypeOK, spawned + 1 \in Workers, Spawn
    PROVE  /\ Threads' /\ UNCHANGED <<types, outbox>>
           /\ spawned' = spawned + 1 /\ proc'[spawned'] = "running"
           /\ inbox'[spawned'] = <<InitMessage>>
           /\ \A w \in Workers : w # spawned' => proc'[w] = proc[w] /\ inbox'[w] = inbox[w]
<1>1. <<InitMessage>> \in Seq(ToWorker)
  BY MessageShape
<1> QED BY <1>1 DEF ClientTypeOK, Spawn, Threads

LEMMA TerminateEffect ==
    ASSUME ClientTypeOK, NEW w \in Workers, Terminate(w)
    PROVE  /\ Threads' /\ proc'[w] = "terminated" /\ inbox'[w] = <<>> /\ outbox'[w] = <<>>
           /\ \A v \in Workers : v # w =>
                proc'[v] = proc[v] /\ inbox'[v] = inbox[v] /\ outbox'[v] = outbox[v]
<1>1. <<>> \in Seq(ToWorker) /\ <<>> \in Seq(ToPage)
  OBVIOUS
<1> QED BY <1>1 DEF ClientTypeOK, Terminate, Threads

LEMMA PostEffect ==
    ASSUME ClientTypeOK, NEW w \in Workers, NEW m \in ToWorker, Post(w, m)
    PROVE  /\ inbox' \in [Workers -> Seq(ToWorker)]
           /\ inbox'[w] = Append(inbox[w], m)
           /\ \A v \in Workers : v # w => inbox'[v] = inbox[v]
<1>1. inbox[w] \in Seq(ToWorker)
  BY DEF ClientTypeOK
<1>2. Append(inbox[w], m) \in Seq(ToWorker)
  BY <1>1, AppendAt
<1> QED BY <1>2 DEF ClientTypeOK, Post

LEMMA ForgetType ==
    ASSUME ClientTypeOK, NEW c \in Callers, Forget(c)
    PROVE  /\ since' \in [Callers -> Versions] /\ answer' \in [Callers -> Versions]
           /\ since'[c] = 0 /\ answer'[c] = 0
           /\ \A d \in Callers : d # c => since'[d] = since[d] /\ answer'[d] = answer[d]
BY BoundFacts DEF ClientTypeOK, Forget

LEMMA BootSettlesType ==
    ASSUME ClientTypeOK, NEW as \in {"ready", "rejected"}
    PROVE  BootSettles(as) \in [Callers -> {"none", "boot", "asked"} \cup Settled]
BY DEF ClientTypeOK, BootSettles, Settled

-----------------------------------------------------------------------------
(* The client: its types, and one worker.                                  *)

LEMMA SpawnKept ==
    ASSUME ClientInv, boot \in {"no", "bundle"}, worker = 0, boot' = "init", bundle',
           Spawn, UNCHANGED <<worker, faults>>
    PROVE  /\ spawned + 1 \in Workers /\ spawned' \in {0} \cup Workers
           /\ BootShape' /\ Budget' /\ OneWorker'
<1>0. ClientTypeOK
  BY DEF ClientInv
<1>1. spawned <= faults /\ faults \in 0..MaxFaults /\ spawned \in {0} \cup Workers
  BY DEF ClientInv, Budget, InUse, ClientTypeOK
<1>2. spawned \in Nat /\ spawned + 1 \in Workers
  BY <1>1, BoundFacts DEF Workers
<1>3. /\ spawned' = spawned + 1 /\ proc'[spawned'] = "running"
      /\ \A w \in Workers : w # spawned' => proc'[w] = proc[w]
  BY <1>0, <1>2, SpawnEffect
<1>4. \A w \in Workers : ~Lives(w)
  BY BoundFacts DEF ClientInv, OneWorker, BootShape
<1>5. \A w \in Workers : Lives(w)' => w = spawned'
  BY <1>3, <1>4 DEF Lives
<1>6. BootShape'
  BY <1>1, <1>2, <1>3, BoundFacts DEF BootShape, Lives
<1>7. Budget'
  BY <1>1, <1>2, <1>3, BoundFacts DEF Budget, InUse
<1>8. OneWorker'
  BY <1>5 DEF OneWorker
<1> QED BY <1>2, <1>3, <1>6, <1>7, <1>8

(* The worker that is initialised or in use is terminated, for a fault or  *)
(* because it hangs.                                                       *)
LEMMA TerminateKept ==
    ASSUME ClientInv, InUse, Terminate(spawned), spawned \in Workers,
           UNCHANGED <<spawned, bundle>>, worker' = 0, boot' = "no",
           \/ proc[spawned] = "hung" /\ faults' = faults
           \/ faults < MaxFaults /\ faults' = faults + 1
    PROVE  /\ proc' \in [Workers -> {"none", "running", "hung", "terminated"}]
           /\ faults' \in 0..MaxFaults
           /\ BootShape' /\ Budget' /\ OneWorker'
<1>0. ClientTypeOK
  BY DEF ClientInv
<1>1. /\ Threads' /\ proc'[spawned] = "terminated"
      /\ \A w \in Workers : w # spawned => proc'[w] = proc[w]
  BY <1>0, TerminateEffect
<1>2. faults \in 0..MaxFaults /\ spawned \in Nat
  BY <1>0, BoundFacts DEF ClientTypeOK
<1>3. faults' \in 0..MaxFaults
  BY <1>2, BoundFacts
<1>4. \A w \in Workers : ~Lives(w)'
  BY <1>1 DEF Lives, ClientInv, OneWorker
<1>5. BootShape'
  BY DEF BootShape
<1>6. spawned <= faults'
  BY <1>2, BoundFacts DEF ClientInv, Budget
<1>7. Budget'
  <2>1. spawned' = spawned /\ faults' \in Nat /\ ~InUse'
    BY <1>3, BoundFacts DEF InUse
  <2>2. \A m, n \in Nat : m <= n => m <= n + 1
    OBVIOUS
  <2> QED BY <1>2, <1>6, <2>1, <2>2 DEF Budget
<1>8. OneWorker'
  BY <1>4 DEF OneWorker
<1> QED BY <1>1, <1>3, <1>5, <1>7, <1>8 DEF Threads

LEMMA BootFailsKept ==
    ASSUME ClientInv, BootFails,
           \/ proc[spawned] = "hung" /\ faults' = faults
           \/ faults < MaxFaults /\ faults' = faults + 1
    PROVE  ClientInv'
<1>0. ClientTypeOK
  BY DEF ClientInv
<1>1. spawned \in Workers /\ worker' = 0 /\ InUse
  BY <1>0 DEF ClientInv, BootShape, BootFails, ClientTypeOK, InUse
<1>2. /\ proc' \in [Workers -> {"none", "running", "hung", "terminated"}]
      /\ faults' \in 0..MaxFaults
      /\ BootShape' /\ Budget' /\ OneWorker'
  BY <1>1, TerminateKept DEF BootFails
<1>3. Threads'
  BY <1>0, <1>1, TerminateEffect DEF BootFails
<1>4. call' \in [Callers -> {"none", "boot", "asked"} \cup Settled]
  BY <1>0, BootSettlesType DEF BootFails
<1>5. ClientTypeOK'
  BY <1>0, <1>2, <1>3, <1>4 DEF BootFails, ClientTypeOK, Threads
<1> QED BY <1>2, <1>5 DEF ClientInv

LEMMA FailWorkerKept ==
    ASSUME ClientInv, FailWorker,
           \/ proc[worker] = "hung" /\ faults' = faults
           \/ faults < MaxFaults /\ faults' = faults + 1
    PROVE  ClientInv'
<1>0. ClientTypeOK
  BY DEF ClientInv
<1>1. /\ spawned \in Workers /\ worker = spawned /\ InUse
      /\ boot' = "no" \/ (boot' = boot /\ boot \in {"no", "bundle"})
  BY <1>0 DEF ClientInv, OneWorker, BootShape, FailWorker, ClientTypeOK, InUse
<1>2. boot \notin {"init", "bundle"}
  BY DEF ClientInv, BootShape, FailWorker
<1>3. boot' = "no"
  BY <1>0, <1>1, <1>2 DEF ClientTypeOK
<1>4. /\ proc' \in [Workers -> {"none", "running", "hung", "terminated"}]
      /\ faults' \in 0..MaxFaults
      /\ BootShape' /\ Budget' /\ OneWorker'
  BY <1>1, <1>3, TerminateKept DEF FailWorker
<1>5. Threads'
  BY <1>0, <1>1, TerminateEffect DEF FailWorker
<1>6. call' \in [Callers -> {"none", "boot", "asked"} \cup Settled]
  BY <1>0 DEF FailWorker, ClientTypeOK, Settled
<1>7. ClientTypeOK'
  BY <1>0, <1>3, <1>4, <1>5, <1>6 DEF FailWorker, ClientTypeOK, Threads
<1> QED BY <1>4, <1>7 DEF ClientInv

(* Messages and promises do not change which worker serves. *)
LEMMA SameWorkers ==
    ASSUME ClientInv, ClientTypeOK',
           UNCHANGED <<bundle, boot, worker, spawned, proc>>,
           faults' = faults \/ faults' = faults + 1
    PROVE  ClientInv'
<1>1. BootShape' /\ OneWorker' /\ (InUse' <=> InUse)
  BY DEF ClientInv, BootShape, OneWorker, InUse, Lives
<1>2. spawned \in Nat /\ faults \in Nat
  BY BoundFacts DEF ClientInv, ClientTypeOK
<1>3. Budget'
  BY <1>1, <1>2 DEF ClientInv, Budget
<1> QED BY <1>1, <1>3 DEF ClientInv

LEMMA DeliverKept ==
    ASSUME ClientInv, NEW w \in Workers, Deliver(w)
    PROVE  ClientInv'
<1>0. ClientTypeOK
  BY DEF ClientInv
<1>1. /\ outbox[w] \in Seq(ToPage) /\ outbox[w] # <<>>
      /\ UNCHANGED <<spawned, proc, types, faults>>
      /\ outbox' = [outbox EXCEPT ![w] = Tail(@)]
  BY <1>0 DEF Deliver, ClientTypeOK
<1> DEFINE m == Head(outbox[w])
<1>2. m \in ToPage /\ Tail(outbox[w]) \in Seq(ToPage)
  BY <1>1, TailAt
<1>3. outbox' \in [Workers -> Seq(ToPage)]
  BY <1>0, <1>1, <1>2 DEF ClientTypeOK
<1>4. CASE Adopt(w)
  <2>1. /\ boot = "init" /\ w = spawned /\ worker' = w /\ boot' \in {"no", "types"}
        /\ UNCHANGED <<since, answer, bundle, userTypes, pending>>
    BY <1>4 DEF Adopt
  <2>2. ClientTypeOK'
    <3>1. CASE userTypes = 0
      <4>1. call' \in [Callers -> {"none", "boot", "asked"} \cup Settled]
        BY <1>0, <1>4, <3>1, BootSettlesType DEF Adopt
      <4> QED BY <1>0, <1>1, <1>3, <1>4, <2>1, <3>1, <4>1 DEF Adopt, ClientTypeOK
    <3>2. CASE userTypes # 0
      <4>1. inbox' \in [Workers -> Seq(ToWorker)]
        BY <1>0, <1>4, <3>2, PostEffect, MessageShape DEF Adopt, ClientTypeOK
      <4>2. UNCHANGED call /\ awaited' = userTypes /\ updates' = updates \cup {userTypes}
        BY <1>4, <3>2 DEF Adopt
      <4> QED BY <1>0, <1>1, <1>3, <2>1, <4>1, <4>2 DEF ClientTypeOK
    <3> QED BY <3>1, <3>2
  <2>3. BootShape'
    <3>1. bundle' = bundle /\ bundle
      BY <2>1 DEF ClientInv, BootShape
    <3>2. worker' # 0 /\ boot' # "bundle" /\ boot' # "init"
      BY <2>1, BoundFacts
    <3> QED BY <3>1, <3>2 DEF BootShape
  <2>4. OneWorker'
    BY <1>1, <2>1 DEF ClientInv, BootShape, OneWorker, Lives
  <2>5. Budget'
    <3>1. InUse /\ InUse'
      BY <2>1, BoundFacts DEF InUse
    <3> QED BY <1>1, <3>1 DEF ClientInv, Budget
  <2> QED BY <2>2, <2>3, <2>4, <2>5 DEF ClientInv
<1>5. ASSUME NEW v \in Versions, TypesApplied(v), w = worker
      PROVE  ClientInv'
  <2>1. UNCHANGED <<since, answer, bundle, awaited, worker, userTypes, pending, inbox>>
    BY <1>5 DEF TypesApplied
  <2>2. /\ call' \in [Callers -> {"none", "boot", "asked"} \cup Settled]
        /\ updates' \in SUBSET Versions
        /\ boot' = boot \/ (boot = "types" /\ boot' = "no")
    BY <1>0, <1>5, BootSettlesType DEF TypesApplied, ClientTypeOK
  <2>3. ClientTypeOK'
    BY <1>0, <1>1, <1>3, <2>1, <2>2 DEF ClientTypeOK
  <2>4. InUse' <=> InUse
    BY <2>1, <2>2, BoundFacts DEF InUse, ClientInv, BootShape
  <2>5. BootShape' /\ OneWorker'
    BY <1>1, <2>1, <2>2 DEF ClientInv, BootShape, OneWorker, Lives
  <2>6. Budget'
    BY <1>1, <2>4 DEF ClientInv, Budget
  <2> QED BY <2>3, <2>5, <2>6 DEF ClientInv
<1>6. ASSUME NEW c \in Callers, NEW v \in Versions, ResultArrives(c, v)
      PROVE  ClientInv'
  <2>1. /\ UNCHANGED <<since, bundle, boot, awaited, worker, userTypes, updates, inbox>>
        /\ call' \in [Callers -> {"none", "boot", "asked"} \cup Settled]
        /\ answer' \in [Callers -> Versions] /\ pending' \in SUBSET Callers
    BY <1>0, <1>6 DEF ResultArrives, ClientTypeOK, Settled
  <2>2. ClientTypeOK'
    BY <1>0, <1>1, <1>3, <2>1 DEF ClientTypeOK
  <2> QED BY <1>1, <2>1, <2>2, SameWorkers
<1>7. ASSUME NEW c \in Callers, ErrorArrives(c)
      PROVE  ClientInv'
  <2>1. /\ UNCHANGED <<since, answer, bundle, boot, awaited, worker, userTypes, updates, inbox>>
        /\ call' \in [Callers -> {"none", "boot", "asked"} \cup Settled]
        /\ pending' \in SUBSET Callers
    BY <1>0, <1>7 DEF ErrorArrives, ClientTypeOK, Settled
  <2>2. ClientTypeOK'
    BY <1>0, <1>1, <1>3, <2>1 DEF ClientTypeOK
  <2> QED BY <1>1, <2>1, <2>2, SameWorkers
<1>8. Adopt(w) \/ HandleMessage(w)
  BY DEF Deliver
<1>9. CASE HandleMessage(w)
  <2>1. \/ m.type = "user_types_applied" /\ TypesApplied(m.types) /\ w = worker
        \/ m.type = "classify_result" /\ ResultArrives(m.caller, m.types)
        \/ m.type = "error" /\ ErrorArrives(m.caller)
    BY <1>9 DEF HandleMessage
  <2>2. /\ m.type = "user_types_applied" => m.types \in Versions
        /\ m.type = "classify_result" => m.caller \in Callers /\ m.types \in Versions
        /\ m.type = "error" => m.caller \in Callers
    BY <1>2, MessageShape
  <2> HIDE DEF m
  <2> QED BY <1>5, <1>6, <1>7, <2>1, <2>2
<1> QED BY <1>4, <1>8, <1>9

LEMMA WorkerTakesKept ==
    ASSUME ClientInv, NEW w \in Workers, WorkerTakes(w)
    PROVE  ClientInv'
<1>0. ClientTypeOK
  BY DEF ClientInv
<1> DEFINE m == Head(inbox[w])
<1>1. /\ UNCHANGED <<callers, page, spawned, proc>> /\ inbox[w] # <<>>
      /\ inbox' = [inbox EXCEPT ![w] = Tail(@)] /\ Replies(w, m)
      /\ inbox[w] \in Seq(ToWorker) /\ outbox[w] \in Seq(ToPage)
  BY <1>0 DEF WorkerTakes, ClientTypeOK
<1>2. m \in ToWorker /\ Tail(inbox[w]) \in Seq(ToWorker)
  BY <1>1, TailAt
<1>3. inbox' \in [Workers -> Seq(ToWorker)]
  BY <1>0, <1>1, <1>2 DEF ClientTypeOK
<1>4. types[w] \in Versions /\ faults \in 0..MaxFaults /\ faults \in Nat
  BY <1>0, BoundFacts DEF ClientTypeOK
<1> HIDE DEF m
<1>5. /\ faults' \in 0..MaxFaults
      /\ faults' = faults \/ faults' = faults + 1
  BY <1>1, <1>4, BoundFacts DEF Replies, Fault
<1>6. types' \in [Workers -> Versions]
  BY <1>0, <1>1, <1>2, MessageShape DEF Replies, ClientTypeOK
<1>7. PICK answered \in ToPage : outbox' = [outbox EXCEPT ![w] = Append(@, answered)]
  BY <1>1, <1>2, <1>4, MessageShape DEF Replies
<1>8. outbox' \in [Workers -> Seq(ToPage)]
  <2>1. Append(outbox[w], answered) \in Seq(ToPage)
    BY <1>1, AppendAt
  <2> QED BY <1>0, <1>7, <2>1 DEF ClientTypeOK
<1>9. ClientTypeOK'
  BY <1>0, <1>1, <1>3, <1>5, <1>6, <1>8 DEF ClientTypeOK, callers, page
<1> QED BY <1>1, <1>5, <1>9, SameWorkers DEF page

LEMMA WorkerHangsKept ==
    ASSUME ClientInv, NEW w \in Workers, WorkerHangs(w)
    PROVE  ClientInv'
<1>0. ClientTypeOK /\ faults \in Nat /\ spawned \in Nat
  BY BoundFacts DEF ClientInv, ClientTypeOK
<1>1. /\ proc[w] = "running" /\ faults < MaxFaults /\ faults' = faults + 1
      /\ proc' = [proc EXCEPT ![w] = "hung"]
      /\ UNCHANGED <<callers, page, spawned, types, inbox, outbox>>
  BY DEF WorkerHangs, Fault
<1>2. UNCHANGED <<boot, worker, bundle, spawned>>
  BY <1>1 DEF page
<1>3. \A v \in Workers : Lives(v)' <=> Lives(v)
  BY <1>0, <1>1 DEF Lives, ClientTypeOK
<1>4. ClientTypeOK'
  <2>1. faults' \in 0..MaxFaults
    BY <1>0, <1>1, BoundFacts
  <2>2. proc' \in [Workers -> {"none", "running", "hung", "terminated"}]
    BY <1>0, <1>1 DEF ClientTypeOK
  <2> QED BY <1>0, <1>1, <2>1, <2>2 DEF ClientTypeOK, callers, page
<1>5. BootShape'
  <2>1. boot = "init" => spawned \in Workers
    BY <1>0 DEF ClientInv, BootShape, ClientTypeOK
  <2> QED BY <1>2, <1>3, <2>1 DEF ClientInv, BootShape
<1>6. OneWorker'
  <2>1. worker # 0 => worker \in Workers
    BY <1>0 DEF ClientTypeOK
  <2> QED BY <1>2, <1>3, <2>1 DEF ClientInv, OneWorker
<1>7. Budget'
  BY <1>0, <1>1, <1>2 DEF ClientInv, Budget, InUse
<1> QED BY <1>4, <1>5, <1>6, <1>7 DEF ClientInv

LEMMA BundleLoadsKept ==
    ASSUME ClientInv, BundleLoads
    PROVE  ClientInv'
<1>0. ClientTypeOK
  BY DEF ClientInv
<1>1. /\ boot \in {"no", "bundle"} /\ worker = 0 /\ boot' = "init" /\ bundle' = TRUE
      /\ Spawn /\ UNCHANGED <<callers, awaited, worker, userTypes, pending, updates, faults>>
  BY DEF BundleLoads, ClientInv, BootShape
<1>2. /\ spawned + 1 \in Workers /\ spawned' \in {0} \cup Workers
      /\ BootShape' /\ Budget' /\ OneWorker'
  BY <1>1, SpawnKept
<1>3. Threads' /\ UNCHANGED <<types, outbox>>
  BY <1>0, <1>1, <1>2, SpawnEffect
<1>4. ClientTypeOK'
  BY <1>0, <1>1, <1>2, <1>3 DEF ClientTypeOK, Threads, callers
<1> QED BY <1>2, <1>4 DEF ClientInv

LEMMA BundleFailsKept ==
    ASSUME ClientInv, BundleFails
    PROVE  ClientInv'
<1>0. ClientTypeOK /\ faults \in Nat /\ spawned \in Nat
  BY BoundFacts DEF ClientInv, ClientTypeOK
<1>1. /\ boot = "bundle" /\ boot' = "no" /\ faults < MaxFaults /\ faults' = faults + 1
      /\ UNCHANGED <<since, answer, bundle, awaited, worker, userTypes, pending, updates>>
      /\ UNCHANGED <<spawned, proc, types, inbox, outbox>>
  BY DEF BundleFails, Fault, threads
<1>2. call' \in [Callers -> {"none", "boot", "asked"} \cup Settled]
  BY <1>0, BootSettlesType DEF BundleFails
<1>3. faults' \in 0..MaxFaults
  BY <1>0, <1>1, BoundFacts
<1>4. ClientTypeOK'
  BY <1>0, <1>1, <1>2, <1>3 DEF ClientTypeOK
<1>5. BootShape' /\ OneWorker'
  BY <1>1 DEF ClientInv, BootShape, OneWorker, Lives
<1>6. Budget'
  BY <1>0, <1>1 DEF ClientInv, Budget, InUse
<1> QED BY <1>4, <1>5, <1>6 DEF ClientInv

LEMMA EnsureReadyKept ==
    ASSUME ClientInv, NEW c \in Callers, EnsureReady(c)
    PROVE  ClientInv'
<1>0. ClientTypeOK
  BY DEF ClientInv
<1>1. /\ call' \in [Callers -> {"none", "boot", "asked"} \cup Settled]
      /\ UNCHANGED <<bundle, awaited, worker, userTypes, pending, updates, faults>>
      /\ Forget(c)
  BY <1>0 DEF EnsureReady, ClientTypeOK, Settled
<1>2. since' \in [Callers -> Versions] /\ answer' \in [Callers -> Versions]
  BY <1>0, <1>1, ForgetType
<1>3. CASE (worker # 0 /\ bundle) \/ boot # "no"
  <2>1. UNCHANGED <<boot, spawned, proc, types, inbox, outbox>>
    BY <1>3 DEF EnsureReady, threads
  <2>2. ClientTypeOK'
    BY <1>0, <1>1, <1>2, <2>1 DEF ClientTypeOK
  <2> QED BY <1>1, <2>1, <2>2, SameWorkers
<1>4. CASE ~((worker # 0 /\ bundle) \/ boot # "no") /\ bundle
  <2>1. boot = "no" /\ worker = 0 /\ boot' = "init" /\ Spawn /\ bundle'
    BY <1>1, <1>4 DEF EnsureReady
  <2>2. /\ spawned + 1 \in Workers /\ spawned' \in {0} \cup Workers
        /\ BootShape' /\ Budget' /\ OneWorker'
    BY <1>1, <2>1, SpawnKept
  <2>3. Threads' /\ UNCHANGED <<types, outbox>>
    BY <1>0, <2>1, <2>2, SpawnEffect
  <2>4. ClientTypeOK'
    BY <1>0, <1>1, <1>2, <2>1, <2>2, <2>3 DEF ClientTypeOK, Threads
  <2> QED BY <2>2, <2>4 DEF ClientInv
<1>5. CASE ~((worker # 0 /\ bundle) \/ boot # "no") /\ ~bundle
  <2>1. boot = "no" /\ boot' = "bundle" /\ UNCHANGED <<spawned, proc, types, inbox, outbox>>
    BY <1>5 DEF EnsureReady, threads
  <2>2. ClientTypeOK'
    BY <1>0, <1>1, <1>2, <2>1 DEF ClientTypeOK
  <2>3. BootShape' /\ OneWorker' /\ (InUse' <=> InUse)
    BY <1>1, <1>5, <2>1 DEF ClientInv, BootShape, OneWorker, Lives, InUse
  <2>4. Budget'
    BY <1>1, <2>1, <2>3 DEF ClientInv, Budget
  <2> QED BY <2>2, <2>3, <2>4 DEF ClientInv
<1> QED BY <1>3, <1>4, <1>5

LEMMA ClassifyKept ==
    ASSUME ClientInv, NEW c \in Callers, Classify(c)
    PROVE  ClientInv'
<1>0. ClientTypeOK
  BY DEF ClientInv
<1>1. /\ UNCHANGED <<answer, bundle, boot, awaited, worker, userTypes, updates,
                     spawned, proc, types, outbox, faults>>
      /\ since' \in [Callers -> Versions] /\ pending' \in SUBSET Callers
      /\ call' \in [Callers -> {"none", "boot", "asked"} \cup Settled]
  BY <1>0 DEF Classify, ClientTypeOK, Settled
<1>2. inbox' \in [Workers -> Seq(ToWorker)]
  <2>1. CASE worker = 0
    BY <1>0, <2>1 DEF Classify, ClientTypeOK
  <2>2. CASE worker # 0
    <3>1. worker \in Workers /\ Post(worker, Sample(c))
      BY <1>0, <2>2 DEF Classify, ClientTypeOK
    <3> QED BY <1>0, <3>1, PostEffect, MessageShape
  <2> QED BY <2>1, <2>2
<1>3. ClientTypeOK'
  BY <1>0, <1>1, <1>2 DEF ClientTypeOK
<1> QED BY <1>1, <1>3, SameWorkers

LEMMA SetUserTypesKept ==
    ASSUME ClientInv, SetUserTypes
    PROVE  ClientInv'
<1>0. ClientTypeOK
  BY DEF ClientInv
<1>1. userTypes + 1 \in Versions
  BY <1>0, BoundFacts DEF SetUserTypes, ClientTypeOK, Versions
<1>2. /\ UNCHANGED <<call, since, answer, bundle, boot, awaited, worker, pending,
                     spawned, proc, types, outbox, faults>>
      /\ userTypes' \in Versions /\ updates' \in SUBSET Versions
  BY <1>0, <1>1 DEF SetUserTypes, ClientTypeOK, callers
<1>3. inbox' \in [Workers -> Seq(ToWorker)]
  <2>1. CASE worker = 0
    BY <1>0, <2>1 DEF SetUserTypes, ClientTypeOK
  <2>2. CASE worker # 0
    <3>1. worker \in Workers /\ Post(worker, SetTypes(userTypes + 1))
      BY <1>0, <2>2 DEF SetUserTypes, ClientTypeOK
    <3> QED BY <1>0, <1>1, <3>1, PostEffect, MessageShape
  <2> QED BY <2>1, <2>2
<1>4. ClientTypeOK'
  BY <1>0, <1>2, <1>3 DEF ClientTypeOK
<1> QED BY <1>2, <1>4, SameWorkers

LEMMA ResumeKept ==
    ASSUME ClientInv, NEW c \in Callers, Resume(c)
    PROVE  ClientInv'
<1>0. ClientTypeOK
  BY DEF ClientInv
<1>1. since' \in [Callers -> Versions] /\ answer' \in [Callers -> Versions]
  BY <1>0, ForgetType DEF Resume
<1>2. /\ call' \in [Callers -> {"none", "boot", "asked"} \cup Settled]
      /\ UNCHANGED <<bundle, boot, awaited, worker, userTypes, pending, updates,
                     spawned, proc, types, inbox, outbox, faults>>
  BY <1>0 DEF Resume, ClientTypeOK, Settled, page, threads
<1>3. ClientTypeOK'
  BY <1>0, <1>1, <1>2 DEF ClientTypeOK
<1> QED BY <1>2, <1>3, SameWorkers

LEMMA ClientStepKept ==
    ASSUME ClientInv, ClientStep
    PROVE  ClientInv'
<1>1. CASE InitTimer
  BY <1>1, BootFailsKept DEF InitTimer, Late, Fault
<1>2. CASE RequestTimer
  BY <1>2, FailWorkerKept DEF RequestTimer, Late, Fault
<1>3. CASE WorkerBreaks
  BY <1>3, BootFailsKept, FailWorkerKept DEF WorkerBreaks, Fault
<1> QED
  BY <1>1, <1>2, <1>3, BundleLoadsKept, BundleFailsKept, DeliverKept, WorkerTakesKept,
     WorkerHangsKept
  DEF ClientStep

LEMMA ClientKept ==
    ASSUME ClientInv, [ClientNext]_client
    PROVE  ClientInv'
<1>1. CASE UNCHANGED client
  <2>1. UNCHANGED <<call, since, answer, bundle, boot, awaited, worker, userTypes, pending,
                    updates, spawned, proc, types, inbox, outbox, faults>>
    BY <1>1 DEF client, callers, page, threads
  <2>2. ClientTypeOK'
    BY <2>1 DEF ClientInv, ClientTypeOK
  <2> QED BY <2>1, <2>2, SameWorkers
<1>2. CASE ClientStep
  BY <1>2, ClientStepKept
<1>3. CASE \E c \in Callers : EnsureReady(c) \/ Classify(c) \/ Resume(c)
  BY <1>3, EnsureReadyKept, ClassifyKept, ResumeKept
<1>4. CASE SetUserTypes
  BY <1>4, SetUserTypesKept
<1> QED BY <1>1, <1>2, <1>3, <1>4 DEF ClientNext

LEMMA ClientStarts == ClientInit => ClientInv
<1> SUFFICES ASSUME ClientInit PROVE ClientInv
  OBVIOUS
<1>1. <<>> \in Seq(ToWorker) /\ <<>> \in Seq(ToPage)
  OBVIOUS
<1>2. ClientTypeOK
  <2>1. 0 \in 0..MaxFaults
    BY BoundFacts
  <2>2. /\ inbox \in [Workers -> Seq(ToWorker)] /\ outbox \in [Workers -> Seq(ToPage)]
        /\ proc \in [Workers -> {"none", "running", "hung", "terminated"}]
        /\ types \in [Workers -> Versions]
    BY <1>1, BoundFacts DEF ClientInit
  <2>3. /\ call \in [Callers -> {"none", "boot", "asked"} \cup Settled]
        /\ since \in [Callers -> Versions] /\ answer \in [Callers -> Versions]
    BY BoundFacts DEF ClientInit
  <2> QED BY <2>1, <2>2, <2>3, BoundFacts DEF ClientInit, ClientTypeOK
<1>3. boot = "no" /\ worker = 0 /\ spawned = 0 /\ faults = 0
      /\ \A w \in Workers : proc[w] = "none"
  BY DEF ClientInit
<1>4. BootShape /\ OneWorker
  BY <1>3 DEF BootShape, OneWorker, Lives
<1>5. Budget
  BY <1>3 DEF Budget, InUse
<1> QED BY <1>2, <1>4, <1>5 DEF ClientInv

-----------------------------------------------------------------------------
(* What keeps the answers fresh.                                           *)

Update(m) == m.type = "set_user_types"
About(m, c) == m.type \in {"classify", "classify_result", "error"} /\ m.caller = c

(* A worker is sent ever newer user types, never newer than the page's.    *)
Ascending(w) ==
    /\ types[w] <= userTypes
    /\ \A i \in DOMAIN inbox[w] : Update(inbox[w][i]) =>
         types[w] <= inbox[w][i].types /\ inbox[w][i].types <= userTypes
    /\ \A i, j \in DOMAIN inbox[w] :
         i < j /\ Update(inbox[w][i]) /\ Update(inbox[w][j])
           => inbox[w][i].types <= inbox[w][j].types

(* The worker in use has the page's user types, or they are on the way.    *)
Informed == worker # 0 =>
    \/ types[worker] = userTypes
    \/ \E i \in DOMAIN inbox[worker] :
         Update(inbox[worker][i]) /\ inbox[worker][i].types = userTypes

(* Only a caller that waits has a message under way, and only one.         *)
OneMessage(w, c) ==
    /\ \A i \in DOMAIN inbox[w] : About(inbox[w][i], c) => c \in pending /\ w = worker
    /\ \A i \in DOMAIN outbox[w] : About(outbox[w][i], c) => c \in pending /\ w = worker
    /\ \A i, j \in DOMAIN inbox[w] : About(inbox[w][i], c) /\ About(inbox[w][j], c) => i = j
    /\ \A i, j \in DOMAIN outbox[w] : About(outbox[w][i], c) /\ About(outbox[w][j], c) => i = j
    /\ \A i \in DOMAIN inbox[w], j \in DOMAIN outbox[w] :
         ~(About(inbox[w][i], c) /\ About(outbox[w][j], c))

(* A sample is behind the user types of the moment it was asked in.        *)
InOrder(w, c) ==
    /\ \A i \in DOMAIN inbox[w] : About(inbox[w][i], c) =>
         \/ types[w] >= since[c]
         \/ \E j \in DOMAIN inbox[w] :
              j < i /\ Update(inbox[w][j]) /\ inbox[w][j].types >= since[c]
    /\ \A i \in DOMAIN outbox[w] :
         About(outbox[w][i], c) /\ outbox[w][i].type = "classify_result"
           => outbox[w][i].types >= since[c]

UpToDate(w) == Ascending(w) /\ \A c \in Callers : OneMessage(w, c) /\ InOrder(w, c)

Waiting == \A c \in Callers : c \in pending <=> call[c] = "asked"

Queues == Informed /\ \A w \in Workers : UpToDate(w)
FreshInv == ClientInv /\ Queues /\ Waiting /\ AnswerFresh

LEMMA Contents ==
    /\ \A v : /\ Update(SetTypes(v)) /\ SetTypes(v).types = v
             /\ \A c : ~About(SetTypes(v), c) /\ ~About(Applied(v), c)
    /\ \A c : /\ ~Update(Sample(c)) /\ ~About(InitMessage, c) /\ ~About(InitOk, c)
             /\ \A d : (About(Sample(c), d) <=> c = d) /\ (About(Failed(c), d) <=> c = d)
    /\ \A c, v : /\ Classified(c, v).types = v
                /\ \A d : About(Classified(c, v), d) <=> c = d
    /\ \A c : Failed(c).type # "classify_result"
    /\ ~Update(InitMessage)
BY DEF Update, About, SetTypes, Applied, Sample, Classified, Failed, InitMessage, InitOk

LEMMA Domains ==
    ASSUME ClientTypeOK, NEW w \in Workers
    PROVE  /\ inbox[w] \in Seq(ToWorker) /\ outbox[w] \in Seq(ToPage)
           /\ DOMAIN inbox[w] \subseteq Nat /\ DOMAIN outbox[w] \subseteq Nat
           /\ \A i \in DOMAIN inbox[w] : inbox[w][i] \in ToWorker
           /\ \A i \in DOMAIN outbox[w] : outbox[w][i] \in ToPage
           /\ types[w] \in Nat /\ userTypes \in Nat
           /\ \A i \in DOMAIN inbox[w] : Update(inbox[w][i]) => inbox[w][i].types \in Nat
<1>1. inbox[w] \in Seq(ToWorker) /\ outbox[w] \in Seq(ToPage)
  BY DEF ClientTypeOK
<1>2. /\ DOMAIN inbox[w] \subseteq Nat /\ DOMAIN outbox[w] \subseteq Nat
      /\ \A i \in DOMAIN inbox[w] : inbox[w][i] \in ToWorker
      /\ \A i \in DOMAIN outbox[w] : outbox[w][i] \in ToPage
  BY <1>1, ElementOfSeq, LenProperties
<1>3. types[w] \in Nat /\ userTypes \in Nat
  BY BoundFacts DEF ClientTypeOK
<1>4. \A i \in DOMAIN inbox[w] : Update(inbox[w][i]) => inbox[w][i].types \in Nat
  BY <1>2, MessageShape, BoundFacts DEF Update
<1> QED BY <1>1, <1>2, <1>3, <1>4

(* A worker whose queues and types stay stays fresh. *)
LEMMA Untouched ==
    ASSUME ClientTypeOK, ClientTypeOK', NEW w \in Workers, UpToDate(w),
           inbox'[w] = inbox[w], outbox'[w] = outbox[w], types'[w] = types[w],
           userTypes <= userTypes',
           \A c \in Callers : since'[c] = since[c] \/ w # worker \/ c \notin pending,
           \A c \in pending : w = worker => w = worker' /\ c \in pending'
    PROVE  UpToDate(w)'
<1>0. /\ \A i \in DOMAIN inbox[w] : Update(inbox[w][i]) => inbox[w][i].types \in Nat
      /\ types[w] \in Nat /\ userTypes \in Nat /\ userTypes' \in Nat
  BY Domains, BoundFacts DEF ClientTypeOK
<1>1. Ascending(w)'
  BY <1>0 DEF UpToDate, Ascending
<1>2. ASSUME NEW c \in Callers
      PROVE  OneMessage(w, c)'
  BY DEF UpToDate, OneMessage
<1>3. ASSUME NEW c \in Callers
      PROVE  InOrder(w, c)'
  <2>1. OneMessage(w, c) /\ InOrder(w, c)
    BY DEF UpToDate
  <2>2. CASE since'[c] = since[c]
    BY <2>1, <2>2 DEF InOrder
  <2>3. CASE w # worker \/ c \notin pending
    BY <2>1, <2>3 DEF OneMessage, InOrder
  <2> QED BY <2>2, <2>3
<1> QED BY <1>1, <1>2, <1>3 DEF UpToDate

(* Nothing is under way to or from a worker that was terminated. *)
LEMMA Silenced ==
    ASSUME ClientTypeOK, ClientTypeOK', NEW w \in Workers, UpToDate(w),
           inbox'[w] = <<>>, outbox'[w] = <<>>, types'[w] = types[w], userTypes' = userTypes
    PROVE  UpToDate(w)'
<1>1. DOMAIN inbox'[w] = {} /\ DOMAIN outbox'[w] = {}
  OBVIOUS
<1> QED BY <1>1 DEF UpToDate, Ascending, OneMessage, InOrder

(* The worker whose message the page takes. *)
LEMMA TakenByPage ==
    ASSUME ClientTypeOK, ClientTypeOK', NEW w \in Workers, UpToDate(w), outbox[w] # <<>>,
           outbox'[w] = Tail(outbox[w]), inbox'[w] = inbox[w],
           UNCHANGED <<types, userTypes, since, worker>>,
           \A c \in pending : c \in pending' \/ About(Head(outbox[w]), c)
    PROVE  UpToDate(w)'
<1>1. /\ Head(outbox[w]) = outbox[w][1] /\ 1 \in DOMAIN outbox[w]
      /\ \A i \in DOMAIN outbox'[w] : i + 1 \in DOMAIN outbox[w] /\ outbox'[w][i] = outbox[w][i + 1]
  BY Domains, TailAt
<1>2. DOMAIN outbox[w] \subseteq Nat /\ DOMAIN outbox'[w] \subseteq Nat
  <2>1. DOMAIN outbox'[w] \subseteq Nat
    BY LenProperties DEF ClientTypeOK
  <2> QED BY <2>1, Domains
<1>3. Ascending(w)'
  BY DEF UpToDate, Ascending
<1>4. ASSUME NEW c \in Callers
      PROVE  OneMessage(w, c)' /\ InOrder(w, c)'
  <2>1. OneMessage(w, c) /\ InOrder(w, c)
    BY DEF UpToDate
  <2>2. \A i \in DOMAIN outbox'[w] : i + 1 # 1
    BY <1>2
  <2>3. \A i, j \in DOMAIN outbox'[w] : i + 1 = j + 1 => i = j
    BY <1>2
  <2>4. (\A i \in DOMAIN inbox[w] : About(inbox[w][i], c) => c \in pending' /\ w = worker')
    BY <1>1, <2>1 DEF OneMessage
  <2>5. \A i \in DOMAIN outbox'[w] : About(outbox'[w][i], c) => c \in pending' /\ w = worker'
    BY <1>1, <2>1, <2>2 DEF OneMessage
  <2>6. OneMessage(w, c)'
    BY <1>1, <2>1, <2>3, <2>4, <2>5 DEF OneMessage
  <2>7. InOrder(w, c)'
    BY <1>1, <2>1 DEF InOrder
  <2> QED BY <2>6, <2>7
<1> QED BY <1>3, <1>4 DEF UpToDate

(* New user types are sent to a worker. *)
LEMMA ToldTypes ==
    ASSUME ClientTypeOK, ClientTypeOK', NEW w \in Workers, Ascending(w), NEW v \in Versions,
           inbox'[w] = Append(inbox[w], SetTypes(v)), v = userTypes', userTypes <= userTypes',
           UNCHANGED types
    PROVE  /\ Ascending(w)'
           /\ \E i \in DOMAIN inbox'[w] : Update(inbox'[w][i]) /\ inbox'[w][i].types = v
           /\ \A i \in DOMAIN inbox[w] : i \in DOMAIN inbox'[w] /\ inbox'[w][i] = inbox[w][i]
           /\ \A i \in DOMAIN inbox'[w] : \A c : About(inbox'[w][i], c) =>
                  i \in DOMAIN inbox[w] /\ About(inbox[w][i], c)
<1> DEFINE n == Len(inbox[w]) + 1
<1>1. /\ DOMAIN inbox'[w] = 1..n /\ DOMAIN inbox[w] = 1..Len(inbox[w]) /\ Len(inbox[w]) \in Nat
      /\ inbox'[w][n] = SetTypes(v)
      /\ \A i \in DOMAIN inbox[w] : inbox'[w][i] = inbox[w][i]
  BY Domains, AppendAt, MessageShape
<1>2. /\ n \in DOMAIN inbox'[w] /\ DOMAIN inbox[w] \subseteq DOMAIN inbox'[w]
      /\ \A i \in DOMAIN inbox'[w] : i = n \/ i \in DOMAIN inbox[w]
      /\ \A i \in DOMAIN inbox[w] : i < n /\ i \in Nat
      /\ n \in Nat
  BY <1>1
<1> HIDE DEF n
<1>3. /\ types[w] \in Nat /\ userTypes \in Nat /\ userTypes' \in Nat /\ v \in Nat
      /\ \A i \in DOMAIN inbox[w] : Update(inbox[w][i]) => inbox[w][i].types \in Nat
  BY Domains, BoundFacts DEF ClientTypeOK
<1>4. Ascending(w)'
  <2>2. types'[w] <= userTypes'
    BY <1>3 DEF Ascending
  <2>3. ASSUME NEW i \in DOMAIN inbox'[w], Update(inbox'[w][i])
        PROVE  /\ types'[w] <= inbox'[w][i].types
               /\ inbox'[w][i].types <= userTypes' /\ inbox'[w][i].types \in Nat
    <3>1. CASE i = n
      BY <1>1, <1>3, <2>2, <3>1, Contents
    <3>2. CASE i \in DOMAIN inbox[w]
      BY <1>1, <1>3, <2>3, <3>2 DEF Ascending
    <3> QED BY <1>2, <3>1, <3>2
  <2>4. ASSUME NEW i \in DOMAIN inbox'[w], NEW j \in DOMAIN inbox'[w],
               i < j, Update(inbox'[w][i]), Update(inbox'[w][j])
        PROVE  inbox'[w][i].types <= inbox'[w][j].types
    <3>1. CASE j = n
      BY <1>1, <2>3, <2>4, <3>1, Contents
    <3>2. CASE j \in DOMAIN inbox[w]
      <4>1. i \in DOMAIN inbox[w]
        BY <1>2, <2>4, <3>2
      <4> QED BY <1>1, <2>4, <3>2, <4>1 DEF Ascending
    <3> QED BY <1>2, <3>1, <3>2
  <2> QED BY <2>2, <2>3, <2>4 DEF Ascending
<1>5. \A c : ~About(inbox'[w][n], c)
  <2>1. inbox'[w][n].type = "set_user_types"
    BY <1>1 DEF SetTypes, n
  <2> QED BY <2>1 DEF About
<1>6. Update(inbox'[w][n]) /\ inbox'[w][n].types = v
  BY <1>1 DEF n, Update, SetTypes
<1> QED BY <1>1, <1>2, <1>4, <1>5, <1>6

LEMMA Told ==
    ASSUME ClientTypeOK, ClientTypeOK', NEW w \in Workers, UpToDate(w), NEW v \in Versions,
           inbox'[w] = Append(inbox[w], SetTypes(v)), v = userTypes', userTypes <= userTypes',
           outbox'[w] = outbox[w], UNCHANGED <<types, since, pending, worker>>
    PROVE  UpToDate(w)' /\ \E i \in DOMAIN inbox'[w] :
                           Update(inbox'[w][i]) /\ inbox'[w][i].types = v
<1>1. /\ Ascending(w)'
      /\ \E i \in DOMAIN inbox'[w] : Update(inbox'[w][i]) /\ inbox'[w][i].types = v
      /\ \A i \in DOMAIN inbox[w] : i \in DOMAIN inbox'[w] /\ inbox'[w][i] = inbox[w][i]
      /\ \A i \in DOMAIN inbox'[w] : \A c : About(inbox'[w][i], c) =>
             i \in DOMAIN inbox[w] /\ About(inbox[w][i], c)
  BY ToldTypes DEF UpToDate
<1>2. ASSUME NEW c \in Callers
      PROVE  OneMessage(w, c)' /\ InOrder(w, c)'
  <2>1. OneMessage(w, c) /\ InOrder(w, c)
    BY DEF UpToDate
  <2>2. OneMessage(w, c)'
    BY <1>1, <2>1 DEF OneMessage
  <2>3. InOrder(w, c)'
    BY <1>1, <2>1 DEF InOrder
  <2> QED BY <2>2, <2>3
<1> QED BY <1>1, <1>2 DEF UpToDate

(* A worker is adopted: nobody's column was sent to it before. *)
LEMMA Adopted ==
    ASSUME ClientTypeOK, ClientTypeOK', NEW w \in Workers, UpToDate(w), worker = 0, worker' = w,
           UNCHANGED <<types, since, userTypes>>, outbox[w] # <<>>, outbox'[w] = Tail(outbox[w]),
           \/ userTypes = 0 /\ inbox'[w] = inbox[w]
           \/ inbox'[w] = Append(inbox[w], SetTypes(userTypes))
    PROVE  UpToDate(w)' /\ Informed'
<1>0. /\ 0 \notin Workers /\ userTypes \in Versions /\ types[w] \in Nat /\ userTypes \in Nat
      /\ userTypes <= userTypes'
  <2>1. 0 \notin Workers /\ userTypes \in Versions
    BY BoundFacts DEF ClientTypeOK
  <2>2. types[w] \in Nat /\ userTypes \in Nat
    BY Domains
  <2> QED BY <2>1, <2>2
<1>1. /\ \A i \in DOMAIN inbox[w], c \in Callers : ~About(inbox[w][i], c)
      /\ \A i \in DOMAIN outbox[w], c \in Callers : ~About(outbox[w][i], c)
  <2>1. w # worker /\ \A c \in Callers : OneMessage(w, c)
    BY <1>0 DEF UpToDate
  <2> QED BY <2>1 DEF OneMessage
<1>2. \A i \in DOMAIN outbox'[w] : i + 1 \in DOMAIN outbox[w] /\ outbox'[w][i] = outbox[w][i + 1]
  BY Domains, TailAt
<1>3. /\ Ascending(w)' /\ Informed'
      /\ \A i \in DOMAIN inbox'[w], c \in Callers : ~About(inbox'[w][i], c)
  <2>1. CASE userTypes = 0 /\ inbox'[w] = inbox[w]
    <3>1. Ascending(w)'
      BY <2>1 DEF UpToDate, Ascending
    <3>2. types[w] = userTypes
      BY <1>0, <2>1 DEF UpToDate, Ascending
    <3> QED BY <1>1, <2>1, <3>1, <3>2 DEF Informed
  <2>2. CASE inbox'[w] = Append(inbox[w], SetTypes(userTypes))
    <3>1. /\ Ascending(w)'
          /\ \E i \in DOMAIN inbox'[w] : Update(inbox'[w][i]) /\ inbox'[w][i].types = userTypes
          /\ \A i \in DOMAIN inbox'[w] : \A c : About(inbox'[w][i], c) =>
                 i \in DOMAIN inbox[w] /\ About(inbox[w][i], c)
      BY <1>0, <2>2, ToldTypes DEF UpToDate
    <3> QED BY <1>1, <3>1 DEF Informed
  <2> QED BY <2>1, <2>2
<1>4. \A c \in Callers : OneMessage(w, c)' /\ InOrder(w, c)'
  BY <1>1, <1>2, <1>3 DEF OneMessage, InOrder
<1> QED BY <1>3, <1>4 DEF UpToDate

(* A column is sent to the worker that knows, or is sent before it, the    *)
(* user types of the moment.                                               *)
LEMMA Asked ==
    ASSUME ClientTypeOK, ClientTypeOK', NEW w \in Workers, UpToDate(w), Informed, w = worker,
           NEW d \in Callers, d \notin pending, pending' = pending \cup {d},
           inbox'[w] = Append(inbox[w], Sample(d)), outbox'[w] = outbox[w],
           since' = [since EXCEPT ![d] = userTypes], UNCHANGED <<types, userTypes, worker>>
    PROVE  UpToDate(w)' /\ Informed'
<1> DEFINE n == Len(inbox[w]) + 1
<1>1. /\ DOMAIN inbox'[w] = 1..n /\ DOMAIN inbox[w] = 1..Len(inbox[w]) /\ Len(inbox[w]) \in Nat
      /\ inbox'[w][n] = Sample(d)
      /\ \A i \in DOMAIN inbox[w] : inbox'[w][i] = inbox[w][i]
  BY Domains, AppendAt, MessageShape
<1>2. /\ n \in DOMAIN inbox'[w] /\ DOMAIN inbox[w] \subseteq DOMAIN inbox'[w]
      /\ \A i \in DOMAIN inbox'[w] : i = n \/ i \in DOMAIN inbox[w]
      /\ \A i \in DOMAIN inbox[w] : i < n /\ i \in Nat
      /\ n \in Nat
  BY <1>1
<1> HIDE DEF n
<1>3. \A i \in DOMAIN inbox'[w] : Update(inbox'[w][i]) => i \in DOMAIN inbox[w]
  BY <1>1, <1>2, Contents
<1>4. Ascending(w)'
  BY ZenonT(60), <1>1, <1>3 DEF UpToDate, Ascending
<1>5. Informed'
  BY <1>1, <1>2 DEF Informed
<1>6. types[w] \in Nat /\ userTypes \in Nat
  BY Domains
<1>7. ASSUME NEW c \in Callers
      PROVE  OneMessage(w, c)' /\ InOrder(w, c)'
  <2>1. OneMessage(w, c) /\ InOrder(w, c)
    BY DEF UpToDate
  <2>2. CASE c # d
    <3>1. \A i \in DOMAIN inbox'[w] : About(inbox'[w][i], c) =>
             i \in DOMAIN inbox[w] /\ About(inbox[w][i], c)
      BY <1>1, <1>2, <2>2, Contents
    <3>2. since'[c] = since[c]
      BY <2>2 DEF ClientTypeOK
    <3>3. OneMessage(w, c)'
      BY <2>1, <3>1 DEF OneMessage
    <3>4. InOrder(w, c)'
      BY <1>1, <1>2, <2>1, <3>1, <3>2 DEF InOrder
    <3> QED BY <3>3, <3>4
  <2>3. CASE c = d
    <3>1. /\ \A i \in DOMAIN inbox[w] : ~About(inbox[w][i], d)
          /\ \A i \in DOMAIN outbox[w] : ~About(outbox[w][i], d)
      BY <2>1, <2>3 DEF OneMessage
    <3>2. \A i \in DOMAIN inbox'[w] : About(inbox'[w][i], d) => i = n
      BY <1>1, <1>2, <3>1
    <3>3. since'[d] = userTypes
      BY DEF ClientTypeOK
    <3>4. OneMessage(w, c)'
      BY <2>3, <3>1, <3>2 DEF OneMessage
    <3>5. \/ types'[w] >= since'[d]
          \/ \E j \in DOMAIN inbox'[w] :
                j < n /\ Update(inbox'[w][j]) /\ inbox'[w][j].types >= since'[d]
      <4>1. CASE types[w] = userTypes
        BY <1>6, <3>3, <4>1
      <4>2. CASE \E i \in DOMAIN inbox[w] : Update(inbox[w][i]) /\ inbox[w][i].types = userTypes
        BY <1>1, <1>2, <1>6, <3>3, <4>2
      <4>3. worker # 0
        BY BoundFacts
      <4> QED BY <4>1, <4>2, <4>3 DEF Informed
    <3>6. InOrder(w, c)'
      BY <2>3, <3>1, <3>2, <3>5 DEF InOrder
    <3> QED BY <3>4, <3>6
  <2> QED BY <2>2, <2>3
<1> QED BY <1>4, <1>5, <1>7 DEF UpToDate

(* A worker takes its first message. *)
LEMMA TakenByWorker ==
    ASSUME ClientTypeOK, ClientTypeOK', NEW w \in Workers, UpToDate(w), Informed, Waiting,
           inbox[w] # <<>>, Replies(w, Head(inbox[w])), inbox' = [inbox EXCEPT ![w] = Tail(@)],
           UNCHANGED <<callers, page>>
    PROVE  UpToDate(w)' /\ Informed'
<1> DEFINE m == inbox[w][1]
           n == Len(outbox[w]) + 1
<1>0. UNCHANGED <<call, since, answer, worker, userTypes, pending>>
  BY DEF callers, page
<1>1. /\ inbox[w] \in Seq(ToWorker) /\ inbox'[w] = Tail(inbox[w])
      /\ outbox[w] \in Seq(ToPage)
  BY Domains DEF ClientTypeOK
<1>2. /\ Head(inbox[w]) = m /\ 1 \in DOMAIN inbox[w] /\ m \in ToWorker
      /\ \A i \in DOMAIN inbox'[w] : i + 1 \in DOMAIN inbox[w] /\ inbox'[w][i] = inbox[w][i + 1]
      /\ \A i \in DOMAIN inbox[w] : i # 1 => i - 1 \in DOMAIN inbox'[w]
  BY ZenonT(60), <1>1, TailAt
<1>3. DOMAIN inbox[w] \subseteq Nat \ {0} /\ DOMAIN inbox'[w] \subseteq Nat \ {0}
  <2>1. inbox'[w] \in Seq(ToWorker)
    BY DEF ClientTypeOK
  <2> QED BY <1>1, <2>1, LenProperties
<1>4. /\ types[w] \in Nat /\ userTypes \in Nat
      /\ \A i \in DOMAIN inbox[w] : Update(inbox[w][i]) => inbox[w][i].types \in Nat
  BY Domains
<1>5. PICK reply \in ToPage :
        /\ outbox'[w] = Append(outbox[w], reply)
        /\ \/ /\ Update(m) /\ types' = [types EXCEPT ![w] = m.types]
              /\ \A c : ~About(reply, c)
           \/ /\ ~Update(m) /\ UNCHANGED types /\ \A c : ~About(reply, c)
           \/ /\ ~Update(m) /\ UNCHANGED types
              /\ \A c : About(reply, c) => About(m, c)
              /\ reply.type = "classify_result" => reply.types = types[w]
  <2> HIDE DEF m
  <2>1. outbox \in [Workers -> Seq(ToPage)] /\ types[w] \in Versions
    BY DEF ClientTypeOK
  <2>2. /\ m.type = "set_user_types" => m.types \in Versions
        /\ m.type = "classify" => m.caller \in Callers
    BY <1>2, MessageShape
  <2>3. CASE m.type = "init"
    <3>1. InitOk \in ToPage /\ ~Update(m) /\ \A c : ~About(InitOk, c)
      BY <2>3, MessageShape DEF Update, About, InitOk
    <3>2. outbox'[w] = Append(outbox[w], InitOk) /\ UNCHANGED types
      BY <1>2, <2>1, <2>3 DEF Replies
    <3> QED BY <3>1, <3>2
  <2>4. CASE m.type = "set_user_types"
    <3>1. Applied(m.types) \in ToPage /\ Update(m) /\ \A c : ~About(Applied(m.types), c)
      BY <2>2, <2>4, MessageShape DEF Update, About, Applied
    <3>2. /\ outbox'[w] = Append(outbox[w], Applied(m.types))
          /\ types' = [types EXCEPT ![w] = m.types]
      BY <1>2, <2>1, <2>4 DEF Replies
    <3> QED BY <3>1, <3>2
  <2>5. CASE m.type = "classify"
    <3>1. \A c : m.caller = c => About(m, c)
      BY <2>5 DEF About
    <3>2. ~Update(m) /\ UNCHANGED types
      BY <1>2, <2>5 DEF Replies, Update
    <3>3. CASE outbox'[w] = Append(outbox[w], Classified(m.caller, types[w]))
      <4>1. /\ Classified(m.caller, types[w]) \in ToPage
            /\ Classified(m.caller, types[w]).types = types[w]
            /\ \A c : About(Classified(m.caller, types[w]), c) => m.caller = c
        BY <2>1, <2>2, <2>5, MessageShape DEF About, Classified
      <4> QED BY <3>1, <3>2, <3>3, <4>1
    <3>4. CASE outbox'[w] = Append(outbox[w], Failed(m.caller))
      <4>1. /\ Failed(m.caller) \in ToPage /\ Failed(m.caller).type # "classify_result"
            /\ \A c : About(Failed(m.caller), c) => m.caller = c
        BY <2>2, <2>5, MessageShape DEF About, Failed
      <4> QED BY <3>1, <3>2, <3>4, <4>1
    <3> QED BY <1>2, <2>1, <2>5, <3>3, <3>4 DEF Replies
  <2> QED BY <1>2, <2>3, <2>4, <2>5, MessageShape
<1>6. /\ n \in DOMAIN outbox'[w] /\ outbox'[w][n] = reply
      /\ \A i \in DOMAIN outbox'[w] : i = n \/ (i \in DOMAIN outbox[w] /\ outbox'[w][i] = outbox[w][i])
  BY <1>1, <1>5, AppendAt
<1> HIDE DEF n
<1>7. /\ types[w] <= types'[w] /\ types'[w] \in Nat
      /\ Update(m) => types'[w] = m.types
      /\ types'[w] = types[w] \/ (Update(m) /\ types'[w] = m.types)
  <2>1. types \in [Workers -> Versions]
    BY DEF ClientTypeOK
  <2> QED BY <1>2, <1>4, <1>5, <2>1 DEF UpToDate, Ascending
<1>8. Ascending(w)'
  <2>1. Ascending(w)
    BY DEF UpToDate
  <2>2. types'[w] <= userTypes
    BY <1>2, <1>7, <2>1 DEF Ascending
  <2>3. ASSUME NEW i \in DOMAIN inbox'[w], Update(inbox'[w][i])
        PROVE  types'[w] <= inbox'[w][i].types /\ inbox'[w][i].types <= userTypes
    <3>1. 1 < i + 1 /\ i + 1 \in DOMAIN inbox[w] /\ Update(inbox[w][i + 1])
      BY <1>2, <1>3, <2>3
    <3>2. types[w] <= inbox[w][i + 1].types /\ inbox[w][i + 1].types <= userTypes
      BY <2>1, <3>1 DEF Ascending
    <3>3. Update(m) => m.types <= inbox[w][i + 1].types
      BY <1>2, <2>1, <3>1 DEF Ascending
    <3> QED BY <1>2, <1>7, <2>3, <3>2, <3>3
  <2>4. ASSUME NEW i \in DOMAIN inbox'[w], NEW j \in DOMAIN inbox'[w],
               i < j, Update(inbox'[w][i]), Update(inbox'[w][j])
        PROVE  inbox'[w][i].types <= inbox'[w][j].types
    <3>1. i + 1 < j + 1
      BY <1>3, <2>4
    <3> QED BY <1>2, <2>1, <2>4, <3>1 DEF Ascending
  <2> QED BY <1>0, <2>2, <2>3, <2>4 DEF Ascending
<1>9. ASSUME NEW c \in Callers
      PROVE  OneMessage(w, c)' /\ InOrder(w, c)'
  <2>1. OneMessage(w, c) /\ InOrder(w, c) /\ since[c] \in Nat
    BY BoundFacts DEF UpToDate, ClientTypeOK
  <2>2. \A i, j \in DOMAIN inbox'[w] : i + 1 = j + 1 => i = j
    BY <1>3
  <2>3. \A i \in DOMAIN inbox'[w] : i + 1 # 1
    BY <1>3
  <2>4. About(reply, c) => About(m, c)
    BY <1>5
  <2>5. About(m, c) => /\ c \in pending /\ w = worker
                       /\ \A i \in DOMAIN inbox'[w] : ~About(inbox'[w][i], c)
                       /\ \A i \in DOMAIN outbox[w] : ~About(outbox[w][i], c)
    BY <1>2, <2>1, <2>3 DEF OneMessage
  <2>6. OneMessage(w, c)'
    <3>1. \A i \in DOMAIN inbox'[w] : About(inbox'[w][i], c) => c \in pending' /\ w = worker'
      BY <1>0, <1>2, <2>1 DEF OneMessage
    <3>2. \A i \in DOMAIN outbox'[w] : About(outbox'[w][i], c) => c \in pending' /\ w = worker'
      BY <1>0, <1>6, <2>1, <2>4, <2>5 DEF OneMessage
    <3>3. \A i, j \in DOMAIN inbox'[w] :
            About(inbox'[w][i], c) /\ About(inbox'[w][j], c) => i = j
      <4> SUFFICES ASSUME NEW i \in DOMAIN inbox'[w], NEW j \in DOMAIN inbox'[w],
                          About(inbox'[w][i], c), About(inbox'[w][j], c)
                   PROVE  i = j
        OBVIOUS
      <4>1. /\ i + 1 \in DOMAIN inbox[w] /\ About(inbox[w][i + 1], c)
            /\ j + 1 \in DOMAIN inbox[w] /\ About(inbox[w][j + 1], c)
        BY <1>2
      <4> QED BY <2>1, <2>2, <4>1 DEF OneMessage
    <3>4. \A i, j \in DOMAIN outbox'[w] :
            About(outbox'[w][i], c) /\ About(outbox'[w][j], c) => i = j
      BY <1>6, <2>1, <2>4, <2>5 DEF OneMessage
    <3>5. \A i \in DOMAIN inbox'[w], j \in DOMAIN outbox'[w] :
            ~(About(inbox'[w][i], c) /\ About(outbox'[w][j], c))
      BY <1>2, <1>6, <2>1, <2>4, <2>5 DEF OneMessage
    <3> QED BY <3>1, <3>2, <3>3, <3>4, <3>5 DEF OneMessage
  <2>7. InOrder(w, c)'
    <3>1. ASSUME NEW i \in DOMAIN inbox'[w], About(inbox'[w][i], c)
          PROVE  \/ types'[w] >= since[c]
                 \/ \E j \in DOMAIN inbox'[w] :
                       j < i /\ Update(inbox'[w][j]) /\ inbox'[w][j].types >= since[c]
      <4>1. i + 1 \in DOMAIN inbox[w] /\ About(inbox[w][i + 1], c)
        BY <1>2, <3>1
      <4>2. CASE types[w] >= since[c]
        BY <1>4, <1>7, <2>1, <4>2
      <4>3. ASSUME NEW j \in DOMAIN inbox[w], j < i + 1, Update(inbox[w][j]),
                   inbox[w][j].types >= since[c]
            PROVE  \/ types'[w] >= since[c]
                   \/ \E k \in DOMAIN inbox'[w] :
                         k < i /\ Update(inbox'[w][k]) /\ inbox'[w][k].types >= since[c]
        <5>1. CASE j = 1
          BY <1>7, <4>3, <5>1
        <5>2. CASE j # 1
          <6>1. j - 1 \in DOMAIN inbox'[w] /\ j - 1 < i /\ (j - 1) + 1 = j
            BY SMTT(30), <1>2, <1>3, <4>3, <5>2
          <6>2. inbox'[w][j - 1] = inbox[w][j]
            BY <1>2, <6>1
          <6> QED BY <4>3, <6>1, <6>2
        <5> QED BY <5>1, <5>2
      <4> QED BY <2>1, <4>1, <4>2, <4>3 DEF InOrder
    <3>2. ASSUME NEW i \in DOMAIN outbox'[w], About(outbox'[w][i], c),
                 outbox'[w][i].type = "classify_result"
          PROVE  outbox'[w][i].types >= since[c]
      <4>1. CASE i # n
        BY <1>6, <2>1, <3>2, <4>1 DEF InOrder
      <4>2. CASE i = n
        <5>1. About(reply, c) /\ reply.type = "classify_result"
          BY <1>6, <3>2, <4>2
        <5>2. About(m, c) /\ reply.types = types[w]
          BY <1>5, <5>1
        <5>3. types[w] >= since[c]
          <6>1. \A j \in DOMAIN inbox[w] : ~(j < 1)
            BY <1>3
          <6> QED BY <1>2, <2>1, <5>2, <6>1 DEF InOrder
        <5> QED BY <1>6, <4>2, <5>2, <5>3
      <4> QED BY <4>1, <4>2
    <3> QED BY <1>0, <3>1, <3>2 DEF InOrder
  <2> QED BY <2>6, <2>7
<1>10. Informed'
  <2>1. CASE w # worker
    <3>1. worker \in Workers => inbox'[worker] = inbox[worker] /\ types'[worker] = types[worker]
      BY <1>5, <2>1 DEF ClientTypeOK
    <3> QED BY <1>0, <3>1 DEF Informed, ClientTypeOK
  <2>2. CASE w = worker
    <3>1. CASE types[w] = userTypes
      <4>1. types'[w] <= userTypes
        BY <1>0, <1>8 DEF Ascending
      <4> QED BY <1>0, <1>4, <1>7, <2>2, <3>1, <4>1 DEF Informed
    <3>2. ASSUME NEW i \in DOMAIN inbox[w], Update(inbox[w][i]), inbox[w][i].types = userTypes
          PROVE  Informed'
      <4>1. CASE i = 1
        BY <1>0, <1>7, <2>2, <3>2, <4>1 DEF Informed
      <4>2. CASE i # 1
        <5>1. i - 1 \in DOMAIN inbox'[w] /\ (i - 1) + 1 = i
          BY <1>2, <1>3, <3>2, <4>2
        <5>2. inbox'[w][i - 1] = inbox[w][i]
          BY <1>2, <5>1
        <5> QED BY <1>0, <2>2, <3>2, <5>1, <5>2 DEF Informed
      <4> QED BY <4>1, <4>2
    <3>3. worker # 0
      BY <2>2, BoundFacts
    <3> QED BY <2>2, <3>1, <3>2, <3>3 DEF Informed
  <2> QED BY <2>1, <2>2
<1> QED BY <1>8, <1>9, <1>10 DEF UpToDate

-----------------------------------------------------------------------------
(* Every step of the client keeps its answers fresh.                       *)

LEMMA QueuesStay ==
    ASSUME ClientTypeOK, ClientTypeOK', Queues,
           UNCHANGED <<types, inbox, outbox, userTypes, worker, pending>>,
           \A c \in Callers : since'[c] = since[c] \/ c \notin pending
    PROVE  Queues'
<1>1. userTypes <= userTypes'
  BY BoundFacts DEF ClientTypeOK
<1>2. \A w \in Workers : UpToDate(w)'
  BY <1>1, Untouched DEF Queues, ClientTypeOK
<1>3. Informed'
  BY DEF Queues, Informed
<1> QED BY <1>2, <1>3 DEF Queues

LEMMA QueuesOfSpawned ==
    ASSUME ClientTypeOK, ClientTypeOK', Queues, worker = 0, spawned + 1 \in Workers, Spawn,
           UNCHANGED <<userTypes, worker, pending>>
    PROVE  Queues'
<1>1. userTypes <= userTypes' /\ 0 \notin Workers
  BY BoundFacts DEF ClientTypeOK
<1>2. /\ UNCHANGED <<types, outbox>> /\ spawned' \in Workers
      /\ inbox'[spawned'] = <<InitMessage>>
      /\ \A w \in Workers : w # spawned' => inbox'[w] = inbox[w]
  BY SpawnEffect
<1>3. ASSUME NEW w \in Workers, w # spawned'
      PROVE  UpToDate(w)'
  BY <1>1, <1>2, <1>3, Untouched DEF Queues, ClientTypeOK
<1>4. ASSUME NEW v \in Workers, v = spawned'
      PROVE  UpToDate(v)'
  <2>1. UpToDate(v)
    BY DEF Queues
  <2>2. /\ \A i \in DOMAIN inbox'[v] : inbox'[v][i] = InitMessage
        /\ outbox'[v] = outbox[v] /\ types'[v] = types[v]
    BY <1>2, <1>4
  <2>3. \A i \in DOMAIN inbox'[v] :
           ~Update(inbox'[v][i]) /\ \A c \in Callers : ~About(inbox'[v][i], c)
    BY <2>2, Contents
  <2>4. Ascending(v)'
    BY <1>1, <2>1, <2>2, <2>3 DEF UpToDate, Ascending
  <2>5. ASSUME NEW c \in Callers
        PROVE  OneMessage(v, c)' /\ InOrder(v, c)'
    <3>1. \A i \in DOMAIN outbox[v] : ~About(outbox[v][i], c)
      BY <1>1, <2>1, <2>2 DEF UpToDate, OneMessage
    <3> QED BY <2>2, <2>3, <3>1 DEF OneMessage, InOrder
  <2> QED BY <2>4, <2>5 DEF UpToDate
<1>5. Informed'
  BY DEF Informed
<1> QED BY <1>3, <1>4, <1>5 DEF Queues

LEMMA QueuesOfTerminated ==
    ASSUME ClientTypeOK, ClientTypeOK', Queues, NEW w \in Workers, Terminate(w),
           UNCHANGED <<types, userTypes, since>>, worker' = 0,
           worker = w \/ (worker = 0 /\ UNCHANGED pending)
    PROVE  Queues'
<1>1. userTypes <= userTypes' /\ 0 \notin Workers
  BY BoundFacts DEF ClientTypeOK
<1>2. /\ inbox'[w] = <<>> /\ outbox'[w] = <<>>
      /\ \A v \in Workers : v # w => inbox'[v] = inbox[v] /\ outbox'[v] = outbox[v]
  BY TerminateEffect
<1>3. UpToDate(w)'
  BY <1>2, Silenced DEF Queues
<1>4. ASSUME NEW v \in Workers, v # w
      PROVE  UpToDate(v)'
  BY <1>1, <1>2, <1>4, Untouched DEF Queues
<1>5. Informed'
  BY DEF Informed
<1> QED BY <1>3, <1>4, <1>5 DEF Queues

LEMMA SameAsking ==
    ASSUME Waiting, AnswerFresh, UNCHANGED pending,
           \A c \in Callers :
              /\ call'[c] = "asked" <=> call[c] = "asked"
              /\ call'[c] = "answered" =>
                   call[c] = "answered" /\ since'[c] = since[c] /\ answer'[c] = answer[c]
    PROVE  Waiting' /\ AnswerFresh'
BY DEF Waiting, AnswerFresh

LEMMA Settling ==
    ASSUME NEW as \in {"ready", "rejected"}, call' = BootSettles(as), NEW c \in Callers
    PROVE  /\ call'[c] = "asked" <=> call[c] = "asked"
           /\ call'[c] = "answered" => call[c] = "answered"
BY DEF BootSettles

LEMMA EnsureReadyFresh ==
    ASSUME FreshInv, ClientTypeOK', NEW c \in Callers, EnsureReady(c)
    PROVE  Queues' /\ Waiting' /\ AnswerFresh'
<1>0. ClientTypeOK /\ ClientInv /\ Queues
  BY DEF FreshInv, ClientInv
<1>1. /\ UNCHANGED <<bundle, awaited, worker, userTypes, pending, updates, faults>>
      /\ Forget(c) /\ call[c] \notin {"boot", "asked"}
      /\ call'[c] \in {"ready", "boot"}
      /\ \A d \in Callers : d # c => call'[d] = call[d]
  BY <1>0 DEF EnsureReady, Free, ClientTypeOK
<1>2. c \notin pending
  BY <1>1 DEF FreshInv, Waiting
<1>3. \A d \in Callers : d # c => since'[d] = since[d] /\ answer'[d] = answer[d]
  BY <1>0, <1>1, ForgetType
<1>4. Waiting' /\ AnswerFresh'
  BY <1>1, <1>3, SameAsking DEF FreshInv
<1>5. CASE (worker # 0 /\ bundle) \/ boot # "no" \/ ~bundle
  <2>1. UNCHANGED <<types, inbox, outbox>>
    BY <1>5 DEF EnsureReady, threads
  <2> QED BY <1>0, <1>1, <1>2, <1>3, <1>4, <2>1, QueuesStay
<1>6. CASE ~((worker # 0 /\ bundle) \/ boot # "no" \/ ~bundle)
  <2>1. /\ boot = "no" /\ worker = 0 /\ boot' = "init" /\ bundle' /\ Spawn
        /\ UNCHANGED <<worker, faults>>
    BY <1>1, <1>6 DEF EnsureReady
  <2>2. spawned + 1 \in Workers
    BY <1>0, <2>1, SpawnKept
  <2>3. Queues'
    <3>1. \A w \in Workers : w # worker
      BY <2>1, BoundFacts
    <3> QED BY <1>0, <1>1, <2>1, <2>2, QueuesOfSpawned
  <2> QED BY <1>4, <2>3
<1> QED BY <1>5, <1>6

LEMMA BundleFresh ==
    ASSUME FreshInv, ClientTypeOK', BundleLoads \/ BundleFails
    PROVE  Queues' /\ Waiting' /\ AnswerFresh'
<1>0. ClientTypeOK /\ ClientInv /\ Queues /\ Waiting /\ AnswerFresh
  BY DEF FreshInv, ClientInv
<1>1. CASE BundleLoads
  <2>1. /\ boot \in {"no", "bundle"} /\ worker = 0 /\ boot' = "init" /\ bundle' = TRUE
        /\ Spawn /\ UNCHANGED <<callers, awaited, worker, userTypes, pending, updates, faults>>
    BY <1>0, <1>1 DEF BundleLoads, ClientInv, BootShape
  <2>2. spawned + 1 \in Workers
    BY <1>0, <2>1, SpawnKept
  <2>3. Queues'
    BY <1>0, <2>1, <2>2, QueuesOfSpawned
  <2>4. Waiting' /\ AnswerFresh'
    BY <1>0, <2>1, SameAsking DEF callers
  <2> QED BY <2>3, <2>4
<1>2. CASE BundleFails
  <2>1. /\ UNCHANGED <<since, answer, worker, userTypes, pending, types, inbox, outbox>>
        /\ call' = BootSettles("rejected")
    BY <1>2 DEF BundleFails, threads
  <2> QED BY <1>0, <2>1, QueuesStay, SameAsking, Settling
<1> QED BY <1>1, <1>2

LEMMA BootFailsFresh ==
    ASSUME FreshInv, ClientTypeOK', BootFails
    PROVE  Queues' /\ Waiting' /\ AnswerFresh'
<1>0. ClientTypeOK /\ ClientInv /\ Queues /\ Waiting /\ AnswerFresh
  BY DEF FreshInv, ClientInv
<1>1. /\ worker = 0 /\ spawned \in Workers /\ Terminate(spawned)
      /\ UNCHANGED <<since, answer, worker, userTypes, pending, types>>
      /\ call' = BootSettles("rejected")
  BY <1>0 DEF BootFails, ClientInv, BootShape, ClientTypeOK
<1>2. Queues'
  BY <1>0, <1>1, QueuesOfTerminated
<1>3. Waiting' /\ AnswerFresh'
  BY <1>0, <1>1, SameAsking, Settling
<1> QED BY <1>2, <1>3

LEMMA FailWorkerFresh ==
    ASSUME FreshInv, ClientTypeOK', FailWorker
    PROVE  Queues' /\ Waiting' /\ AnswerFresh'
<1>0. ClientTypeOK /\ Queues /\ Waiting /\ AnswerFresh
  BY DEF FreshInv, ClientInv
<1>1. /\ worker \in Workers /\ Terminate(worker) /\ worker' = 0 /\ pending' = {}
      /\ UNCHANGED <<since, answer, userTypes, types>>
      /\ \A c \in Callers : call'[c] = "rejected" \/ (c \notin pending /\ call'[c] = call[c])
  BY <1>0 DEF FailWorker, ClientTypeOK
<1>2. Queues'
  BY <1>0, <1>1, QueuesOfTerminated
<1>3. Waiting' /\ AnswerFresh'
  BY <1>0, <1>1 DEF Waiting, AnswerFresh
<1> QED BY <1>2, <1>3

LEMMA WorkerHangsFresh ==
    ASSUME FreshInv, ClientTypeOK', NEW w \in Workers, WorkerHangs(w)
    PROVE  Queues' /\ Waiting' /\ AnswerFresh'
<1>0. ClientTypeOK /\ Queues /\ Waiting /\ AnswerFresh
  BY DEF FreshInv, ClientInv
<1>1. UNCHANGED <<call, since, answer, worker, userTypes, pending, types, inbox, outbox>>
  BY DEF WorkerHangs, callers, page
<1> QED BY <1>0, <1>1, QueuesStay, SameAsking

LEMMA ResumeFresh ==
    ASSUME FreshInv, ClientTypeOK', NEW c \in Callers, Resume(c)
    PROVE  Queues' /\ Waiting' /\ AnswerFresh'
<1>0. ClientTypeOK /\ Queues /\ Waiting /\ AnswerFresh
  BY DEF FreshInv, ClientInv
<1>1. /\ UNCHANGED <<worker, userTypes, pending, types, inbox, outbox>> /\ Forget(c)
      /\ call[c] # "asked" /\ call'[c] = "none"
      /\ \A d \in Callers : d # c => call'[d] = call[d]
  BY <1>0 DEF Resume, Settled, page, threads, ClientTypeOK
<1>2. \A d \in Callers : d # c => since'[d] = since[d] /\ answer'[d] = answer[d]
  BY <1>0, <1>1, ForgetType
<1>3. c \notin pending
  BY <1>0, <1>1 DEF Waiting
<1>4. Queues'
  BY <1>0, <1>1, <1>2, <1>3, QueuesStay
<1>5. Waiting' /\ AnswerFresh'
  BY <1>0, <1>1, <1>2, SameAsking
<1> QED BY <1>4, <1>5

LEMMA DeliverFresh ==
    ASSUME FreshInv, ClientTypeOK', NEW w \in Workers, Deliver(w)
    PROVE  Queues' /\ Waiting' /\ AnswerFresh'
<1>0. ClientTypeOK /\ ClientInv /\ Queues /\ Waiting /\ AnswerFresh
  BY DEF FreshInv, ClientInv
<1>1. /\ outbox[w] \in Seq(ToPage) /\ outbox[w] # <<>>
      /\ UNCHANGED <<spawned, proc, types, faults>>
      /\ outbox' = [outbox EXCEPT ![w] = Tail(@)]
  BY <1>0 DEF Deliver, ClientTypeOK
<1>2. /\ outbox'[w] = Tail(outbox[w]) /\ UpToDate(w)
      /\ \A v \in Workers : v # w => outbox'[v] = outbox[v] /\ types'[v] = types[v]
  BY <1>0, <1>1 DEF ClientTypeOK, Queues
<1> DEFINE m == Head(outbox[w])
<1>3. /\ m \in ToPage /\ m = outbox[w][1] /\ 1 \in DOMAIN outbox[w]
  BY <1>1, TailAt
<1>4. CASE Adopt(w)
  <2>1. /\ boot = "init" /\ w = spawned /\ worker' = w /\ worker = 0
        /\ UNCHANGED <<since, answer, userTypes, pending>>
    BY <1>0, <1>4 DEF Adopt, ClientInv, BootShape
  <2>2. /\ userTypes \in Versions /\ userTypes <= userTypes'
        /\ call' = BootSettles("ready") \/ call' = call
    BY <1>0, <1>4, <2>1, BoundFacts DEF Adopt, ClientTypeOK
  <2>3. /\ \/ userTypes = 0 /\ inbox'[w] = inbox[w]
           \/ inbox'[w] = Append(inbox[w], SetTypes(userTypes))
        /\ \A v \in Workers : v # w => inbox'[v] = inbox[v]
    <3>1. CASE userTypes = 0
      BY <1>4, <3>1 DEF Adopt
    <3>2. CASE userTypes # 0
      <4>1. Post(w, SetTypes(userTypes)) /\ SetTypes(userTypes) \in ToWorker
        BY <1>4, <2>2, <3>2, MessageShape DEF Adopt
      <4> QED BY <1>0, <4>1, PostEffect
    <3> QED BY <3>1, <3>2
  <2>4. UpToDate(w)' /\ Informed'
    BY <1>0, <1>1, <1>2, <2>1, <2>3, Adopted
  <2>5. \A v \in Workers : v # w => UpToDate(v)'
    <3>1. \A v \in Workers : v # worker
      BY <2>1, BoundFacts
    <3> QED BY <1>0, <1>2, <2>1, <2>2, <2>3, <3>1, Untouched DEF Queues
  <2>6. Waiting' /\ AnswerFresh'
    BY <1>0, <2>1, <2>2, SameAsking, Settling
  <2> QED BY <2>4, <2>5, <2>6 DEF Queues
<1>5. ASSUME w = worker, UNCHANGED <<since, worker, userTypes, inbox>>,
             \A c \in pending : c \in pending' \/ About(m, c)
      PROVE  Queues'
  <2>1. UpToDate(w)'
    BY <1>0, <1>1, <1>2, <1>5, TakenByPage
  <2>2. userTypes <= userTypes'
    BY <1>0, <1>5, BoundFacts DEF ClientTypeOK
  <2>3. \A v \in Workers : v # w => UpToDate(v)'
    BY <1>0, <1>2, <1>5, <2>2, Untouched DEF Queues
  <2>4. Informed'
    BY <1>0, <1>1, <1>5 DEF Queues, Informed
  <2> QED BY <2>1, <2>3, <2>4 DEF Queues
<1>6. ASSUME NEW v \in Versions, TypesApplied(v), w = worker
      PROVE  Queues' /\ Waiting' /\ AnswerFresh'
  <2>1. /\ UNCHANGED <<since, answer, worker, userTypes, pending, inbox>>
        /\ call' = BootSettles("ready") \/ call' = call
    BY <1>6 DEF TypesApplied
  <2> QED BY <1>0, <1>5, <1>6, <2>1, SameAsking, Settling
<1>7. ASSUME NEW c \in Callers, NEW v \in Versions, ResultArrives(c, v), w = worker,
             About(m, c), m.type = "classify_result", m.types = v
      PROVE  Queues' /\ Waiting' /\ AnswerFresh'
  <2>1. /\ UNCHANGED <<since, worker, userTypes, inbox>> /\ pending' = pending \ {c}
        /\ c \in pending
    <3>1. OneMessage(w, c)
      BY <1>2 DEF UpToDate
    <3> HIDE DEF m
    <3> QED BY <1>3, <1>7, <3>1 DEF ResultArrives, OneMessage
  <2>2. /\ call' = [call EXCEPT ![c] = "answered"] /\ answer' = [answer EXCEPT ![c] = v]
    BY <1>7, <2>1 DEF ResultArrives
  <2>3. v >= since[c]
    <3>1. InOrder(w, c)
      BY <1>2 DEF UpToDate
    <3> HIDE DEF m
    <3> QED BY <1>3, <1>7, <3>1 DEF InOrder
  <2>4. Queues'
    BY <1>5, <1>7, <2>1
  <2>5. Waiting'
    BY <1>0, <2>1, <2>2 DEF Waiting, ClientTypeOK
  <2>6. AnswerFresh'
    BY <1>0, <2>1, <2>2, <2>3 DEF AnswerFresh, ClientTypeOK
  <2> QED BY <2>4, <2>5, <2>6
<1>8. ASSUME NEW c \in Callers, ErrorArrives(c), w = worker, About(m, c)
      PROVE  Queues' /\ Waiting' /\ AnswerFresh'
  <2>1. /\ UNCHANGED <<since, answer, worker, userTypes, inbox>> /\ pending' = pending \ {c}
        /\ call' = [call EXCEPT ![c] = "rejected"] \/ (c \notin pending /\ call' = call)
    BY <1>8 DEF ErrorArrives
  <2>2. Queues'
    <3>1. \A d \in pending : d \in pending' \/ About(m, d)
      BY <1>8, <2>1
    <3> QED BY <1>5, <1>8, <2>1, <3>1
  <2>3. Waiting' /\ AnswerFresh'
    BY <1>0, <2>1 DEF Waiting, AnswerFresh, ClientTypeOK
  <2> QED BY <2>2, <2>3
<1>9. CASE HandleMessage(w)
  <2>1. \/ m.type = "user_types_applied" /\ TypesApplied(m.types) /\ w = worker
        \/ m.type = "classify_result" /\ ResultArrives(m.caller, m.types) /\ w = worker
        \/ m.type = "error" /\ ErrorArrives(m.caller) /\ w = worker
    BY <1>9 DEF HandleMessage
  <2>2. /\ m.type = "user_types_applied" => m.types \in Versions
        /\ m.type = "classify_result" =>
             m.caller \in Callers /\ m.types \in Versions /\ About(m, m.caller)
        /\ m.type = "error" => m.caller \in Callers /\ About(m, m.caller)
    BY <1>3, MessageShape DEF About
  <2> HIDE DEF m
  <2> QED BY <1>6, <1>7, <1>8, <2>1, <2>2
<1>10. Adopt(w) \/ HandleMessage(w)
  BY DEF Deliver
<1> QED BY <1>4, <1>9, <1>10

LEMMA WorkerTakesFresh ==
    ASSUME FreshInv, ClientTypeOK', NEW w \in Workers, WorkerTakes(w)
    PROVE  Queues' /\ Waiting' /\ AnswerFresh'
<1>0. ClientTypeOK /\ Queues /\ Waiting /\ AnswerFresh
  BY DEF FreshInv, ClientInv
<1>1. /\ UNCHANGED <<callers, page>> /\ inbox[w] # <<>>
      /\ inbox' = [inbox EXCEPT ![w] = Tail(@)] /\ Replies(w, Head(inbox[w]))
  BY DEF WorkerTakes
<1>2. UNCHANGED <<call, since, answer, worker, userTypes, pending>>
  BY <1>1 DEF callers, page
<1>3. UpToDate(w)' /\ Informed'
  BY <1>0, <1>1, TakenByWorker DEF Queues
<1>4. ASSUME NEW v \in Workers, v # w
      PROVE  UpToDate(v)'
  <2>1. inbox'[v] = inbox[v] /\ outbox'[v] = outbox[v] /\ types'[v] = types[v]
    BY <1>0, <1>1, <1>4 DEF Replies, ClientTypeOK
  <2>2. userTypes <= userTypes'
    BY <1>0, <1>2, BoundFacts DEF ClientTypeOK
  <2> QED BY <1>0, <1>2, <2>1, <2>2, Untouched DEF Queues
<1>5. Waiting' /\ AnswerFresh'
  BY <1>0, <1>2, SameAsking
<1> QED BY <1>3, <1>4, <1>5 DEF Queues

LEMMA ClassifyFresh ==
    ASSUME FreshInv, ClientTypeOK', NEW c \in Callers, Classify(c)
    PROVE  Queues' /\ Waiting' /\ AnswerFresh'
<1>0. ClientTypeOK /\ Queues /\ Waiting /\ AnswerFresh
  BY DEF FreshInv, ClientInv
<1>1. /\ UNCHANGED <<answer, worker, userTypes, types, outbox>> /\ c \notin pending
      /\ since' = [since EXCEPT ![c] = userTypes]
  BY <1>0 DEF Classify, Free, Waiting
<1>2. \A d \in Callers : since'[d] = since[d] \/ d \notin pending
  BY <1>0, <1>1 DEF ClientTypeOK
<1>3. userTypes <= userTypes'
  BY <1>0, <1>1, BoundFacts DEF ClientTypeOK
<1>4. CASE worker = 0
  <2>1. UNCHANGED <<pending, inbox>> /\ call' = [call EXCEPT ![c] = "rejected"]
    BY <1>4 DEF Classify
  <2>2. Queues'
    BY <1>0, <1>1, <1>2, <2>1, QueuesStay
  <2>3. Waiting' /\ AnswerFresh'
    BY <1>0, <1>1, <2>1 DEF Waiting, AnswerFresh, ClientTypeOK
  <2> QED BY <2>2, <2>3
<1>5. CASE worker # 0
  <2>1. /\ worker \in Workers /\ pending' = pending \cup {c}
        /\ call' = [call EXCEPT ![c] = "asked"] /\ Post(worker, Sample(c))
    BY <1>0, <1>5 DEF Classify, ClientTypeOK
  <2>2. /\ inbox'[worker] = Append(inbox[worker], Sample(c))
        /\ \A v \in Workers : v # worker => inbox'[v] = inbox[v]
    BY <1>0, <2>1, PostEffect, MessageShape
  <2>3. UpToDate(worker)
    BY <1>0, <2>1 DEF Queues
  <2>4. ASSUME NEW w \in Workers, w = worker
        PROVE  UpToDate(w)' /\ Informed'
    BY <1>0, <1>1, <2>1, <2>2, <2>3, <2>4, Asked DEF Queues
  <2>5. \A v \in Workers : v # worker => UpToDate(v)'
    BY <1>0, <1>1, <1>2, <1>3, <2>1, <2>2, Untouched DEF Queues
  <2>6. Waiting' /\ AnswerFresh'
    BY <1>0, <1>1, <2>1 DEF Waiting, AnswerFresh, ClientTypeOK
  <2> QED BY <2>1, <2>4, <2>5, <2>6 DEF Queues
<1> QED BY <1>4, <1>5

LEMMA SetUserTypesFresh ==
    ASSUME FreshInv, ClientTypeOK', SetUserTypes
    PROVE  Queues' /\ Waiting' /\ AnswerFresh'
<1>0. ClientTypeOK /\ Queues /\ Waiting /\ AnswerFresh
  BY DEF FreshInv, ClientInv
<1>1. /\ UNCHANGED <<call, since, answer, worker, pending, types, outbox>>
      /\ userTypes' = userTypes + 1 /\ userTypes \in Nat /\ userTypes' \in Versions
  BY <1>0, BoundFacts DEF SetUserTypes, callers, ClientTypeOK
<1>2. userTypes <= userTypes'
  BY <1>1
<1>3. Waiting' /\ AnswerFresh'
  BY <1>0, <1>1, SameAsking
<1>4. ASSUME NEW v \in Workers, v # worker \/ UNCHANGED inbox, inbox'[v] = inbox[v]
      PROVE  UpToDate(v)'
  BY <1>0, <1>1, <1>2, <1>4, Untouched DEF Queues
<1>5. CASE worker = 0
  <2>1. UNCHANGED inbox
    BY <1>5 DEF SetUserTypes
  <2>2. Informed'
    BY <1>1, <1>5 DEF Informed
  <2> QED BY <1>3, <1>4, <2>1, <2>2 DEF Queues
<1>6. CASE worker # 0
  <2>1. worker \in Workers /\ Post(worker, SetTypes(userTypes'))
    BY <1>0, <1>1, <1>6 DEF SetUserTypes, ClientTypeOK
  <2>2. /\ inbox'[worker] = Append(inbox[worker], SetTypes(userTypes'))
        /\ \A v \in Workers : v # worker => inbox'[v] = inbox[v]
    BY <1>0, <1>1, <2>1, PostEffect, MessageShape
  <2>3. ASSUME NEW w \in Workers, w = worker
        PROVE  UpToDate(w)' /\ Informed'
    <3>1. /\ UpToDate(w)'
          /\ \E i \in DOMAIN inbox'[w] : Update(inbox'[w][i]) /\ inbox'[w][i].types = userTypes'
      BY <1>0, <1>1, <1>2, <2>2, <2>3, Told DEF Queues
    <3> QED BY <1>1, <2>3, <3>1 DEF Informed
  <2> QED BY <1>3, <1>4, <2>1, <2>2, <2>3 DEF Queues
<1> QED BY <1>5, <1>6

LEMMA FreshKept ==
    ASSUME FreshInv, [ClientNext]_client
    PROVE  FreshInv'
<1>1. ClientInv' /\ ClientTypeOK'
  BY ClientKept DEF FreshInv, ClientInv
<1> SUFFICES Queues' /\ Waiting' /\ AnswerFresh'
  BY <1>1 DEF FreshInv
<1>2. CASE UNCHANGED client
  <2>1. UNCHANGED <<call, since, answer, worker, userTypes, pending, types, inbox, outbox>>
    BY <1>2 DEF client, callers, page, threads
  <2> QED BY <1>1, <2>1, QueuesStay, SameAsking DEF FreshInv, ClientInv
<1>3. CASE InitTimer
  BY <1>1, <1>3, BootFailsFresh DEF InitTimer
<1>4. CASE RequestTimer
  BY <1>1, <1>4, FailWorkerFresh DEF RequestTimer
<1>5. CASE WorkerBreaks
  BY <1>1, <1>5, BootFailsFresh, FailWorkerFresh DEF WorkerBreaks
<1>6. CASE ClientStep
  BY <1>1, <1>3, <1>4, <1>5, <1>6, BundleFresh, DeliverFresh, WorkerTakesFresh, WorkerHangsFresh
  DEF ClientStep
<1>7. CASE \E c \in Callers : EnsureReady(c) \/ Classify(c) \/ Resume(c)
  BY <1>1, <1>7, EnsureReadyFresh, ClassifyFresh, ResumeFresh
<1>8. CASE SetUserTypes
  BY <1>1, <1>8, SetUserTypesFresh
<1> QED BY <1>2, <1>6, <1>7, <1>8 DEF ClientNext

LEMMA FreshStarts == ClientInit => FreshInv
<1> SUFFICES ASSUME ClientInit PROVE FreshInv
  OBVIOUS
<1>1. ClientInv
  BY ClientStarts
<1>2. /\ worker = 0 /\ pending = {} /\ userTypes \in Nat
      /\ \A c \in Callers : call[c] = "none"
      /\ \A w \in Workers : types[w] = 0 /\ inbox[w] = <<>> /\ outbox[w] = <<>>
  BY BoundFacts DEF ClientInit
<1>3. Informed /\ Waiting /\ AnswerFresh
  BY <1>2 DEF Informed, Waiting, AnswerFresh
<1>4. ASSUME NEW w \in Workers PROVE UpToDate(w)
  <2>1. DOMAIN inbox[w] = {} /\ DOMAIN outbox[w] = {} /\ types[w] <= userTypes
    BY <1>2
  <2> QED BY <2>1 DEF UpToDate, Ascending, OneMessage, InOrder
<1> QED BY <1>1, <1>3, <1>4 DEF FreshInv, Queues

-----------------------------------------------------------------------------
(* The loops ask the client only for what its specification allows.        *)

LEMMA NextTableAsks ==
    ASSUME NEW t \in Callers, NextTable(t)
    PROVE  EnsureReady(t) \/ Resume(t) \/ UNCHANGED client
BY DEF NextTable

LEMMA LoopAsks ==
    ASSUME NEW t \in Callers, LoopStep(t)
    PROVE  EnsureReady(t) \/ Resume(t) \/ Classify(t) \/ UNCHANGED client
<1>1. CASE Booted(t)
  BY <1>1, NextTableAsks DEF Booted
<1>2. CASE Opened(t)
  BY <1>2, NextTableAsks DEF Opened
<1>3. CASE Sampled(t)
  BY <1>3 DEF Sampled
<1>4. CASE ReadFails(t) \/ Rejected(t) \/ Cleaned(t)
  BY <1>4, NextTableAsks DEF ReadFails, Rejected, Cleaned
<1>5. CASE Answered(t)
  BY <1>5 DEF Answered
<1> QED BY <1>1, <1>2, <1>3, <1>4, <1>5 DEF LoopStep

LEMMA UserAsks ==
    ASSUME User
    PROVE  (\E t \in Callers : EnsureReady(t)) \/ SetUserTypes \/ UNCHANGED client
<1>1. Sources \subseteq Callers /\ Sweeps \subseteq Callers
  BY CallersAssumption
<1>2. CASE \E s \in Sources : Mount(s) \/ Remove(s)
  BY <1>1, <1>2 DEF Mount, Start, Remove
<1>3. CASE \E t \in Sweeps : Reclassify(t)
  BY <1>1, <1>3 DEF Reclassify, Start
<1>4. CASE \E s \in Sources, c \in Names :
             AcceptAssignment(s, c) \/ OverrideAssignment(s, c) \/ DefineType(s, c)
  BY <1>4 DEF AcceptAssignment, OverrideAssignment, DefineType
<1>5. CASE \E confident \in SUBSET (Sources \X Names) : BulkAccept(confident)
  BY <1>5 DEF BulkAccept
<1>6. CASE \E c \in Names : Remember(c) \/ RemoveOverrideRule(c)
  BY <1>6 DEF Remember, RemoveOverrideRule
<1> QED BY <1>2, <1>3, <1>4, <1>5, <1>6 DEF User

LEMMA ClientServes == [Next]_vars => [ClientNext]_client
<1> SUFFICES ASSUME [Next]_vars PROVE [ClientNext]_client
  OBVIOUS
<1>1. CASE User
  BY <1>1, UserAsks DEF ClientNext
<1>2. CASE \E t \in Callers : LoopStep(t)
  BY <1>2, LoopAsks DEF ClientNext
<1>3. CASE \E s \in Sources : Removed(s)
  BY <1>3 DEF Removed
<1>4. CASE ClientStep
  BY <1>4 DEF ClientNext
<1>5. CASE UNCHANGED vars
  BY <1>5 DEF vars
<1> QED BY <1>1, <1>2, <1>3, <1>4, <1>5 DEF Next

-----------------------------------------------------------------------------
(* The loops and the workbook.                                             *)

MountedOK == mounted \in [Sources -> {"no", "mounted", "dropping", "removed"}]
LoopsOK ==
    /\ loop \in [Callers -> {"idle", "boot", "open", "read", "asked", "clean", "done"}]
    /\ left \in [Callers -> SUBSET Sources]
    /\ table \in [Callers -> Sources]
    /\ got \in [Callers -> Seq(Versions)]
    /\ \A t \in Callers : Len(got[t]) < Columns
WorkbookOK ==
    /\ assigned \in [Sources -> [Names -> Assignments]]
    /\ rules \in SUBSET Names
TypeInv == ClientInv /\ MountedOK /\ LoopsOK /\ WorkbookOK

LEMMA Emptied ==
    ASSUME LoopsOK, NEW t \in Callers, got' = [got EXCEPT ![t] = <<>>]
    PROVE  got' \in [Callers -> Seq(Versions)] /\ \A u \in Callers : Len(got'[u]) < Columns
<1>1. <<>> \in Seq(Versions) /\ Len(<<>>) = 0 /\ 0 < Columns
  BY ColumnsAssumption
<1> QED BY <1>1 DEF LoopsOK

LEMMA NextTableType ==
    ASSUME LoopsOK, NEW t \in Callers, NextTable(t)
    PROVE  LoopsOK'
<1>1. got' \in [Callers -> Seq(Versions)] /\ \A u \in Callers : Len(got'[u]) < Columns
  BY Emptied DEF NextTable
<1>2. /\ loop' \in [Callers -> {"idle", "boot", "open", "read", "asked", "clean", "done"}]
      /\ left' \in [Callers -> SUBSET Sources]
      /\ table' \in [Callers -> Sources]
  BY ZenonT(60) DEF NextTable, LoopsOK
<1> QED BY <1>1, <1>2 DEF LoopsOK

LEMMA AnsweredType ==
    ASSUME ClientTypeOK, LoopsOK, NEW t \in Callers, Answered(t)
    PROVE  LoopsOK'
<1>1. /\ got[t] \in Seq(Versions) /\ Len(got[t]) < Columns /\ Len(got[t]) \in Nat
      /\ answer[t] \in Versions /\ UNCHANGED <<left, table>>
  BY LenProperties DEF Answered, LoopsOK, ClientTypeOK
<1> DEFINE results == Append(got[t], answer[t])
<1>2. results \in Seq(Versions) /\ Len(results) = Len(got[t]) + 1
  BY <1>1, AppendProperties
<1>3. CASE ~Complete(results)
  <2>1. got' = [got EXCEPT ![t] = results] /\ loop' = [loop EXCEPT ![t] = "read"]
    BY <1>3 DEF Answered
  <2>2. Len(results) < Columns
    BY <1>1, <1>2, <1>3, ColumnsAssumption DEF Complete
  <2> HIDE DEF results
  <2> QED BY <1>1, <1>2, <2>1, <2>2 DEF LoopsOK
<1>4. CASE Complete(results)
  <2>1. got' = [got EXCEPT ![t] = <<>>] /\ loop' = [loop EXCEPT ![t] = "clean"]
    BY <1>4 DEF Answered
  <2>2. got' \in [Callers -> Seq(Versions)] /\ \A u \in Callers : Len(got'[u]) < Columns
    BY <2>1, Emptied
  <2> QED BY <1>1, <2>1, <2>2 DEF LoopsOK
<1> QED BY <1>3, <1>4

LEMMA LoopStepType ==
    ASSUME ClientTypeOK, LoopsOK, NEW t \in Callers, LoopStep(t)
    PROVE  LoopsOK'
<1>1. ASSUME NEW k \in {"read", "asked", "done"}, loop' = [loop EXCEPT ![t] = k],
             left' = left \/ left' = [left EXCEPT ![t] = {}], UNCHANGED <<table, got>>
      PROVE  LoopsOK'
  BY <1>1 DEF LoopsOK
<1>2. CASE Booted(t)
  BY <1>1, <1>2, NextTableType DEF Booted
<1>3. CASE Opened(t)
  BY <1>1, <1>3, NextTableType DEF Opened
<1>4. CASE Sampled(t)
  BY <1>1, <1>4 DEF Sampled
<1>5. CASE ReadFails(t) \/ Rejected(t) \/ Cleaned(t)
  BY <1>5, NextTableType DEF ReadFails, Rejected, Cleaned
<1>6. CASE Answered(t)
  BY <1>6, AnsweredType
<1> QED BY <1>2, <1>3, <1>4, <1>5, <1>6 DEF LoopStep

LEMMA StartType ==
    ASSUME LoopsOK, NEW t \in Callers, NEW sources \in SUBSET Sources, Start(t, sources)
    PROVE  LoopsOK'
BY DEF LoopsOK, Start

(* A change of the workbook that keeps types and rules. *)
Ruled == WorkbookOK /\ RuleApplied

Kinds == {"none", "found", "picked", "ruled"}

LEMMA Shapes == Absent \in Assignments /\ \A v \in Versions : Fresh(v) \subseteq Assignments
BY BoundFacts DEF Absent, Fresh, Assignments, Origins

LEMMA Marked ==
    ASSUME NEW a \in Assignments, NEW o \in Origins
    PROVE  [a EXCEPT !.origin = o] \in Assignments /\ [a EXCEPT !.origin = o].origin = o
BY DEF Assignments

LEMMA Chosen ==
    ASSUME NEW a \in Assignments, NEW o \in Origins, NEW k \in Kinds
    PROVE  /\ [a EXCEPT !.origin = o, !.type = k] \in Assignments
           /\ [a EXCEPT !.origin = o, !.type = k].origin = o
BY DEF Assignments, Kinds

LEMMA Renewed ==
    ASSUME NEW a \in Assignments, NEW v \in Versions
    PROVE  [a EXCEPT !.types = v] \in Assignments /\ [a EXCEPT !.types = v].origin = a.origin
BY DEF Assignments

LEMMA ReassignedShape ==
    ASSUME NEW t, NEW existing \in Assignments, NEW fresh \in Assignments, NEW c \in Names
    PROVE  /\ Reassigned(t, existing, fresh, c) \in Assignments
           /\ c \in rules => Reassigned(t, existing, fresh, c).origin # "detector"
<1>1. fresh.types \in Versions
  BY DEF Assignments
<1>2. CASE t \in Sweeps /\ Curated(existing)
  <2>1. Reassigned(t, existing, fresh, c) = [existing EXCEPT !.types = fresh.types]
    BY <1>2 DEF Reassigned
  <2>2. existing.origin # "detector"
    BY <1>2 DEF Curated
  <2>3. /\ [existing EXCEPT !.types = fresh.types] \in Assignments
        /\ [existing EXCEPT !.types = fresh.types].origin = existing.origin
    BY <1>1, Renewed
  <2> QED BY <2>1, <2>2, <2>3
<1>3. CASE ~(t \in Sweeps /\ Curated(existing)) /\ c \in rules
  <2>1. Reassigned(t, existing, fresh, c)
          = [fresh EXCEPT !.origin = "user_override", !.type = "ruled"]
    BY <1>3 DEF Reassigned, ApplyOverrideRule
  <2>2. "user_override" \in Origins /\ "ruled" \in Kinds
    BY DEF Origins, Kinds
  <2>3. /\ [fresh EXCEPT !.origin = "user_override", !.type = "ruled"] \in Assignments
        /\ [fresh EXCEPT !.origin = "user_override", !.type = "ruled"].origin = "user_override"
    BY <2>2, Chosen
  <2> QED BY <2>1, <2>3
<1>4. CASE ~(t \in Sweeps /\ Curated(existing)) /\ c \notin rules
  BY <1>4 DEF Reassigned, ApplyOverrideRule
<1> QED BY <1>2, <1>3, <1>4

LEMMA AnsweredRuled ==
    ASSUME Ruled, LoopsOK, NEW t \in Callers, Answered(t)
    PROVE  Ruled'
<1>1. rules' = rules /\ table[t] \in Sources
  BY DEF Answered, LoopsOK
<1>2. CASE UNCHANGED assigned
  BY <1>1, <1>2 DEF Ruled, WorkbookOK, RuleApplied
<1>3. CASE ~UNCHANGED assigned
  <2>1. PICK fresh \in [Names -> UNION {Fresh(v) : v \in Versions}] :
            assigned' = [assigned EXCEPT ![table[t]] =
                            [c \in Names |-> Reassigned(t, @[c], fresh[c], c)]]
    BY <1>3 DEF Answered
  <2>2. \A c \in Names : fresh[c] \in Assignments /\ assigned[table[t]][c] \in Assignments
    <3>1. assigned[table[t]] \in [Names -> Assignments]
      BY <1>1 DEF Ruled, WorkbookOK
    <3>2. UNION {Fresh(v) : v \in Versions} \subseteq Assignments
      BY Shapes
    <3> QED BY <3>1, <3>2
  <2> DEFINE renewed == [c \in Names |-> Reassigned(t, assigned[table[t]][c], fresh[c], c)]
  <2>3. /\ renewed \in [Names -> Assignments]
        /\ \A c \in Names \cap rules : renewed[c].origin # "detector"
    BY <2>2, ReassignedShape
  <2>4. assigned' = [assigned EXCEPT ![table[t]] = renewed]
    BY <2>1
  <2> HIDE DEF renewed
  <2> QED BY <1>1, <2>3, <2>4 DEF Ruled, WorkbookOK, RuleApplied
<1> QED BY <1>2, <1>3

LEMMA CurateRuled ==
    ASSUME Ruled, NEW s \in Sources, NEW c \in Names, NEW o \in Origins \ {"detector"},
           NEW k \in Kinds, Curate(s, c, o, k)
    PROVE  Ruled'
<1>1. assigned \in [Sources -> [Names -> Assignments]] /\ rules' = rules
  BY DEF Ruled, WorkbookOK, Curate
<1> DEFINE new == [assigned[s][c] EXCEPT !.origin = o, !.type = k]
<1>2. new \in Assignments /\ new.origin = o
  <2>1. assigned[s][c] \in Assignments
    BY <1>1
  <2> QED BY <2>1, Chosen
<1>3. assigned' = [assigned EXCEPT ![s] = [assigned[s] EXCEPT ![c] = new]]
  BY <1>1 DEF Curate
<1> HIDE DEF new
<1> QED BY <1>1, <1>2, <1>3 DEF Ruled, WorkbookOK, RuleApplied

LEMMA UserRuled ==
    ASSUME Ruled, User
    PROVE  Ruled'
<1>0. assigned \in [Sources -> [Names -> Assignments]] /\ rules \in SUBSET Names
  BY DEF Ruled, WorkbookOK
<1>1. ASSUME UNCHANGED <<assigned, rules>> PROVE Ruled'
  BY <1>1 DEF Ruled, WorkbookOK, RuleApplied
<1>2. CASE \E s \in Sources : Mount(s) \/ Remove(s)
  BY <1>1, <1>2 DEF Mount, Start, Remove
<1>3. CASE \E t \in Sweeps : Reclassify(t)
  BY <1>1, <1>3 DEF Reclassify, Start
<1>4. ASSUME NEW s \in Sources, NEW c \in Names,
             AcceptAssignment(s, c) \/ OverrideAssignment(s, c) \/ DefineType(s, c)
      PROVE  Ruled'
  <2>1. /\ assigned[s][c].type \in Kinds
        /\ "picked" \in Kinds /\ "none" \in Kinds
    BY <1>0 DEF Assignments, Kinds
  <2>2. {"user_accept", "user_override", "unknown"} \subseteq Origins \ {"detector"}
    BY DEF Origins
  <2> QED
    BY <1>4, <2>1, <2>2, CurateRuled DEF AcceptAssignment, OverrideAssignment, DefineType
<1>5. ASSUME NEW confident \in SUBSET (Sources \X Names), BulkAccept(confident)
      PROVE  Ruled'
  <2>1. /\ rules' = rules
        /\ assigned' = [s \in Sources |-> [c \in Names |->
                IF <<s, c>> \in confident
                THEN [assigned[s][c] EXCEPT !.origin = "user_accept"]
                ELSE assigned[s][c]]]
    BY <1>5 DEF BulkAccept
  <2>2. \A s \in Sources, c \in Names :
           /\ assigned'[s][c] \in Assignments
           /\ assigned'[s][c].origin = "user_accept" \/ assigned'[s][c] = assigned[s][c]
    <3>1. SUFFICES ASSUME NEW s \in Sources, NEW c \in Names
                   PROVE  /\ assigned'[s][c] \in Assignments
                          /\ \/ assigned'[s][c].origin = "user_accept"
                             \/ assigned'[s][c] = assigned[s][c]
      OBVIOUS
    <3>2. assigned[s][c] \in Assignments /\ "user_accept" \in Origins
      BY <1>0 DEF Origins
    <3>3. /\ [assigned[s][c] EXCEPT !.origin = "user_accept"] \in Assignments
          /\ [assigned[s][c] EXCEPT !.origin = "user_accept"].origin = "user_accept"
      BY <3>2, Marked
    <3> QED BY <2>1, <3>2, <3>3
  <2>3. assigned' \in [Sources -> [Names -> Assignments]]
    BY <2>1, <2>2
  <2> QED BY <1>0, <2>1, <2>2, <2>3 DEF Ruled, WorkbookOK, RuleApplied
<1>6. ASSUME NEW c \in Names, Remember(c)
      PROVE  Ruled'
  <2>1. /\ rules' = rules \cup {c}
        /\ assigned' = [s \in Sources |-> [assigned[s] EXCEPT ![c] =
              IF @ = Absent \/ @.origin = "user_accept" THEN @
              ELSE [@ EXCEPT !.origin = "user_override", !.type = "ruled"]]]
    BY <1>6 DEF Remember
  <2>2. \A s \in Sources, d \in Names \ {c} : assigned'[s][d] = assigned[s][d]
    BY <1>0, <2>1
  <2>3. \A s \in Sources :
           /\ assigned'[s][c] \in Assignments
           /\ assigned'[s][c].origin # "detector"
    <3>1. SUFFICES ASSUME NEW s \in Sources
                   PROVE  /\ assigned'[s][c] \in Assignments
                          /\ assigned'[s][c].origin # "detector"
      OBVIOUS
    <3>2. /\ assigned[s] \in [Names -> Assignments] /\ assigned[s][c] \in Assignments
          /\ "user_override" \in Origins /\ "ruled" \in Kinds
      BY <1>0 DEF Origins, Kinds
    <3>3. /\ [assigned[s][c] EXCEPT !.origin = "user_override", !.type = "ruled"] \in Assignments
          /\ [assigned[s][c] EXCEPT !.origin = "user_override", !.type = "ruled"].origin
               = "user_override"
      BY <3>2, Chosen
    <3>4. assigned'[s][c] = IF assigned[s][c] = Absent \/ assigned[s][c].origin = "user_accept"
                            THEN assigned[s][c]
                            ELSE [assigned[s][c] EXCEPT !.origin = "user_override", !.type = "ruled"]
      BY <2>1, <3>2
    <3> QED BY <3>2, <3>3, <3>4 DEF Absent
  <2>4. assigned' \in [Sources -> [Names -> Assignments]]
    <3>1. \A s \in Sources : assigned'[s] \in [Names -> Assignments]
      <4>1. SUFFICES ASSUME NEW s \in Sources PROVE assigned'[s] \in [Names -> Assignments]
        OBVIOUS
      <4>2. assigned'[s] = [assigned[s] EXCEPT ![c] = assigned'[s][c]]
        BY <1>0, <2>1
      <4> QED BY <1>0, <2>3, <4>2
    <3> QED BY <2>1, <3>1
  <2>5. RuleApplied'
    BY ZenonT(60), <2>1, <2>2, <2>3, <1>0 DEF Ruled, RuleApplied
  <2>6. rules' \in SUBSET Names
    BY <1>0, <2>1
  <2> QED BY <2>4, <2>5, <2>6 DEF Ruled, WorkbookOK
<1>7. ASSUME NEW c \in Names, RemoveOverrideRule(c)
      PROVE  Ruled'
  BY <1>7 DEF RemoveOverrideRule, Ruled, WorkbookOK, RuleApplied
<1> QED BY <1>2, <1>3, <1>4, <1>5, <1>6, <1>7 DEF User

LEMMA RemovedRuled ==
    ASSUME Ruled, NEW s \in Sources, Removed(s)
    PROVE  Ruled'
<1>1. rules' = rules /\ assigned' = [assigned EXCEPT ![s] = [c \in Names |-> Absent]]
  BY DEF Removed
<1>2. Absent \in Assignments /\ Absent.origin # "detector"
  BY Shapes DEF Absent
<1> QED BY <1>1, <1>2 DEF Ruled, WorkbookOK, RuleApplied

-----------------------------------------------------------------------------
(* The invariant of the whole. *)

ClassInv == TypeInv /\ RuleApplied

LEMMA Starts == Init => ClassInv
<1> SUFFICES ASSUME Init PROVE ClassInv
  OBVIOUS
<1>1. ClientInv
  BY ClientStarts DEF Init
<1>2. (CHOOSE s \in Sources : TRUE) \in Sources
  BY CallersAssumption
<1>3. <<>> \in Seq(Versions) /\ Len(<<>>) = 0 /\ 0 < Columns
  BY ColumnsAssumption
<1>4. MountedOK /\ LoopsOK
  BY <1>2, <1>3 DEF Init, MountedOK, LoopsOK
<1>5. WorkbookOK /\ RuleApplied
  BY Shapes DEF Init, WorkbookOK, RuleApplied
<1> QED BY <1>1, <1>4, <1>5 DEF ClassInv, TypeInv

LEMMA Kept == ClassInv /\ [Next]_vars => ClassInv'
<1> SUFFICES ASSUME ClassInv, [Next]_vars PROVE ClassInv'
  OBVIOUS
<1>0. ClientTypeOK /\ MountedOK /\ LoopsOK /\ Ruled
  BY DEF ClassInv, TypeInv, ClientInv, Ruled
<1>1. ClientInv'
  BY ClientServes, ClientKept DEF ClassInv, TypeInv
<1> SUFFICES MountedOK' /\ LoopsOK' /\ Ruled'
  BY <1>1 DEF ClassInv, TypeInv, Ruled
<1>2. ASSUME UNCHANGED <<mounted, assigned, rules>>, LoopsOK'
      PROVE  MountedOK' /\ LoopsOK' /\ Ruled'
  BY <1>0, <1>2 DEF MountedOK, Ruled, WorkbookOK, RuleApplied
<1>3. ASSUME UNCHANGED loops
      PROVE  LoopsOK'
  BY <1>0, <1>3 DEF LoopsOK, loops
<1>4. CASE User
  <2>1. Ruled'
    BY <1>0, <1>4, UserRuled
  <2>2. MountedOK' /\ LoopsOK'
    <3>1. ASSUME NEW s \in Sources, Mount(s)
          PROVE  MountedOK' /\ LoopsOK'
      BY <1>0, <3>1, StartType, CallersAssumption DEF Mount, MountedOK
    <3>2. ASSUME NEW t \in Sweeps, Reclassify(t)
          PROVE  MountedOK' /\ LoopsOK'
      <4>1. InWorkbook \in SUBSET Sources /\ t \in Callers
        BY CallersAssumption DEF InWorkbook
      <4> QED BY <1>0, <3>2, <4>1, StartType DEF Reclassify, MountedOK
    <3>3. ASSUME NEW s \in Sources, Remove(s)
          PROVE  MountedOK' /\ LoopsOK'
      BY <1>0, <1>3, <3>3 DEF Remove, MountedOK
    <3>4. ASSUME NEW s \in Sources, NEW c \in Names,
                 AcceptAssignment(s, c) \/ OverrideAssignment(s, c) \/ DefineType(s, c)
          PROVE  MountedOK' /\ LoopsOK'
      BY <1>0, <1>3, <3>4
      DEF AcceptAssignment, OverrideAssignment, DefineType, Curate, MountedOK
    <3>5. ASSUME NEW confident \in SUBSET (Sources \X Names), BulkAccept(confident)
          PROVE  MountedOK' /\ LoopsOK'
      BY <1>0, <1>3, <3>5 DEF BulkAccept, MountedOK
    <3>6. ASSUME NEW c \in Names, Remember(c) \/ RemoveOverrideRule(c)
          PROVE  MountedOK' /\ LoopsOK'
      BY <1>0, <1>3, <3>6 DEF Remember, RemoveOverrideRule, MountedOK
    <3> QED BY <1>4, <3>1, <3>2, <3>3, <3>4, <3>5, <3>6 DEF User
  <2> QED BY <2>1, <2>2
<1>5. ASSUME NEW t \in Callers, LoopStep(t)
      PROVE  MountedOK' /\ LoopsOK' /\ Ruled'
  <2>1. LoopsOK'
    BY <1>0, <1>5, LoopStepType
  <2>2. CASE Answered(t)
    BY <1>0, <2>1, <2>2, AnsweredRuled DEF Answered, MountedOK
  <2>3. CASE ~Answered(t)
    <3>1. UNCHANGED workbook
      BY <1>5, <2>3 DEF LoopStep, Booted, Opened, Sampled, ReadFails, Rejected, Cleaned
    <3> QED BY <1>2, <2>1, <3>1 DEF workbook
  <2> QED BY <2>2, <2>3
<1>6. ASSUME NEW s \in Sources, Removed(s)
      PROVE  MountedOK' /\ LoopsOK' /\ Ruled'
  BY <1>0, <1>3, <1>6, RemovedRuled DEF Removed, MountedOK
<1>7. CASE ClientStep /\ UNCHANGED <<workbook, loops>>
  BY <1>2, <1>3, <1>7 DEF workbook
<1>8. CASE UNCHANGED vars
  BY <1>2, <1>3, <1>8 DEF vars, workbook
<1> QED BY <1>4, <1>5, <1>6, <1>7, <1>8 DEF Next

(* The client, the loops and the workbook stay in their types              *)
(* (taxonomy/client.ts, core/workbook.ts).                                 *)
THEOREM TypeCorrect == Spec => []TypeOK
<1>1. ClassInv => TypeOK
  BY DEF ClassInv, TypeInv, ClientInv, MountedOK, LoopsOK, WorkbookOK, TypeOK
<1> QED BY Starts, Kept, <1>1, PTL DEF Spec

(* One worker at most serves all loops: every other one was terminated,    *)
(* also when initialising it failed or it broke afterwards (boot and       *)
(* failWorker of taxonomy/client.ts).                                      *)
THEOREM OneWorkerServes == Spec => []OneWorker
<1>1. Init => ClientInv
  BY ClientStarts DEF Init
<1>2. ClientInv /\ [Next]_vars => ClientInv'
  BY ClientServes, ClientKept
<1>3. ClientInv => OneWorker
  BY DEF ClientInv
<1> QED BY <1>1, <1>2, <1>3, PTL DEF Spec

(* A classification is answered with the user types of the moment the      *)
(* column was sent, or with newer ones, whatever workers were replaced     *)
(* meanwhile and whatever user types changed (boot, setUserTypes and       *)
(* classify of taxonomy/client.ts).                                        *)
THEOREM AnswersInformed == Spec => []AnswerFresh
<1>1. Init => FreshInv
  BY FreshStarts DEF Init
<1>2. FreshInv /\ [Next]_vars => FreshInv'
  BY ClientServes, FreshKept
<1>3. FreshInv => AnswerFresh
  BY DEF FreshInv
<1> QED BY <1>1, <1>2, <1>3, PTL DEF Spec

(* A column whose name has an override rule shows no detector's type,      *)
(* whatever loop was at work on it when the rule was stored                *)
(* (applyRuleToMountedColumns, classifyMountedSources, reclassifyAllSources *)
(* of main.ts).                                                            *)
THEOREM RulesReach == Spec => []RuleApplied
<1>1. ClassInv => RuleApplied
  BY DEF ClassInv
<1> QED BY Starts, Kept, <1>1, PTL DEF Spec
=============================================================================
