-------------------------- MODULE SourceRefresh_proofs -------------------------
(***************************************************************************)
(* Proofs about SourceRefresh, for any sources, cells and lineage: the     *)
(* type invariant, that metadata describe what is mounted, and that no     *)
(* result is silently stale.                                               *)
(***************************************************************************)
EXTENDS SourceRefresh, WellFoundedInduction, TLAPS

(* One refresh at a time. *)
OneRefresh == \A a, b \in Applies : a = b

(* Every cell has been run, and every source recorded. *)
AllRecorded == NewCells = {} /\ Baselined = Sources

(* A run a refresh has started is the one it awaits. *)
RunAwaited ==
  \A c \in Cells, a \in Applies :
    Owns(a, c) => apply[a].pc = "run" /\ c = Earliest(apply[a].cells)

(***************************************************************************)
(* What a version stands for.                                              *)
(***************************************************************************)

(* Rows of c, or those its run has read, are of the version outside. *)
Clean(c, s) ==
  /\ result[c][s] \in {0, ext[s]}
  /\ runs[c] # None => runs[c].got[s] \in {0, ext[s]}

Settled(s) ==
  /\ home => rel[s] = ext[s]
  /\ \A c \in Cells : Clean(c, s)

(* v may be recorded as the baseline of s. *)
Sound(v, s) == v <= ext[s] /\ (v = ext[s] => Settled(s))

RowsFromOrigins ==
  \A c \in Cells, s \in Sources :
    s \notin Origins[c] => /\ result[c][s] = 0
                           /\ runs[c] # None => runs[c].got[s] = 0

BaselineSound == \A s \in Sources : baseline[s] # 0 /\ Sound(baseline[s], s)

(* What the sweep has read and what it will write. *)
CheckSound ==
  check.pc # "none" =>
    /\ check.lineage = Inputs
    /\ \A s \in Sources :
         /\ check.persisted[s] # 0 /\ Sound(check.persisted[s], s)
         /\ check.fresh[s] <= ext[s]
         /\ check.pc = "save" => check.loaded[s] # 0 /\ Sound(check.loaded[s], s)

(* Versions are mounted in the order they are read. *)
MountedInOrder ==
  /\ \A s \in Sources : rel[s] <= ext[s]
  /\ \A a \in Applies, s \in Sources :
       apply[a].staged[s] # 0 => rel[s] <= apply[a].staged[s] /\ apply[a].staged[s] <= ext[s]

(* Before the swap: s is known to be current, or it will be read, and all  *)
(* the cells that show it will be rerun.                                   *)
Ahead(a, s) ==
  \/ Sound(apply[a].fresh[s], s)
  \/ /\ \A c \in Cells : s \in Origins[c] => c \in apply[a].cells
     /\ s \in apply[a].todo \/ apply[a].fresh[s] <= apply[a].staged[s]

(* After it: unless s has changed again, only cells that are still to be   *)
(* rerun show an older version.                                            *)
CaughtUp(a, s) ==
  apply[a].fresh[s] = ext[s] =>
    /\ home => rel[s] = ext[s]
    /\ \A c \in Cells :
         /\ c \in apply[a].cells \/ Clean(c, s)
         /\ Owns(a, c) => runs[c].got[s] \in {0, ext[s]}

RefreshSound ==
  \A a \in Applies :
    /\ apply[a].pc = "commit" => apply[a].todo = {}
    /\ apply[a].pc \in {"load", "save"} => apply[a].cells = {}
    /\ apply[a].pc # "idle" =>
         \A s \in Sources :
           /\ apply[a].fresh[s] <= ext[s]
           /\ apply[a].fresh[s] # 0 =>
                IF apply[a].pc \in {"stage", "commit"} THEN Ahead(a, s)
                                                      ELSE CaughtUp(a, s)
           /\ apply[a].pc = "save" =>
                apply[a].loaded[s] # 0 /\ Sound(apply[a].loaded[s], s)

StaleInv ==
  /\ TypeOK
  /\ lineage = Inputs
  /\ RunAwaited
  /\ RowsFromOrigins
  /\ BaselineSound
  /\ CheckSound
  /\ MountedInOrder
  /\ RefreshSound

(* The metadata and the relations differ by what a refresh has swapped and *)
(* not published.                                                          *)
PublishedInv ==
  /\ TypeOK
  /\ RunAwaited
  /\ home => published = rel \/ \E a \in Applies : apply[a].pc = "publish"
  /\ \A a \in Applies :
       home /\ apply[a].pc = "publish" => rel = Merge(published, apply[a].staged)

-----------------------------------------------------------------------------
(***************************************************************************)
(* Operators.                                                              *)
(***************************************************************************)

LEMMA NothingType == Nothing \in Versions
BY DEF Nothing, Versions

LEMMA MergeType ==
  ASSUME NEW old \in Versions, NEW new \in Versions
  PROVE  Merge(old, new) \in Versions
BY DEF Merge, Versions

LEMMA ReachedMonotone ==
  ASSUME NEW from, NEW more, from \subseteq more, NEW inputs
  PROVE  Reached(from, inputs) \subseteq Reached(more, inputs)
BY DEF Reached

(* Who shows rows of a stale source is reached from the stale sources. *)
LEMMA OriginsReached ==
  ASSUME NEW stale \in SUBSET Sources, NEW s \in stale, NEW c \in Cells, s \in Origins[c]
  PROVE  c \in Affected(stale, Inputs)
<1>1. c \in Reached({s}, Inputs)
  BY DEF Origins
<1>2. {s} \subseteq stale
  OBVIOUS
<1> QED
  BY <1>1, <1>2, ReachedMonotone DEF Affected

LEMMA LeastNatural ==
  ASSUME NEW D \in SUBSET Nat, D # {}
  PROVE  \E i \in D : \A j \in D : i <= j
<1> DEFINE Less == OpToRel(<, Nat)
<1>1. IsWellFoundedOn(Less, Nat)
  BY NatLessThanWellFounded
<1>2. \A i, j \in Nat : <<j, i>> \in Less <=> j < i
  BY DEF OpToRel
<1> HIDE DEF Less
<1>3. PICK i \in D : \A j \in D : ~(<<j, i>> \in Less)
  BY <1>1, WFMin
<1>4. ASSUME NEW j \in D PROVE i <= j
  <2>1. i \in Nat /\ j \in Nat
    OBVIOUS
  <2>2. ~(j < i)
    BY <2>1, <1>2, <1>3
  <2> QED
    BY <2>1, <2>2
<1> QED
  BY <1>4

LEMMA EarliestIn ==
  ASSUME NEW todo \in SUBSET Cells, todo # {}
  PROVE  Earliest(todo) \in todo
<1> DEFINE D == {i \in DOMAIN CellOrder : CellOrder[i] \in todo}
<1>1. DOMAIN CellOrder \subseteq Nat
  BY OrderAssumption
<1>2. D # {}
  BY OrderAssumption
<1>3. PICK i \in D : \A j \in D : i <= j
  BY <1>1, <1>2, LeastNatural
<1>4. \E x \in DOMAIN CellOrder :
         /\ CellOrder[x] \in todo
         /\ \A j \in DOMAIN CellOrder : CellOrder[j] \in todo => x <= j
  BY <1>3
<1> QED
  BY <1>4 DEF Earliest

LEMMA AffectedType ==
  ASSUME NEW stale, NEW inputs
  PROVE  Affected(stale, inputs) \in SUBSET Cells
BY DEF Affected, Reached

-----------------------------------------------------------------------------
(***************************************************************************)
(* The type invariant.                                                     *)
(***************************************************************************)

LEMMA IdleTypes == NoCheck \in Check /\ Idle \in Apply
<1>1. Nothing \in Versions
  BY NothingType
<1>2. Blank \in [Cells -> SUBSET (Sources \cup Cells)]
  BY DEF Blank
<1> QED
  BY <1>1, <1>2 DEF NoCheck, Idle, Check, Apply

LEMMA InitType == Init => TypeOK
<1> SUFFICES ASSUME Init PROVE TypeOK
  OBVIOUS
<1>1. NoCheck \in Check /\ Idle \in Apply
  BY IdleTypes
<1> QED
  BY <1>1, InputsAssumption DEF Init, TypeOK, Versions

LEMMA StartRunType ==
  ASSUME TypeOK, NEW c \in Cells, NEW who \in Applies \cup {"user"}, StartRun(c, who)
  PROVE  /\ views' \subseteq Cells /\ unrecorded' \subseteq Cells
         /\ runs' \in [Cells -> Run \cup {None}]
         /\ result' \in [Cells -> Versions]
         /\ lineage' \in [Cells -> SUBSET (Sources \cup Cells)]
<1>1. [s \in Sources |-> IF s \in Origins[c] THEN rel[s] ELSE 0] \in Versions
  BY DEF TypeOK, Versions
<1>2. [by |-> who, got |-> [s \in Sources |-> IF s \in Origins[c] THEN rel[s] ELSE 0]] \in Run
  BY <1>1 DEF Run
<1> QED
  BY <1>2 DEF StartRun, TypeOK

LEMMA OutcomeType ==
  ASSUME TypeOK, NEW c \in Cells, NEW next \in BOOLEAN, Outcome(c, next)
  PROVE  apply' \in [Applies -> Apply]
<1>1. ASSUME NEW a \in Applies
      PROVE  [apply[a] EXCEPT !.pc = "next", !.cells = @ \ {c}] \in Apply
  BY DEF TypeOK, Apply
<1> QED
  BY <1>1, IdleTypes DEF Outcome, TypeOK

LEMMA CellType ==
  ASSUME TypeOK, NEW c \in Cells, UserRuns(c) \/ CellStep(c)
  PROVE  TypeOK'
<1>1. CASE UserRuns(c)
  BY <1>1, StartRunType DEF UserRuns, TypeOK, data
<1>2. CASE RunSucceeds(c)
  <2>1. runs[c].got \in Versions
    BY <1>2 DEF RunSucceeds, TypeOK, Run
  <2> QED
    BY <1>2, <2>1, OutcomeType DEF RunSucceeds, TypeOK, data
<1>3. CASE RunFails(c)
  BY <1>3, NothingType, OutcomeType DEF RunFails, TypeOK, data
<1>4. CASE RecordLineage(c)
  BY <1>4, InputsAssumption DEF RecordLineage, TypeOK, data
<1> QED
  BY <1>1, <1>2, <1>3, <1>4 DEF CellStep

LEMMA OutsideType ==
  ASSUME TypeOK, (\E s \in Sources : Change(s)) \/ SwitchAway
  PROVE  TypeOK'
<1>1. ASSUME NEW s \in Sources, Change(s) PROVE TypeOK'
  <2>1. ext' \in Versions
    BY <1>1 DEF Change, TypeOK, Versions
  <2> QED
    BY <1>1, <2>1 DEF Change, TypeOK, data, notebook
<1>2. CASE SwitchAway
  BY <1>2, NothingType DEF SwitchAway, TypeOK
<1> QED
  BY <1>1, <1>2

LEMMA CheckType ==
  ASSUME TypeOK, CheckStart \/ CheckStep
  PROVE  TypeOK'
<1>1. CASE CheckStart
  <2>1. check' \in Check
    BY <1>1, IdleTypes DEF CheckStart, TypeOK, Check
  <2> QED
    BY <1>1, <2>1 DEF CheckStart, TypeOK, data, notebook
<1>2. ASSUME NEW s \in Sources, Scan(s) PROVE TypeOK'
  <2>1. PICK current \in {0, ext[s]} :
          check' = [check EXCEPT !.todo = @ \ {s}, !.fresh[s] = current,
                                 !.pc = IF @ = "scan" /\ check.todo = {s}
                                        THEN "load" ELSE @]
    BY <1>2 DEF Scan
  <2>2. [check.fresh EXCEPT ![s] = current] \in Versions
    BY DEF TypeOK, Check, Versions
  <2>3. check' \in Check
    BY <2>1, <2>2 DEF TypeOK, Check
  <2> QED
    BY <1>2, <2>3 DEF Scan, TypeOK, data, notebook
<1>3. CASE CheckLoad
  BY <1>3 DEF CheckLoad, TypeOK, Check, data, notebook
<1>4. CASE CheckSave
  <2>1. check.loaded \in Versions /\ First \in Versions
    BY DEF TypeOK, Check, First, Versions
  <2>2. baseline' \in Versions
    BY <1>4, <2>1, MergeType DEF CheckSave
  <2>3. check' \in Check
    BY <1>4, IdleTypes, NothingType DEF CheckSave, TypeOK, Check
  <2> QED
    BY <1>4, <2>2, <2>3 DEF CheckSave, TypeOK, notebook
<1> QED
  BY <1>1, <1>2, <1>3, <1>4 DEF CheckStep

LEMMA MoveType ==
  ASSUME TypeOK, NEW a \in Applies, NEW r \in Apply, Move(a, r)
  PROVE  apply' \in [Applies -> Apply]
BY DEF Move, TypeOK

LEMMA ApplyType ==
  ASSUME TypeOK, NEW a \in Applies, Confirm(a) \/ ApplyStep(a)
  PROVE  TypeOK'
<1>r. apply[a] \in Apply
  BY DEF TypeOK
<1>1. CASE Confirm(a)
  <2>1. Affected(Stale, check.lineage) \in SUBSET Cells
    BY AffectedType
  <2>2. Stale \in SUBSET Sources
    BY DEF Stale
  <2>3. check.fresh \in Versions
    BY DEF TypeOK, Check
  <2>4. [Idle EXCEPT !.pc = "stage", !.todo = Stale, !.fresh = check.fresh,
                     !.cells = Affected(Stale, check.lineage)] \in Apply
    BY <2>1, <2>2, <2>3, IdleTypes DEF Apply
  <2>5. apply' \in [Applies -> Apply]
    BY <1>1, <2>4 DEF Confirm, TypeOK
  <2> QED
    BY <1>1, <2>5, IdleTypes DEF Confirm, TypeOK, data, notebook
<1>2. ASSUME NEW s \in Sources, Stage(a, s) PROVE TypeOK'
  <2>1. [apply[a].staged EXCEPT ![s] = ext[s]] \in Versions
    BY <1>r DEF TypeOK, Apply, Versions
  <2>2. [apply[a] EXCEPT !.todo = @ \ {s}, !.staged[s] = ext[s],
                         !.pc = IF apply[a].todo = {s} THEN "commit" ELSE "stage"] \in Apply
    BY <1>r, <2>1 DEF Apply
  <2> QED
    BY <1>2, <2>2, MoveType DEF Stage, TypeOK, data, notebook
<1>3. CASE ApplyFails(a) \/ Superseded(a)
  BY <1>3, IdleTypes, MoveType DEF ApplyFails, Superseded, TypeOK, data, notebook
<1>4. CASE Commit(a)
  <2>1. rel' \in Versions
    BY <1>r, <1>4, MergeType DEF Commit, TypeOK, Apply
  <2>2. [apply[a] EXCEPT !.pc = "publish"] \in Apply
    BY <1>r DEF Apply
  <2> QED
    BY <1>4, <2>1, <2>2, MoveType DEF Commit, TypeOK, notebook
<1>5. CASE Publish(a)
  <2>1. published' \in Versions
    BY <1>r, <1>5, MergeType DEF Publish, TypeOK, Apply
  <2>2. [apply[a] EXCEPT !.pc = "next", !.staged = Nothing] \in Apply
    BY <1>r, NothingType DEF Apply
  <2> QED
    BY <1>5, <2>1, <2>2, MoveType DEF Publish, TypeOK, notebook
<1>6. CASE RunCell(a)
  <2> DEFINE c == Earliest(apply[a].cells)
  <2>1. c \in Cells
    BY <1>6, <1>r, EarliestIn DEF RunCell, Apply
  <2>2. CASE StartRun(c, a) /\ Move(a, [apply[a] EXCEPT !.pc = "run"])
    <3>1. [apply[a] EXCEPT !.pc = "run"] \in Apply
      BY <1>r DEF Apply
    <3> QED
      BY <1>6, <2>1, <2>2, <3>1, StartRunType, MoveType DEF RunCell, TypeOK, data
  <2>3. CASE Move(a, Idle) /\ UNCHANGED notebook
    BY <1>6, <2>3, IdleTypes, MoveType DEF RunCell, TypeOK, data, notebook
  <2> QED
    BY <1>6, <2>2, <2>3 DEF RunCell
<1>7. CASE CellsDone(a)
  <2>1. [apply[a] EXCEPT !.pc = "load"] \in Apply
    BY <1>r DEF Apply
  <2> QED
    BY <1>7, <2>1, MoveType DEF CellsDone, TypeOK, data, notebook
<1>8. CASE ApplyLoad(a)
  <2>1. [apply[a] EXCEPT !.pc = "save", !.loaded = baseline] \in Apply
    BY <1>r DEF Apply, TypeOK
  <2> QED
    BY <1>8, <2>1, MoveType DEF ApplyLoad, TypeOK, data, notebook
<1>9. CASE ApplySave(a)
  <2>1. baseline' \in Versions
    BY <1>r, <1>9, MergeType DEF ApplySave, Apply
  <2> QED
    BY <1>9, <2>1, IdleTypes, MoveType DEF ApplySave, TypeOK, notebook
<1> QED
  BY <1>1, <1>2, <1>3, <1>4, <1>5, <1>6, <1>7, <1>8, <1>9 DEF ApplyStep

LEMMA StepType == TypeOK /\ [Next]_vars => TypeOK'
<1> SUFFICES ASSUME TypeOK, [Next]_vars PROVE TypeOK'
  OBVIOUS
<1>1. CASE UNCHANGED vars
  BY <1>1 DEF TypeOK, vars, data, notebook
<1>2. CASE Next
  BY <1>2, OutsideType, CellType, CheckType, ApplyType DEF Next
<1> QED
  BY <1>1, <1>2

(* Every variable keeps its type, whatever the sources, the cells and the  *)
(* number of refreshes that overlap.                                       *)
THEOREM TypeCorrect == Spec => []TypeOK
<1> QED
  BY InitType, StepType, PTL DEF Spec

-----------------------------------------------------------------------------
(***************************************************************************)
(* Runs and the refreshes that await them.                                 *)
(***************************************************************************)

LEMMA StartRunOwner ==
  ASSUME TypeOK, NEW c \in Cells, NEW who, StartRun(c, who)
  PROVE  \A a \in Applies, d \in Cells :
           Owns(a, d)' => (d # c /\ Owns(a, d)) \/ (d = c /\ a = who)
BY DEF StartRun, Owns, TypeOK

LEMMA AwaitedUser ==
  ASSUME TypeOK, RunAwaited, NEW c \in Cells, UserRuns(c)
  PROVE  RunAwaited'
BY StartRunOwner, UserAssumption DEF UserRuns, RunAwaited

LEMMA AwaitedOutcome ==
  ASSUME TypeOK, RunAwaited, NEW c \in Cells, NEW next \in BOOLEAN, Outcome(c, next),
         runs' = [runs EXCEPT ![c] = None]
  PROVE  RunAwaited'
<1> SUFFICES ASSUME NEW d \in Cells, NEW a \in Applies, Owns(a, d)'
             PROVE  apply'[a].pc = "run" /\ d = Earliest(apply'[a].cells)
  BY DEF RunAwaited
<1>1. d # c /\ Owns(a, d)
  BY DEF Owns, TypeOK
<1>2. ~Owns(a, c)
  BY <1>1 DEF RunAwaited
<1>3. apply'[a] = apply[a]
  BY <1>2 DEF Outcome, TypeOK
<1> QED
  BY <1>1, <1>3 DEF RunAwaited

(* A refresh that is not awaiting a run does what it likes. *)
LEMMA AwaitedMove ==
  ASSUME TypeOK, RunAwaited, NEW a \in Applies, NEW r, Move(a, r), UNCHANGED runs,
         \A c \in Cells : ~Owns(a, c)
  PROVE  RunAwaited'
<1> SUFFICES ASSUME NEW d \in Cells, NEW b \in Applies, Owns(b, d)'
             PROVE  apply'[b].pc = "run" /\ d = Earliest(apply'[b].cells)
  BY DEF RunAwaited
<1>1. Owns(b, d)
  BY DEF Owns
<1>2. b # a
  BY <1>1
<1>3. apply'[b] = apply[b]
  BY <1>2 DEF Move, TypeOK
<1> QED
  BY <1>1, <1>3 DEF RunAwaited

LEMMA AwaitedApply ==
  ASSUME TypeOK, RunAwaited, NEW a \in Applies, Confirm(a) \/ ApplyStep(a)
  PROVE  RunAwaited'
<1>1. ASSUME apply[a].pc # "run" PROVE \A c \in Cells : ~Owns(a, c)
  BY <1>1 DEF RunAwaited
<1>2. CASE Confirm(a)
  <2>1. UNCHANGED runs /\ apply[a].pc = "idle"
    BY <1>2 DEF Confirm, notebook
  <2>2. UNCHANGED apply \/ \E r : Move(a, r)
    BY <1>2 DEF Confirm, Move
  <2> QED
    BY <2>1, <2>2, <1>1, AwaitedMove DEF RunAwaited, Owns
<1>3. CASE RunCell(a)
  <2> DEFINE c == Earliest(apply[a].cells)
  <2>1. c \in Cells
    BY <1>3, EarliestIn DEF RunCell, TypeOK, Apply
  <2>2. CASE StartRun(c, a) /\ Move(a, [apply[a] EXCEPT !.pc = "run"])
    <3> SUFFICES ASSUME NEW d \in Cells, NEW b \in Applies, Owns(b, d)'
                 PROVE  apply'[b].pc = "run" /\ d = Earliest(apply'[b].cells)
      BY DEF RunAwaited
    <3>1. CASE d # c /\ Owns(b, d)
      <4>1. b # a
        BY <1>1, <1>3, <3>1 DEF RunCell
      <4>2. apply'[b] = apply[b]
        BY <2>2, <4>1 DEF Move, TypeOK
      <4> QED
        BY <3>1, <4>2 DEF RunAwaited
    <3>2. CASE d = c /\ b = a
      BY <2>2, <3>2 DEF Move, TypeOK, Apply
    <3> QED
      BY <2>1, <2>2, <3>1, <3>2, StartRunOwner
  <2>3. CASE Move(a, Idle) /\ UNCHANGED notebook
    BY <1>1, <1>3, <2>3, AwaitedMove DEF RunCell, notebook
  <2> QED
    BY <1>3, <2>2, <2>3 DEF RunCell
<1>4. CASE Superseded(a)
  <2>1. \A c \in Cells : ~Owns(a, c)
    BY <1>4 DEF Superseded, RunAwaited
  <2> QED
    BY <1>4, <2>1, AwaitedMove DEF Superseded, notebook
<1>5. ASSUME NEW s \in Sources, Stage(a, s) PROVE RunAwaited'
  BY <1>1, <1>5, AwaitedMove DEF Stage, notebook
<1>6. CASE ApplyFails(a)
  BY <1>1, <1>6, AwaitedMove DEF ApplyFails, notebook
<1>7. CASE Commit(a) \/ Publish(a)
  BY <1>1, <1>7, AwaitedMove DEF Commit, Publish, notebook
<1>8. CASE CellsDone(a) \/ ApplyLoad(a) \/ ApplySave(a)
  BY <1>1, <1>8, AwaitedMove DEF CellsDone, ApplyLoad, ApplySave, notebook
<1> QED
  BY <1>2, <1>3, <1>4, <1>5, <1>6, <1>7, <1>8 DEF ApplyStep

LEMMA AwaitedStep == TypeOK /\ RunAwaited /\ [Next]_vars => RunAwaited'
<1> SUFFICES ASSUME TypeOK, RunAwaited, [Next]_vars PROVE RunAwaited'
  OBVIOUS
<1>1. ASSUME UNCHANGED <<runs, apply>> PROVE RunAwaited'
  BY <1>1 DEF RunAwaited, Owns
<1>2. CASE UNCHANGED vars
  BY <1>1, <1>2 DEF vars, notebook
<1>3. CASE \E s \in Sources : Change(s)
  BY <1>1, <1>3 DEF Change, notebook
<1>4. ASSUME NEW c \in Cells, CellStep(c) PROVE RunAwaited'
  BY <1>1, <1>4, AwaitedOutcome DEF CellStep, RunSucceeds, RunFails, RecordLineage
<1>5. CASE CheckStart \/ CheckStep
  BY <1>1, <1>5 DEF CheckStart, CheckStep, Scan, CheckLoad, CheckSave, notebook
<1>6. CASE SwitchAway
  BY <1>6 DEF SwitchAway, RunAwaited, Owns
<1> QED
  BY <1>2, <1>3, <1>4, <1>5, <1>6, AwaitedUser, AwaitedApply DEF Next

-----------------------------------------------------------------------------
(***************************************************************************)
(* Metadata and relations.                                                 *)
(***************************************************************************)

LEMMA PublishedInit == Init => PublishedInv
<1> SUFFICES ASSUME Init PROVE PublishedInv
  OBVIOUS
<1>1. TypeOK
  BY InitType
<1>2. RunAwaited
  BY DEF Init, RunAwaited, Owns
<1> QED
  BY <1>1, <1>2 DEF Init, PublishedInv, Idle

(* A step after which the session is away, or that moves neither side and  *)
(* no refresh past its swap.                                               *)
LEMMA PublishedUnmoved ==
  ASSUME PublishedInv, TypeOK', RunAwaited',
         ~home' \/ UNCHANGED <<home, rel, published>>,
         \A a \in Applies : /\ apply[a].pc = "publish" => apply'[a] = apply[a]
                            /\ apply'[a].pc = "publish" => apply[a].pc = "publish"
  PROVE  PublishedInv'
BY DEF PublishedInv, Merge

LEMMA PublishedCell ==
  ASSUME PublishedInv, TypeOK', RunAwaited', NEW c \in Cells, UserRuns(c) \/ CellStep(c)
  PROVE  PublishedInv'
<1>1. UNCHANGED <<home, rel, published>>
  BY DEF UserRuns, CellStep, RunSucceeds, RunFails, RecordLineage, data
<1>2. ASSUME NEW next \in BOOLEAN, Outcome(c, next), NEW a \in Applies
      PROVE  /\ apply[a].pc = "publish" => apply'[a] = apply[a]
             /\ apply'[a].pc = "publish" => apply[a].pc = "publish"
  <2>1. apply[a] \in Apply /\ (Owns(a, c) => apply[a].pc = "run")
    BY DEF PublishedInv, TypeOK, RunAwaited
  <2> QED
    BY <1>2, <2>1 DEF Outcome, Idle, Apply
<1>3. UNCHANGED apply \/ \E next \in BOOLEAN : Outcome(c, next)
  BY DEF UserRuns, CellStep, RunSucceeds, RunFails, RecordLineage
<1> QED
  BY <1>1, <1>2, <1>3, PublishedUnmoved

LEMMA PublishedApply ==
  ASSUME OneRefresh, PublishedInv, TypeOK', RunAwaited', NEW a \in Applies,
         Confirm(a) \/ ApplyStep(a)
  PROVE  PublishedInv'
<1>r. apply[a] \in Apply
  BY DEF PublishedInv, TypeOK
<1>o. \A b \in Applies : b = a
  BY DEF OneRefresh
<1>1. CASE Commit(a)
  <2>1. apply'[a].pc = "publish" /\ apply'[a].staged = apply[a].staged
    BY <1>r, <1>1 DEF Commit, Move, PublishedInv, TypeOK, Apply
  <2>2. home => published = rel
    BY <1>1, <1>o DEF Commit, PublishedInv
  <2> QED
    BY <1>1, <1>o, <2>1, <2>2 DEF Commit, PublishedInv
<1>2. CASE Publish(a)
  <2>1. apply'[a].pc # "publish"
    BY <1>r, <1>2 DEF Publish, Move, PublishedInv, TypeOK, Apply
  <2>2. home => published' = rel'
    BY <1>2 DEF Publish, PublishedInv
  <2>3. UNCHANGED home
    BY <1>2 DEF Publish
  <2> QED
    BY <1>o, <2>1, <2>2, <2>3 DEF PublishedInv
<1>3. ASSUME UNCHANGED <<home, rel, published>>, apply[a].pc # "publish",
             apply'[a].pc # "publish"
      PROVE  PublishedInv'
  BY <1>o, <1>3, PublishedUnmoved
<1>m. ASSUME NEW r, Move(a, r) PROVE apply'[a] = r
  BY <1>m DEF Move, PublishedInv, TypeOK
<1>4. CASE Confirm(a)
  BY <1>r, <1>3, <1>4 DEF Confirm, PublishedInv, TypeOK, Idle, data
<1>5. ASSUME NEW s \in Sources, Stage(a, s) PROVE PublishedInv'
  BY <1>r, <1>3, <1>5, <1>m DEF Stage, Apply, data
<1>6. CASE ApplyFails(a) \/ Superseded(a)
  BY <1>3, <1>6, <1>m DEF ApplyFails, Superseded, Idle, data
<1>7. CASE RunCell(a)
  <2>1. Move(a, [apply[a] EXCEPT !.pc = "run"]) \/ Move(a, Idle)
    BY <1>7 DEF RunCell
  <2>2. apply'[a].pc # "publish"
    BY <1>r, <2>1, <1>m DEF Idle, Apply
  <2>3. UNCHANGED <<home, rel, published>> /\ apply[a].pc # "publish"
    BY <1>7 DEF RunCell, data
  <2> QED
    BY <1>3, <2>2, <2>3
<1>8. CASE CellsDone(a)
  BY <1>r, <1>3, <1>8, <1>m DEF CellsDone, Apply, data
<1>9. CASE ApplyLoad(a)
  BY <1>r, <1>3, <1>9, <1>m DEF ApplyLoad, Apply, data
<1>10. CASE ApplySave(a)
  BY <1>r, <1>3, <1>10, <1>m DEF ApplySave, Idle
<1> QED
  BY <1>1, <1>2, <1>4, <1>5, <1>6, <1>7, <1>8, <1>9, <1>10 DEF ApplyStep

LEMMA PublishedStep ==
  ASSUME OneRefresh
  PROVE  PublishedInv /\ [Next]_vars => PublishedInv'
<1> SUFFICES ASSUME PublishedInv, [Next]_vars PROVE PublishedInv'
  OBVIOUS
<1>1. TypeOK' /\ RunAwaited'
  BY StepType, AwaitedStep DEF PublishedInv
<1>2. ASSUME ~home' \/ UNCHANGED <<home, rel, published>>, UNCHANGED apply
      PROVE  PublishedInv'
  BY <1>1, <1>2, PublishedUnmoved
<1>3. CASE UNCHANGED vars
  BY <1>2, <1>3 DEF vars, data
<1>4. CASE \E s \in Sources : Change(s)
  BY <1>2, <1>4 DEF Change, data
<1>5. CASE CheckStart \/ CheckStep \/ SwitchAway
  BY <1>2, <1>5 DEF CheckStart, CheckStep, Scan, CheckLoad, CheckSave, SwitchAway, data
<1> QED
  BY <1>1, <1>3, <1>4, <1>5, PublishedCell, PublishedApply, OneRefresh DEF Next

(* The workbook describes the bytes DuckDB holds, but between the swap of  *)
(* a refresh and its publication - when refreshes do not overlap.          *)
THEOREM MetadataDescribeRelations ==
  ASSUME OneRefresh
  PROVE  Spec => []PublishedMounted
<1>1. PublishedInv => PublishedMounted
  BY DEF PublishedInv, PublishedMounted
<1>2. PublishedInv /\ [Next]_vars => PublishedInv'
  BY PublishedStep
<1> QED
  BY <1>1, <1>2, PublishedInit, PTL DEF Spec

-----------------------------------------------------------------------------
(***************************************************************************)
(* Results and versions.                                                   *)
(***************************************************************************)

(* What a step may do to relations, runs and rows.                         *)
Unmoved == UNCHANGED <<ext, home, rel, runs, result>>

Starts(c, who) == StartRun(c, who) /\ UNCHANGED <<ext, home, rel>>

LEMMA StepEffect ==
  ASSUME TypeOK, [Next]_vars
  PROVE  \/ Unmoved
         \/ \E s \in Sources : Change(s)
         \/ \E c \in Cells, who \in Applies \cup {"user"} : Starts(c, who)
         \/ \E c \in Cells : RunSucceeds(c) \/ RunFails(c)
         \/ SwitchAway
         \/ \E a \in Applies : Commit(a)
<1>1. CASE UNCHANGED vars
  BY <1>1 DEF vars, data, notebook, Unmoved
<1>2. ASSUME NEW c \in Cells, UserRuns(c) PROVE Starts(c, "user")
  BY <1>2 DEF UserRuns, Starts, data
<1>3. ASSUME NEW c \in Cells, RecordLineage(c) PROVE Unmoved
  BY <1>3 DEF RecordLineage, Unmoved, data
<1>4. CASE CheckStart \/ CheckStep
  BY <1>4 DEF CheckStart, CheckStep, Scan, CheckLoad, CheckSave, Unmoved, data, notebook
<1>5. ASSUME NEW a \in Applies, Confirm(a) PROVE Unmoved
  BY <1>5 DEF Confirm, Unmoved, data, notebook
<1>6. ASSUME NEW a \in Applies, ApplyStep(a), ~Commit(a)
      PROVE  Unmoved \/ \E c \in Cells : Starts(c, a)
  <2>1. CASE RunCell(a)
    <3>1. Earliest(apply[a].cells) \in Cells
      BY <2>1, EarliestIn DEF RunCell, TypeOK, Apply
    <3>2. \/ StartRun(Earliest(apply[a].cells), a)
          \/ UNCHANGED notebook
      BY <2>1 DEF RunCell
    <3>3. UNCHANGED <<ext, home, rel>>
      BY <2>1 DEF RunCell, data
    <3> QED
      BY <3>1, <3>2, <3>3 DEF Starts, Unmoved, notebook
  <2>2. CASE \E s \in Sources : Stage(a, s)
    BY <2>2 DEF Stage, Unmoved, data, notebook
  <2>3. CASE ApplyFails(a) \/ Superseded(a) \/ Publish(a)
    BY <2>3 DEF ApplyFails, Superseded, Publish, Unmoved, data, notebook
  <2>4. CASE CellsDone(a) \/ ApplyLoad(a) \/ ApplySave(a)
    BY <2>4 DEF CellsDone, ApplyLoad, ApplySave, Unmoved, data, notebook
  <2> QED
    BY <1>6, <2>1, <2>2, <2>3, <2>4 DEF ApplyStep
<1> QED
  BY <1>1, <1>2, <1>3, <1>4, <1>5, <1>6 DEF Next, CellStep

LEMMA Reads ==
  ASSUME TypeOK, NEW c \in Cells, NEW who, Starts(c, who)
  PROVE  /\ home
         /\ \A d \in Cells : d # c => runs'[d] = runs[d]
         /\ \A s \in Sources :
              runs'[c].got[s] = IF s \in Origins[c] THEN rel[s] ELSE 0
         /\ UNCHANGED <<ext, home, rel, result>>
BY DEF Starts, StartRun, TypeOK

LEMMA Succeeds ==
  ASSUME TypeOK, NEW c \in Cells, RunSucceeds(c)
  PROVE  /\ runs[c] # None /\ result'[c] = runs[c].got /\ runs'[c] = None
         /\ \A d \in Cells : d # c => runs'[d] = runs[d] /\ result'[d] = result[d]
         /\ UNCHANGED <<ext, home, rel>>
BY DEF RunSucceeds, TypeOK, data

LEMMA Fails ==
  ASSUME TypeOK, NEW c \in Cells, RunFails(c)
  PROVE  /\ \A s \in Sources : result'[c][s] = 0
         /\ runs'[c] = None
         /\ \A d \in Cells : d # c => runs'[d] = runs[d] /\ result'[d] = result[d]
         /\ UNCHANGED <<ext, home, rel>>
BY DEF RunFails, TypeOK, Nothing, data

LEMMA Grows ==
  ASSUME TypeOK, [Next]_vars, NEW s \in Sources
  PROVE  ext[s] \in Nat /\ ext'[s] \in Nat /\ ext[s] <= ext'[s]
<1>1. ext[s] \in Nat
  BY DEF TypeOK, Versions
<1>2. ASSUME NEW x \in Sources, Change(x)
      PROVE  ext'[s] = ext[s] \/ ext'[s] = ext[s] + 1
  BY <1>2 DEF Change, TypeOK, Versions
<1>3. ASSUME ~\E x \in Sources : Change(x)
      PROVE  ext' = ext
  BY <1>3, StepEffect, Reads, Succeeds, Fails DEF Unmoved, SwitchAway, Commit
<1> QED
  BY <1>1, <1>2, <1>3

(* Rows of the version outside stay so until the source changes.           *)
LEMMA SettledKept ==
  ASSUME TypeOK, MountedInOrder, [Next]_vars, NEW s \in Sources, Settled(s),
         ext'[s] = ext[s]
  PROVE  Settled(s)'
<1>1. CASE Unmoved
  BY <1>1 DEF Unmoved, Settled, Clean
<1>2. CASE \E x \in Sources : Change(x)
  BY <1>2 DEF Change, data, notebook, Settled, Clean
<1>3. ASSUME NEW c \in Cells, NEW who, Starts(c, who) PROVE Settled(s)'
  BY <1>3, Reads DEF Settled, Clean
<1>4. ASSUME NEW c \in Cells, RunSucceeds(c) PROVE Settled(s)'
  BY <1>4, Succeeds DEF Settled, Clean
<1>5. ASSUME NEW c \in Cells, RunFails(c) PROVE Settled(s)'
  BY <1>5, Fails DEF Settled, Clean
<1>6. CASE SwitchAway
  BY <1>6 DEF SwitchAway, Settled, Clean
<1>7. ASSUME NEW a \in Applies, Commit(a) PROVE Settled(s)'
  <2>1. apply[a].staged[s] \in Nat /\ rel[s] \in Nat /\ ext[s] \in Nat
    BY DEF TypeOK, Apply, Versions
  <2>2. apply[a].staged[s] # 0 => rel[s] <= apply[a].staged[s] /\ apply[a].staged[s] <= ext[s]
    BY DEF MountedInOrder
  <2>3. home => rel'[s] = ext[s]
    BY <1>7, <2>1, <2>2 DEF Commit, Merge, Settled
  <2> QED
    BY <1>7, <2>3 DEF Commit, Settled, Clean, notebook
<1> QED
  BY <1>1, <1>2, <1>3, <1>4, <1>5, <1>6, <1>7, StepEffect

LEMMA SoundKept ==
  ASSUME TypeOK, MountedInOrder, [Next]_vars, NEW s \in Sources, NEW v \in Nat, Sound(v, s)
  PROVE  Sound(v, s)'
<1>1. ext[s] \in Nat /\ ext'[s] \in Nat /\ ext[s] <= ext'[s]
  BY Grows
<1>2. v <= ext'[s]
  BY <1>1 DEF Sound
<1>3. v = ext'[s] => ext'[s] = ext[s] /\ v = ext[s]
  BY <1>1 DEF Sound
<1> QED
  BY <1>2, <1>3, SettledKept DEF Sound

LEMMA RowsStep ==
  ASSUME TypeOK, RowsFromOrigins, [Next]_vars
  PROVE  RowsFromOrigins'
<1>1. CASE Unmoved
  BY <1>1 DEF Unmoved, RowsFromOrigins
<1>2. CASE \E x \in Sources : Change(x)
  BY <1>2 DEF Change, notebook, RowsFromOrigins
<1>3. ASSUME NEW c \in Cells, NEW who, Starts(c, who) PROVE RowsFromOrigins'
  BY <1>3, Reads DEF RowsFromOrigins
<1>4. ASSUME NEW c \in Cells, RunSucceeds(c) PROVE RowsFromOrigins'
  BY <1>4, Succeeds DEF RowsFromOrigins
<1>5. ASSUME NEW c \in Cells, RunFails(c) PROVE RowsFromOrigins'
  BY <1>5, Fails DEF RowsFromOrigins
<1>6. CASE SwitchAway
  BY <1>6 DEF SwitchAway, RowsFromOrigins
<1>7. ASSUME NEW a \in Applies, Commit(a) PROVE RowsFromOrigins'
  BY <1>7 DEF Commit, RowsFromOrigins, notebook
<1> QED
  BY <1>1, <1>2, <1>3, <1>4, <1>5, <1>6, <1>7, StepEffect

LEMMA LineageStep ==
  ASSUME TypeOK, lineage = Inputs, [Next]_vars
  PROVE  lineage' = Inputs
<1>1. ASSUME NEW c \in Cells, UserRuns(c) \/ CellStep(c) PROVE lineage' = Inputs
  BY <1>1, InputsAssumption
  DEF UserRuns, StartRun, CellStep, RunSucceeds, RunFails, RecordLineage
<1>2. CASE UNCHANGED vars
  BY <1>2 DEF vars, notebook
<1>3. CASE CheckStart \/ CheckStep \/ SwitchAway \/ \E s \in Sources : Change(s)
  BY <1>3 DEF CheckStart, CheckStep, Scan, CheckLoad, CheckSave, SwitchAway, Change, notebook
<1>4. ASSUME NEW a \in Applies, Confirm(a) \/ ApplyStep(a) PROVE lineage' = Inputs
  BY <1>4
  DEF Confirm, ApplyStep, Stage, ApplyFails, Commit, Publish, RunCell, StartRun, Superseded,
      CellsDone, ApplyLoad, ApplySave, notebook
<1> QED
  BY <1>1, <1>2, <1>3, <1>4 DEF Next

(* What the refresh of a has saved, or will, is sound once its cells ran.  *)
LEMMA CaughtUpSound ==
  ASSUME StaleInv, NEW a \in Applies, apply[a].pc \in {"load", "save"},
         NEW s \in Sources, apply[a].fresh[s] # 0
  PROVE  Sound(apply[a].fresh[s], s)
<1>1. apply[a].cells = {} /\ CaughtUp(a, s) /\ apply[a].fresh[s] <= ext[s]
  BY DEF StaleInv, RefreshSound
<1> QED
  BY <1>1 DEF CaughtUp, Sound, Settled

LEMMA BaselineStep ==
  ASSUME StaleInv, [Next]_vars
  PROVE  BaselineSound'
<1> USE DEF StaleInv
<1> SUFFICES ASSUME NEW s \in Sources PROVE (baseline[s] # 0 /\ Sound(baseline[s], s))'
  BY DEF BaselineSound
<1>k. ASSUME NEW v \in Nat, v # 0, Sound(v, s), baseline'[s] = v
      PROVE  (baseline[s] # 0 /\ Sound(baseline[s], s))'
  <2>1. Sound(v, s)'
    BY <1>k, SoundKept
  <2> QED
    BY <1>k, <2>1 DEF Sound
<1>1. CASE CheckSave
  <2>1. check.loaded[s] # 0 /\ Sound(check.loaded[s], s) /\ check.persisted[s] # 0
    BY <1>1 DEF CheckSave, CheckSound
  <2>2. check.loaded[s] \in Nat
    BY DEF TypeOK, Check, Versions
  <2>3. baseline'[s] = check.loaded[s]
    BY <1>1, <2>1 DEF CheckSave, Merge, First
  <2> QED
    BY <1>k, <2>1, <2>2, <2>3
<1>2. ASSUME NEW a \in Applies, ApplySave(a)
      PROVE  (baseline[s] # 0 /\ Sound(baseline[s], s))'
  <2>1. apply[a].loaded[s] # 0 /\ Sound(apply[a].loaded[s], s)
    BY <1>2 DEF ApplySave, RefreshSound
  <2>2. apply[a].fresh[s] # 0 => Sound(apply[a].fresh[s], s)
    BY <1>2, CaughtUpSound DEF ApplySave
  <2>3. apply[a].loaded[s] \in Nat /\ apply[a].fresh[s] \in Nat
    BY DEF TypeOK, Apply, Versions
  <2>4. baseline'[s] = IF apply[a].fresh[s] # 0 THEN apply[a].fresh[s] ELSE apply[a].loaded[s]
    BY <1>2 DEF ApplySave, Merge
  <2> QED
    BY <1>k, <2>1, <2>2, <2>3, <2>4
<1>3. ASSUME ~CheckSave, ~\E a \in Applies : ApplySave(a)
      PROVE  baseline' = baseline
  <2>1. CASE UNCHANGED vars \/ \E x \in Sources : Change(x)
    BY <2>1 DEF vars, Change, data
  <2>2. ASSUME NEW c \in Cells, UserRuns(c) \/ CellStep(c) PROVE baseline' = baseline
    BY <2>2 DEF UserRuns, CellStep, RunSucceeds, RunFails, RecordLineage, data
  <2>3. CASE CheckStart \/ CheckStep \/ SwitchAway
    BY <1>3, <2>3 DEF CheckStart, CheckStep, Scan, CheckLoad, SwitchAway, data
  <2>4. ASSUME NEW a \in Applies, Confirm(a) \/ ApplyStep(a) PROVE baseline' = baseline
    BY <1>3, <2>4
    DEF Confirm, ApplyStep, Stage, ApplyFails, Commit, Publish, RunCell, Superseded,
        CellsDone, ApplyLoad, data
  <2> QED
    BY <2>1, <2>2, <2>3, <2>4 DEF Next
<1>4. baseline[s] \in Nat /\ baseline[s] # 0 /\ Sound(baseline[s], s)
  BY DEF BaselineSound, TypeOK, Versions
<1> QED
  BY <1>k, <1>1, <1>2, <1>3, <1>4

(***************************************************************************)
(* The sweep.                                                              *)
(***************************************************************************)

(* Steps that leave the sweep alone. *)
LEMMA CheckUnmoved ==
  ASSUME StaleInv, [Next]_vars, UNCHANGED check
  PROVE  CheckSound'
<1> USE DEF StaleInv
<1> SUFFICES ASSUME check.pc # "none", NEW s \in Sources
             PROVE  /\ check.lineage = Inputs
                    /\ check.persisted[s] # 0 /\ Sound(check.persisted[s], s)'
                    /\ check.fresh[s] <= ext'[s]
                    /\ check.pc = "save" => check.loaded[s] # 0 /\ Sound(check.loaded[s], s)'
  BY DEF CheckSound
<1>1. check.persisted[s] \in Nat /\ check.loaded[s] \in Nat /\ check.fresh[s] \in Nat
  BY DEF TypeOK, Check, Versions
<1>2. ext[s] \in Nat /\ ext'[s] \in Nat /\ ext[s] <= ext'[s]
  BY Grows
<1>3. check.persisted[s] # 0 /\ Sound(check.persisted[s], s) /\ check.fresh[s] <= ext[s]
  BY DEF CheckSound
<1>4. check.pc = "save" => check.loaded[s] # 0 /\ Sound(check.loaded[s], s)
  BY DEF CheckSound
<1> QED
  BY <1>1, <1>2, <1>3, <1>4, SoundKept DEF CheckSound

LEMMA CheckMoves ==
  ASSUME StaleInv, [Next]_vars, CheckStart \/ CheckStep
  PROVE  CheckSound'
<1> USE DEF StaleInv
<1>c. check \in Check
  BY DEF TypeOK
<1>k. ASSUME NEW s \in Sources, NEW v \in Nat, Sound(v, s) PROVE Sound(v, s)'
  BY <1>k, SoundKept
<1>b. ASSUME NEW s \in Sources PROVE baseline[s] \in Nat /\ baseline[s] # 0 /\ Sound(baseline[s], s)
  BY DEF BaselineSound, TypeOK, Versions
<1>1. CASE CheckStart
  <2>1. /\ check'.pc = "scan" /\ check'.persisted = baseline /\ check'.lineage = Inputs
        /\ \A s \in Sources : check'.fresh[s] = 0
    BY <1>1 DEF CheckStart, NoCheck, Nothing
  <2>2. \A s \in Sources : 0 <= ext'[s]
    BY Grows
  <2> QED
    BY <1>k, <1>b, <2>1, <2>2 DEF CheckSound
<1>2. ASSUME check.pc \in {"scan", "load", "save"}, check'.pc # "none",
             UNCHANGED <<ext, check.lineage, check.persisted>>,
             \A s \in Sources : check'.fresh[s] \in {0, ext[s], check.fresh[s]},
             check'.pc = "save" => check'.loaded = baseline
      PROVE  CheckSound'
  <2>1. check.pc # "none"
    BY <1>2
  <2>2. ASSUME NEW s \in Sources
        PROVE  /\ check.persisted[s] \in Nat /\ check.persisted[s] # 0
               /\ Sound(check.persisted[s], s)
               /\ check.fresh[s] <= ext[s] /\ ext[s] \in Nat
    BY <2>1 DEF CheckSound, TypeOK, Check, Versions
  <2>3. check.lineage = Inputs
    BY <2>1 DEF CheckSound
  <2>4. \A s \in Sources : check'.fresh[s] <= ext'[s]
    BY <1>2, <2>2
  <2> QED
    BY <1>2, <1>k, <1>b, <2>2, <2>3, <2>4 DEF CheckSound
<1>3. ASSUME NEW x \in Sources, Scan(x) PROVE CheckSound'
  <2>1. PICK current \in {0, ext[x]} :
          check' = [check EXCEPT !.todo = @ \ {x}, !.fresh[x] = current,
                                 !.pc = IF @ = "scan" /\ check.todo = {x}
                                        THEN "load" ELSE @]
    BY <1>3 DEF Scan
  <2>2. \A s \in Sources : check'.fresh[s] \in {0, ext[s], check.fresh[s]}
    BY <1>c, <2>1 DEF Check, Versions
  <2>3. check.pc = "scan" /\ check'.pc \in {"scan", "load"} /\ UNCHANGED ext
    BY <1>c, <1>3, <2>1 DEF Scan, Check
  <2>4. UNCHANGED <<check.lineage, check.persisted>>
    BY <1>c, <2>1 DEF Check
  <2> QED
    BY <1>2, <2>2, <2>3, <2>4
<1>4. CASE CheckLoad
  BY <1>c, <1>2, <1>4 DEF CheckLoad, Check
<1>5. CASE CheckSave
  <2>1. CASE check' = NoCheck
    BY <2>1 DEF NoCheck, CheckSound
  <2>2. CASE check' = [check EXCEPT !.pc = "modal", !.loaded = Nothing]
    BY <1>c, <1>2, <1>5, <2>2 DEF CheckSave, Check
  <2> QED
    BY <1>5, <2>1, <2>2 DEF CheckSave
<1> QED
  BY <1>1, <1>3, <1>4, <1>5 DEF CheckStep

LEMMA CheckSoundStep ==
  ASSUME StaleInv, [Next]_vars
  PROVE  CheckSound'
<1>1. CASE CheckStart \/ CheckStep
  BY <1>1, CheckMoves
<1>2. ASSUME NEW a \in Applies, Confirm(a) PROVE CheckSound'
  BY <1>2 DEF Confirm, NoCheck, CheckSound
<1>3. ASSUME ~(CheckStart \/ CheckStep), ~\E a \in Applies : Confirm(a)
      PROVE  UNCHANGED check
  <2>1. CASE UNCHANGED vars \/ SwitchAway \/ \E x \in Sources : Change(x)
    BY <2>1 DEF vars, Change, SwitchAway
  <2>2. ASSUME NEW c \in Cells, UserRuns(c) \/ CellStep(c) PROVE UNCHANGED check
    BY <2>2 DEF UserRuns, CellStep, RunSucceeds, RunFails, RecordLineage
  <2>3. ASSUME NEW a \in Applies, ApplyStep(a) PROVE UNCHANGED check
    BY <2>3
    DEF ApplyStep, Stage, ApplyFails, Commit, Publish, RunCell, Superseded,
        CellsDone, ApplyLoad, ApplySave
  <2> QED
    BY <1>3, <2>1, <2>2, <2>3 DEF Next
<1> QED
  BY <1>1, <1>2, <1>3, CheckUnmoved

(***************************************************************************)
(* What is mounted.                                                        *)
(***************************************************************************)

(* How a step changes what a refresh has staged. *)
LEMMA StagedEffect ==
  ASSUME TypeOK, [Next]_vars, NEW a \in Applies, NEW s \in Sources
  PROVE  \/ apply'[a].staged[s] \in {0, apply[a].staged[s]}
         \/ apply'[a].staged[s] = ext[s] /\ UNCHANGED <<ext, rel>>
<1>r. apply[a] \in Apply
  BY DEF TypeOK
<1>i. Idle.staged[s] = 0 /\ Nothing[s] = 0
  BY DEF Idle, Nothing
<1>m. ASSUME NEW b \in Applies, NEW r, Move(b, r)
      PROVE  apply'[a] = IF a = b THEN r ELSE apply[a]
  BY <1>m DEF Move, TypeOK
<1>1. CASE UNCHANGED apply
  BY <1>1
<1>2. ASSUME NEW c \in Cells, NEW next \in BOOLEAN, Outcome(c, next)
      PROVE  apply'[a].staged[s] \in {0, apply[a].staged[s]}
  BY <1>r, <1>i, <1>2 DEF Outcome, Apply
<1>3. ASSUME NEW b \in Applies, Confirm(b)
      PROVE  apply'[a].staged[s] \in {0, apply[a].staged[s]}
  BY <1>r, <1>i, <1>3 DEF Confirm, TypeOK, Idle
<1>4. ASSUME NEW b \in Applies, NEW x \in Sources, Stage(b, x)
      PROVE  \/ apply'[a].staged[s] \in {0, apply[a].staged[s]}
             \/ apply'[a].staged[s] = ext[s] /\ UNCHANGED <<ext, rel>>
  <2>1. CASE a = b
    <3> DEFINE r == [apply[a] EXCEPT !.todo = @ \ {x}, !.staged[x] = ext[x],
                                     !.pc = IF apply[a].todo = {x} THEN "commit" ELSE "stage"]
    <3>0. Move(a, r)
      BY <1>4, <2>1 DEF Stage
    <3>1. apply'[a].staged = [apply[a].staged EXCEPT ![x] = ext[x]]
      <4>1. r.staged = [apply[a].staged EXCEPT ![x] = ext[x]]
        BY <1>r DEF Apply
      <4>2. apply'[a] = r
        BY <1>m, <3>0
      <4> QED
        BY <4>1, <4>2
    <3>2. UNCHANGED <<ext, rel>>
      BY <1>4 DEF Stage, data
    <3> QED
      BY <1>r, <3>1, <3>2 DEF Apply, Versions
  <2>2. CASE a # b
    BY <1>m, <1>4, <2>2 DEF Stage
  <2> QED
    BY <2>1, <2>2
<1>5. ASSUME NEW b \in Applies, ApplyStep(b), ~\E x \in Sources : Stage(b, x)
      PROVE  apply'[a].staged[s] \in {0, apply[a].staged[s]}
  <2>1. CASE \E r \in {Idle, [apply[b] EXCEPT !.pc = "publish"], [apply[b] EXCEPT !.pc = "run"],
                       [apply[b] EXCEPT !.pc = "load"],
                       [apply[b] EXCEPT !.pc = "next", !.staged = Nothing],
                       [apply[b] EXCEPT !.pc = "save", !.loaded = baseline]} : Move(b, r)
    <3>1. PICK r \in {Idle, [apply[b] EXCEPT !.pc = "publish"], [apply[b] EXCEPT !.pc = "run"],
                       [apply[b] EXCEPT !.pc = "load"],
                       [apply[b] EXCEPT !.pc = "next", !.staged = Nothing],
                       [apply[b] EXCEPT !.pc = "save", !.loaded = baseline]} : Move(b, r)
      BY <2>1
    <3>2. a = b => r.staged[s] \in {0, apply[a].staged[s]}
      BY ZenonT(60), <1>r, <1>i, <3>1 DEF Apply
    <3> QED
      BY <1>m, <3>1, <3>2
  <2> QED
    BY <1>5, <2>1
    DEF ApplyStep, ApplyFails, Commit, Publish, RunCell, Superseded, CellsDone, ApplyLoad,
        ApplySave
<1>6. CASE CheckStart \/ CheckStep \/ SwitchAway \/ \E x \in Sources : Change(x)
  BY <1>1, <1>6 DEF CheckStart, CheckStep, Scan, CheckLoad, CheckSave, SwitchAway, Change
<1>7. ASSUME NEW c \in Cells, UserRuns(c) \/ CellStep(c)
      PROVE  apply'[a].staged[s] \in {0, apply[a].staged[s]}
  BY <1>2, <1>7 DEF UserRuns, CellStep, RunSucceeds, RunFails, RecordLineage
<1>8. CASE UNCHANGED vars
  BY <1>1, <1>8 DEF vars
<1> QED
  BY <1>3, <1>4, <1>5, <1>6, <1>7, <1>8 DEF Next

LEMMA MountedStep ==
  ASSUME OneRefresh, TypeOK, MountedInOrder, [Next]_vars
  PROVE  MountedInOrder'
<1> SUFFICES ASSUME NEW s \in Sources
             PROVE  /\ rel'[s] <= ext'[s]
                    /\ \A a \in Applies :
                         apply'[a].staged[s] # 0 => /\ rel'[s] <= apply'[a].staged[s]
                                                    /\ apply'[a].staged[s] <= ext'[s]
  BY DEF MountedInOrder
<1>1. /\ ext[s] \in Nat /\ ext'[s] \in Nat /\ ext[s] <= ext'[s]
      /\ rel[s] \in Nat /\ rel[s] <= ext[s]
  BY Grows DEF TypeOK, Versions, MountedInOrder
<1>2. ASSUME NEW a \in Applies
      PROVE  /\ apply[a].staged[s] \in Nat
             /\ apply[a].staged[s] # 0 =>
                  rel[s] <= apply[a].staged[s] /\ apply[a].staged[s] <= ext[s]
  BY DEF TypeOK, Apply, Versions, MountedInOrder
<1>3. ASSUME rel'[s] \in {0, rel[s]} PROVE
        /\ rel'[s] <= ext'[s]
        /\ \A a \in Applies :
             apply'[a].staged[s] # 0 => /\ rel'[s] <= apply'[a].staged[s]
                                        /\ apply'[a].staged[s] <= ext'[s]
  <2>1. rel'[s] <= ext'[s]
    BY <1>1, <1>3
  <2>2. ASSUME NEW a \in Applies, apply'[a].staged[s] # 0
        PROVE  rel'[s] <= apply'[a].staged[s] /\ apply'[a].staged[s] <= ext'[s]
    BY <1>1, <1>2, <1>3, <2>2, StagedEffect
  <2> QED
    BY <2>1, <2>2
<1>4. ASSUME NEW a \in Applies, Commit(a)
      PROVE  /\ rel'[s] <= ext'[s]
             /\ \A b \in Applies :
                  apply'[b].staged[s] # 0 => /\ rel'[s] <= apply'[b].staged[s]
                                             /\ apply'[b].staged[s] <= ext'[s]
  <2>1. \A b \in Applies : b = a
    BY DEF OneRefresh
  <2>2. apply'[a].staged = apply[a].staged
    BY <1>4 DEF Commit, Move, TypeOK, Apply
  <2>3. rel'[s] = IF apply[a].staged[s] # 0 THEN apply[a].staged[s] ELSE rel[s]
    BY <1>4 DEF Commit, Merge
  <2>4. ext' = ext
    BY <1>4 DEF Commit
  <2> QED
    BY <1>1, <1>2, <2>1, <2>2, <2>3, <2>4
<1>5. ASSUME ~\E a \in Applies : Commit(a) PROVE rel'[s] \in {0, rel[s]}
  <2>1. CASE Unmoved \/ SwitchAway \/ \E x \in Sources : Change(x)
    BY <2>1 DEF Unmoved, SwitchAway, Change, Nothing, data
  <2>2. ASSUME NEW c \in Cells, RunSucceeds(c) \/ RunFails(c) \/ \E who : Starts(c, who)
        PROVE  rel' = rel
    BY <2>2, Succeeds, Fails, Reads
  <2> QED
    BY <1>5, <2>1, <2>2, StepEffect
<1> QED
  BY <1>3, <1>4, <1>5

(***************************************************************************)
(* The refresh.                                                            *)
(***************************************************************************)

(* What RefreshSound says of one refresh and one source. *)
Sound1(a, s) ==
  /\ apply[a].fresh[s] <= ext[s]
  /\ apply[a].fresh[s] # 0 =>
       IF apply[a].pc \in {"stage", "commit"} THEN Ahead(a, s) ELSE CaughtUp(a, s)
  /\ apply[a].pc = "save" => apply[a].loaded[s] # 0 /\ Sound(apply[a].loaded[s], s)

(* A refresh that has caught up stays so while others work. *)
LEMMA CaughtUpKept ==
  ASSUME StaleInv, [Next]_vars, NEW a \in Applies, NEW s \in Sources,
         apply[a].fresh[s] <= ext[s], CaughtUp(a, s), apply'[a].fresh[s] = apply[a].fresh[s],
         ~\E b \in Applies : Commit(b),
         \/ apply'[a].cells = apply[a].cells
         \/ \E c \in Cells : RunSucceeds(c) /\ Owns(a, c) /\ apply'[a].cells = apply[a].cells \ {c}
  PROVE  CaughtUp(a, s)'
<1> USE DEF StaleInv
<1> SUFFICES ASSUME apply[a].fresh[s] = ext'[s]
             PROVE  /\ home' => rel'[s] = ext'[s]
                    /\ \A c \in Cells :
                         /\ c \in apply'[a].cells \/ Clean(c, s)'
                         /\ Owns(a, c)' => runs'[c].got[s] \in {0, ext'[s]}
  BY DEF CaughtUp
<1>1. ext'[s] = ext[s]
  <2>1. ext[s] \in Nat /\ ext'[s] \in Nat /\ ext[s] <= ext'[s]
    BY Grows
  <2>2. apply[a].fresh[s] \in Nat
    BY DEF TypeOK, Apply, Versions
  <2> QED
    BY <2>1, <2>2
<1>2. /\ home => rel[s] = ext[s]
      /\ \A c \in Cells : c \in apply[a].cells \/ Clean(c, s)
      /\ \A c \in Cells : Owns(a, c) => runs[c].got[s] \in {0, ext[s]}
  BY <1>1 DEF CaughtUp
<1>3. CASE Unmoved /\ apply'[a].cells = apply[a].cells
  BY <1>1, <1>2, <1>3 DEF Unmoved, Clean, Owns
<1>4. CASE (\E x \in Sources : Change(x)) /\ apply'[a].cells = apply[a].cells
  BY <1>1, <1>2, <1>4 DEF Change, data, notebook, Clean, Owns
<1>5. ASSUME NEW c \in Cells, NEW who, Starts(c, who), apply'[a].cells = apply[a].cells
      PROVE  /\ home' => rel'[s] = ext'[s]
             /\ \A d \in Cells :
                  /\ d \in apply'[a].cells \/ Clean(d, s)'
                  /\ Owns(a, d)' => runs'[d].got[s] \in {0, ext'[s]}
  BY <1>1, <1>2, <1>5, Reads DEF Clean, Owns
<1>6. ASSUME NEW c \in Cells, RunSucceeds(c)
      PROVE  /\ home' => rel'[s] = ext'[s]
             /\ \A d \in Cells :
                  /\ d \in apply'[a].cells \/ Clean(d, s)'
                  /\ Owns(a, d)' => runs'[d].got[s] \in {0, ext'[s]}
  <2>1. /\ runs[c] # None /\ result'[c] = runs[c].got /\ runs'[c] = None
        /\ \A d \in Cells : d # c => runs'[d] = runs[d] /\ result'[d] = result[d]
        /\ UNCHANGED <<ext, home, rel>>
    BY <1>6, Succeeds
  <2>2. ASSUME NEW d \in Cells, d # c
        PROVE  /\ d \in apply'[a].cells \/ Clean(d, s)'
               /\ Owns(a, d)' => runs'[d].got[s] \in {0, ext'[s]}
    <3>1. d \in apply[a].cells => d \in apply'[a].cells \/ \E x \in Cells : x # c /\ RunSucceeds(x)
      BY <2>2
    <3>2. ASSUME NEW x \in Cells, x # c, RunSucceeds(x) PROVE FALSE
      BY <2>1, <3>2, Succeeds
    <3> QED
      BY <1>2, <2>1, <2>2, <3>1, <3>2 DEF Clean, Owns
  <2>3. c \in apply'[a].cells \/ Clean(c, s)'
    BY <1>2, <2>1, Succeeds DEF Clean
  <2>4. ~Owns(a, c)'
    BY <2>1 DEF Owns
  <2> QED
    BY <1>1, <1>2, <2>1, <2>2, <2>3, <2>4
<1>7. ASSUME NEW c \in Cells, RunFails(c), apply'[a].cells = apply[a].cells
      PROVE  /\ home' => rel'[s] = ext'[s]
             /\ \A d \in Cells :
                  /\ d \in apply'[a].cells \/ Clean(d, s)'
                  /\ Owns(a, d)' => runs'[d].got[s] \in {0, ext'[s]}
  BY <1>1, <1>2, <1>7, Fails DEF Clean, Owns
<1>8. CASE SwitchAway /\ apply'[a].cells = apply[a].cells
  BY <1>1, <1>2, <1>8 DEF SwitchAway, Clean, Owns
<1>9. CASE apply'[a].cells = apply[a].cells
  BY <1>3, <1>4, <1>5, <1>6, <1>7, <1>8, <1>9, StepEffect
<1> QED
  BY <1>6, <1>9

(* What RefreshSound says of one refresh. *)
SoundRefresh(a) ==
  /\ apply[a].pc = "commit" => apply[a].todo = {}
  /\ apply[a].pc \in {"load", "save"} => apply[a].cells = {}
  /\ apply[a].pc # "idle" => \A s \in Sources : Sound1(a, s)

LEMMA IdleSound ==
  ASSUME NEW a \in Applies, apply'[a] = Idle
  PROVE  SoundRefresh(a)'
BY DEF Idle, SoundRefresh

LEMMA RefreshTypes ==
  ASSUME StaleInv, [Next]_vars, NEW a \in Applies, NEW s \in Sources
  PROVE  /\ apply[a] \in Apply
         /\ apply[a].fresh[s] \in Nat /\ apply[a].loaded[s] \in Nat /\ apply[a].staged[s] \in Nat
         /\ ext[s] \in Nat /\ ext'[s] \in Nat /\ ext[s] <= ext'[s]
BY Grows DEF StaleInv, TypeOK, Apply, Versions

(* A refresh that does not move, while others do. *)
LEMMA RefreshRests ==
  ASSUME StaleInv, [Next]_vars, NEW a \in Applies, SoundRefresh(a), apply'[a] = apply[a],
         ~\E b \in Applies : Commit(b)
  PROVE  SoundRefresh(a)'
<1> SUFFICES ASSUME apply[a].pc # "idle", NEW s \in Sources PROVE Sound1(a, s)'
  BY DEF SoundRefresh
<1>1. Sound1(a, s)
  BY DEF SoundRefresh
<1>2. \A v \in Nat : Sound(v, s) => Sound(v, s)'
  BY SoundKept DEF StaleInv
<1>3. ASSUME Ahead(a, s) PROVE Ahead(a, s)'
  BY <1>2, <1>3, RefreshTypes DEF Ahead, Origins
<1>4. ASSUME CaughtUp(a, s) PROVE CaughtUp(a, s)'
  BY <1>1, <1>4, CaughtUpKept DEF Sound1
<1> QED
  BY <1>1, <1>2, <1>3, <1>4, RefreshTypes DEF Sound1

LEMMA RefreshCell ==
  ASSUME StaleInv, [Next]_vars, NEW a \in Applies, SoundRefresh(a),
         NEW c \in Cells, CellStep(c) \/ UserRuns(c)
  PROVE  SoundRefresh(a)'
<1>r. apply[a] \in Apply
  BY DEF StaleInv, TypeOK
<1>n. ASSUME NEW b \in Applies, Commit(b) PROVE FALSE
  <2>1. apply[b].pc = "commit" /\ apply'[b].pc = "publish" /\ UNCHANGED notebook
    BY <1>n DEF Commit, Move, StaleInv, TypeOK, Apply
  <2>2. \/ apply'[b] = apply[b] \/ apply[b].pc = "run"
    BY <1>n, <2>1 DEF CellStep, UserRuns, RunSucceeds, RunFails, RecordLineage, Outcome,
                      StaleInv, RunAwaited
  <2> QED
    BY <2>1, <2>2
<1>1. CASE apply'[a] = apply[a]
  BY <1>1, <1>n, RefreshRests
<1>2. CASE RunFails(c) /\ Owns(a, c)
  BY <1>2, IdleSound DEF RunFails, Outcome
<1>3. CASE RunSucceeds(c) /\ Owns(a, c)
  <2>1. apply'[a] = [apply[a] EXCEPT !.pc = "next", !.cells = @ \ {c}]
    BY <1>3 DEF RunSucceeds, Outcome
  <2>2. /\ apply[a].pc = "run" /\ apply'[a].pc = "next"
        /\ apply'[a].fresh = apply[a].fresh /\ apply'[a].cells = apply[a].cells \ {c}
    BY <1>r, <1>3, <2>1 DEF StaleInv, RunAwaited, Apply
  <2>3. ASSUME NEW s \in Sources PROVE Sound1(a, s)'
    <3>1. apply[a].fresh[s] <= ext[s] /\ (apply[a].fresh[s] # 0 => CaughtUp(a, s))
      BY <2>2 DEF SoundRefresh, Sound1
    <3>2. apply[a].fresh[s] # 0 => CaughtUp(a, s)'
      BY <1>3, <1>n, <2>2, <3>1, CaughtUpKept
    <3> QED
      BY <2>2, <3>1, <3>2, RefreshTypes DEF Sound1
  <2> QED
    BY <2>2, <2>3 DEF SoundRefresh
<1>4. ASSUME ~(Owns(a, c) /\ (RunFails(c) \/ RunSucceeds(c))) PROVE apply'[a] = apply[a]
  BY <1>4 DEF CellStep, UserRuns, RunSucceeds, RunFails, RecordLineage, Outcome
<1> QED
  BY <1>1, <1>2, <1>3, <1>4

LEMMA RefreshConfirm ==
  ASSUME StaleInv, [Next]_vars, NEW a \in Applies, Confirm(a), apply'[a] # apply[a]
  PROVE  SoundRefresh(a)'
<1> USE DEF StaleInv
<1>1. /\ check.pc = "modal" /\ UNCHANGED ext
      /\ apply'[a].pc = "stage" /\ apply'[a].todo = Stale /\ apply'[a].fresh = check.fresh
      /\ apply'[a].cells = Affected(Stale, check.lineage)
  BY DEF Confirm, TypeOK, Idle
<1>2. check.lineage = Inputs /\ Stale \subseteq Sources
  BY <1>1 DEF CheckSound, Stale
<1>3. ASSUME NEW s \in Sources PROVE Sound1(a, s)'
  <2>1. /\ check.persisted[s] \in Nat /\ check.fresh[s] \in Nat
        /\ check.persisted[s] # 0 /\ Sound(check.persisted[s], s) /\ check.fresh[s] <= ext[s]
    BY <1>1 DEF CheckSound, TypeOK, Check, Versions
  <2>2. CASE s \in Stale
    <3>1. \A c \in Cells : s \in Origins[c] => c \in apply'[a].cells
      BY <1>1, <1>2, <2>2, OriginsReached
    <3>2. Ahead(a, s)'
      BY <1>1, <2>2, <3>1 DEF Ahead, Origins
    <3> QED
      BY <1>1, <2>1, <3>2 DEF Sound1
  <2>3. CASE s \notin Stale
    <3>1. check.fresh[s] # 0 => check.fresh[s] = check.persisted[s]
      BY <2>1, <2>3 DEF Stale
    <3>2. ASSUME check.fresh[s] # 0 PROVE Sound(apply[a].fresh[s], s)'
      <4>1. \A v \in Nat : Sound(v, s) => Sound(v, s)'
        BY SoundKept
      <4>2. PICK v \in Nat : v = check.persisted[s]
        BY <2>1
      <4>3. Sound(v, s)' /\ apply'[a].fresh[s] = v
        BY <1>1, <2>1, <3>1, <3>2, <4>1, <4>2
      <4> QED
        BY <4>3 DEF Sound
    <3> QED
      BY <1>1, <2>1, <3>2 DEF Sound1, Ahead
  <2> QED
    BY <2>2, <2>3
<1> QED
  BY <1>1, <1>3 DEF SoundRefresh

LEMMA RefreshStages ==
  ASSUME StaleInv, [Next]_vars, NEW a \in Applies, SoundRefresh(a),
         NEW x \in Sources, Stage(a, x)
  PROVE  SoundRefresh(a)'
<1>r. apply[a] \in Apply
  BY DEF StaleInv, TypeOK
<1>1. apply'[a] = [apply[a] EXCEPT !.todo = @ \ {x}, !.staged[x] = ext[x],
                                   !.pc = IF apply[a].todo = {x} THEN "commit" ELSE "stage"]
  BY DEF Stage, Move, StaleInv, TypeOK
<1>2. /\ apply[a].pc = "stage" /\ UNCHANGED <<ext, rel>>
      /\ apply'[a].pc = IF apply[a].todo = {x} THEN "commit" ELSE "stage"
      /\ apply'[a].todo = apply[a].todo \ {x}
      /\ apply'[a].staged = [apply[a].staged EXCEPT ![x] = ext[x]]
      /\ apply'[a].fresh = apply[a].fresh /\ apply'[a].cells = apply[a].cells
  BY <1>r, <1>1 DEF Stage, Apply, data
<1>3. ASSUME NEW s \in Sources PROVE Sound1(a, s)'
  <2>1. apply[a].fresh[s] <= ext[s] /\ (apply[a].fresh[s] # 0 => Ahead(a, s))
    BY <1>2 DEF SoundRefresh, Sound1
  <2>2. apply'[a].staged[s] = IF s = x THEN ext[s] ELSE apply[a].staged[s]
    BY <1>r, <1>2 DEF Apply, Versions
  <2>3. PICK v \in Nat : v = apply[a].fresh[s]
    BY RefreshTypes
  <2>4. Sound(v, s) => Sound(v, s)'
    BY SoundKept DEF StaleInv
  <2>5. ASSUME Sound(v, s)' PROVE Sound(apply[a].fresh[s], s)'
    BY <1>2, <2>3, <2>5 DEF Sound
  <2>6. Ahead(a, s) => Ahead(a, s)'
    BY <1>2, <2>1, <2>2, <2>3, <2>4, <2>5 DEF Ahead, Origins
  <2> QED
    BY <1>2, <2>1, <2>6 DEF Sound1
<1> QED
  BY <1>2, <1>3 DEF SoundRefresh

LEMMA RefreshCommits ==
  ASSUME StaleInv, [Next]_vars, NEW a \in Applies, SoundRefresh(a), Commit(a)
  PROVE  SoundRefresh(a)'
<1> USE DEF StaleInv
<1>1. /\ apply[a].pc = "commit" /\ apply[a].todo = {} /\ UNCHANGED <<ext, home, runs, result>>
      /\ apply'[a].pc = "publish"
      /\ apply'[a].fresh = apply[a].fresh /\ apply'[a].cells = apply[a].cells
  BY DEF Commit, Move, TypeOK, Apply, SoundRefresh, notebook
<1>2. ASSUME NEW s \in Sources PROVE Sound1(a, s)'
  <2>t. /\ apply[a].fresh[s] \in Nat /\ apply[a].staged[s] \in Nat /\ ext[s] \in Nat
    BY RefreshTypes
  <2>1. apply[a].fresh[s] <= ext[s] /\ (apply[a].fresh[s] # 0 => Ahead(a, s))
    BY <1>1 DEF SoundRefresh, Sound1
  <2>2. ASSUME apply[a].fresh[s] # 0, apply[a].fresh[s] = ext[s]
        PROVE  /\ home => rel'[s] = ext[s]
               /\ \A c \in Cells :
                    /\ c \in apply[a].cells \/ Clean(c, s)
                    /\ Owns(a, c) => runs[c].got[s] \in {0, ext[s]}
    <3>1. CASE Sound(apply[a].fresh[s], s)
      <4>1. Settled(s) /\ Settled(s)'
        BY <1>1, <2>2, <3>1, SettledKept DEF Sound
      <4> QED
        BY <1>1, <4>1 DEF Settled, Clean, Owns
    <3>2. CASE /\ \A c \in Cells : s \in Origins[c] => c \in apply[a].cells
               /\ apply[a].fresh[s] <= apply[a].staged[s]
      <4>1. apply[a].staged[s] # 0 /\ apply[a].staged[s] = ext[s]
        BY <2>t, <2>2, <3>2 DEF MountedInOrder
      <4>2. rel'[s] = ext[s]
        BY <4>1 DEF Commit, Merge
      <4>3. ASSUME NEW c \in Cells PROVE c \in apply[a].cells \/ Clean(c, s)
        BY <3>2 DEF RowsFromOrigins, Clean
      <4>4. \A c \in Cells : ~Owns(a, c)
        BY <1>1 DEF RunAwaited
      <4> QED
        BY <4>2, <4>3, <4>4
    <3> QED
      BY <1>1, <2>1, <2>2, <3>1, <3>2 DEF Ahead
  <2>3. apply[a].fresh[s] # 0 => CaughtUp(a, s)'
    BY <1>1, <2>2 DEF CaughtUp, Clean, Owns
  <2> QED
    BY <1>1, <2>1, <2>3 DEF Sound1
<1> QED
  BY <1>1, <1>2 DEF SoundRefresh

LEMMA NoCommit ==
  ASSUME TypeOK, NEW a \in Applies, NEW r, Move(a, r), apply[a].pc # "commit",
         NEW b \in Applies, Commit(b)
  PROVE  FALSE
<1>1. apply[b].pc = "commit" /\ apply'[b].pc = "publish"
  BY DEF Commit, Move, TypeOK, Apply
<1>2. a # b => apply'[b] = apply[b]
  BY DEF Move, TypeOK
<1> QED
  BY <1>1, <1>2

(* After the swap: the cells that are left are the same. *)
LEMMA RefreshGoesOn ==
  ASSUME StaleInv, [Next]_vars, NEW a \in Applies, SoundRefresh(a), NEW r, Move(a, r),
         apply[a].pc \in {"publish", "next", "load"},
         r.pc \in {"next", "run", "load", "save"},
         r.fresh = apply[a].fresh, r.cells = apply[a].cells,
         r.pc \in {"load", "save"} => r.cells = {},
         r.pc = "save" => r.loaded = baseline
  PROVE  SoundRefresh(a)'
<1> USE DEF StaleInv
<1>1. apply'[a] = r
  BY DEF Move, TypeOK
<1>2. ~\E b \in Applies : Commit(b)
  BY NoCommit
<1>3. ASSUME NEW s \in Sources PROVE Sound1(a, s)'
  <2>1. apply[a].fresh[s] <= ext[s] /\ (apply[a].fresh[s] # 0 => CaughtUp(a, s))
    BY DEF SoundRefresh, Sound1
  <2>2. apply[a].fresh[s] # 0 => CaughtUp(a, s)'
    BY <1>1, <1>2, <2>1, CaughtUpKept
  <2>3. ASSUME r.pc = "save"
        PROVE  r.loaded[s] # 0 /\ Sound(apply[a].loaded[s], s)'
    <3>1. PICK v \in Nat : v = baseline[s]
      BY DEF TypeOK, Versions
    <3>2. v # 0 /\ Sound(v, s)'
      BY <3>1, SoundKept DEF BaselineSound
    <3> QED
      BY <1>1, <2>3, <3>1, <3>2 DEF Sound
  <2> QED
    BY <1>1, <2>1, <2>2, <2>3, RefreshTypes DEF Sound1
<1> QED
  BY <1>1, <1>3 DEF SoundRefresh

LEMMA RefreshMoves ==
  ASSUME StaleInv, [Next]_vars, NEW a \in Applies, SoundRefresh(a), ApplyStep(a)
  PROVE  SoundRefresh(a)'
<1>r. apply[a] \in Apply
  BY DEF StaleInv, TypeOK
<1>i. ASSUME Move(a, Idle) PROVE SoundRefresh(a)'
  BY <1>i, IdleSound DEF Move, StaleInv, TypeOK
<1>1. CASE ApplyFails(a) \/ Superseded(a) \/ ApplySave(a)
  BY <1>1, <1>i DEF ApplyFails, Superseded, ApplySave
<1>2. CASE Publish(a)
  <2> DEFINE r == [apply[a] EXCEPT !.pc = "next", !.staged = Nothing]
  <2>1. r.pc = "next" /\ r.fresh = apply[a].fresh /\ r.cells = apply[a].cells
    BY <1>r DEF Apply
  <2>2. apply[a].pc = "publish" /\ Move(a, r)
    BY <1>2 DEF Publish
  <2> HIDE DEF r
  <2> QED
    BY <2>1, <2>2, RefreshGoesOn
<1>3. CASE RunCell(a)
  <2> DEFINE r == [apply[a] EXCEPT !.pc = "run"]
  <2>1. r.pc = "run" /\ r.fresh = apply[a].fresh /\ r.cells = apply[a].cells
    BY <1>r DEF Apply
  <2>2. apply[a].pc = "next" /\ (Move(a, r) \/ Move(a, Idle))
    BY <1>3 DEF RunCell
  <2> HIDE DEF r
  <2> QED
    BY <1>i, <2>1, <2>2, RefreshGoesOn
<1>4. CASE CellsDone(a)
  <2> DEFINE r == [apply[a] EXCEPT !.pc = "load"]
  <2>1. r.pc = "load" /\ r.fresh = apply[a].fresh /\ r.cells = apply[a].cells
    BY <1>r DEF Apply
  <2>2. apply[a].pc = "next" /\ apply[a].cells = {} /\ Move(a, r)
    BY <1>4 DEF CellsDone
  <2> HIDE DEF r
  <2> QED
    BY <2>1, <2>2, RefreshGoesOn
<1>5. CASE ApplyLoad(a)
  <2> DEFINE r == [apply[a] EXCEPT !.pc = "save", !.loaded = baseline]
  <2>1. /\ r.pc = "save" /\ r.fresh = apply[a].fresh /\ r.cells = apply[a].cells
        /\ r.loaded = baseline
    BY <1>r DEF Apply
  <2>2. apply[a].pc = "load" /\ apply[a].cells = {} /\ Move(a, r)
    BY <1>5 DEF ApplyLoad, SoundRefresh
  <2> HIDE DEF r
  <2> QED
    BY <2>1, <2>2, RefreshGoesOn
<1> QED
  BY <1>1, <1>2, <1>3, <1>4, <1>5, RefreshStages, RefreshCommits DEF ApplyStep

LEMMA RefreshStep ==
  ASSUME OneRefresh, StaleInv, [Next]_vars
  PROVE  RefreshSound'
<1> SUFFICES ASSUME NEW a \in Applies PROVE SoundRefresh(a)'
  BY DEF RefreshSound, SoundRefresh, Sound1
<1>0. SoundRefresh(a)
  BY DEF StaleInv, RefreshSound, SoundRefresh, Sound1
<1>1. ASSUME NEW b \in Applies PROVE b = a
  BY DEF OneRefresh
<1>2. CASE Confirm(a) \/ ApplyStep(a)
  <2>1. ASSUME ~ApplyStep(a), apply'[a] = apply[a] PROVE SoundRefresh(a)'
    <3>1. ~\E b \in Applies : Commit(b)
      BY <1>1, <2>1 DEF ApplyStep
    <3> QED
      BY <1>0, <2>1, <3>1, RefreshRests
  <2> QED
    BY <1>0, <1>2, <2>1, RefreshMoves, RefreshConfirm
<1>3. ASSUME NEW c \in Cells, UserRuns(c) \/ CellStep(c) PROVE SoundRefresh(a)'
  BY <1>0, <1>3, RefreshCell
<1>4. ASSUME UNCHANGED apply PROVE SoundRefresh(a)'
  <2>1. ASSUME NEW b \in Applies, Commit(b) PROVE FALSE
    BY <1>4, <2>1 DEF Commit, Move, StaleInv, TypeOK, Apply
  <2> QED
    BY <1>0, <1>4, <2>1, RefreshRests
<1>5. CASE UNCHANGED vars
  BY <1>4, <1>5 DEF vars
<1>6. CASE CheckStart \/ CheckStep \/ SwitchAway \/ \E s \in Sources : Change(s)
  BY <1>4, <1>6 DEF CheckStart, CheckStep, Scan, CheckLoad, CheckSave, SwitchAway, Change
<1> QED
  BY <1>1, <1>2, <1>3, <1>5, <1>6 DEF Next

LEMMA StaleInit ==
  ASSUME AllRecorded
  PROVE  Init => StaleInv
<1> SUFFICES ASSUME Init PROVE StaleInv
  OBVIOUS
<1>1. TypeOK
  BY InitType
<1>2. lineage = Inputs
  BY InputsAssumption DEF Init, AllRecorded
<1>3. RunAwaited /\ RowsFromOrigins
  BY DEF Init, RunAwaited, Owns, RowsFromOrigins
<1>4. BaselineSound
  BY DEF Init, AllRecorded, BaselineSound, Sound, Settled, Clean
<1>5. CheckSound /\ MountedInOrder /\ RefreshSound
  BY DEF Init, NoCheck, Idle, Nothing, CheckSound, MountedInOrder, RefreshSound
<1> QED
  BY <1>1, <1>2, <1>3, <1>4, <1>5 DEF StaleInv

LEMMA StaleStep ==
  ASSUME OneRefresh
  PROVE  StaleInv /\ [Next]_vars => StaleInv'
<1> SUFFICES ASSUME StaleInv, [Next]_vars PROVE StaleInv'
  OBVIOUS
<1>1. TypeOK' /\ RunAwaited'
  BY StepType, AwaitedStep DEF StaleInv
<1>2. lineage' = Inputs /\ RowsFromOrigins'
  BY LineageStep, RowsStep DEF StaleInv
<1>3. BaselineSound' /\ CheckSound'
  BY BaselineStep, CheckSoundStep
<1>4. MountedInOrder' /\ RefreshSound'
  BY MountedStep, RefreshStep DEF StaleInv
<1> QED
  BY <1>1, <1>2, <1>3, <1>4 DEF StaleInv

(* A baseline that is what is outside, so that the next check would offer  *)
(* nothing, means that every cell reading the source shows that version -  *)
(* when every cell has its lineage recorded, every source its baseline,    *)
(* and refreshes do not overlap.                                           *)
THEOREM NoResultIsSilentlyStale ==
  ASSUME OneRefresh, AllRecorded
  PROVE  Spec => []NoSilentStale
<1>1. StaleInv => NoSilentStale
  BY DEF StaleInv, BaselineSound, Sound, Settled, Clean, NoSilentStale
<1>2. StaleInv /\ [Next]_vars => StaleInv'
  BY StaleStep
<1>3. Init => StaleInv
  BY StaleInit
<1> QED
  BY <1>1, <1>2, <1>3, PTL DEF Spec

=============================================================================
