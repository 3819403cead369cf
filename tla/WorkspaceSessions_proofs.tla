----------------------- MODULE WorkspaceSessions_proofs -----------------------
(***************************************************************************)
(* Proofs about WorkspaceSessions, for any number of sessions, handlers    *)
(* and saves, and however often the tab goes away: the types, the          *)
(* consistency of the session index, and what auto-save promises.          *)
(*                                                                         *)
(* Every writer of the index read it before an await, so what it writes    *)
(* back may be stale.  The index stays consistent because each stale copy  *)
(* is itself consistent: Sound says it of the copy a task holds (IInv).    *)
(* CallInv says which tasks run which function, and that a boot runs       *)
(* alone.  On top of it OwnInv follows whose work a snapshot is, FlushInv  *)
(* the order in which the saves of a session are served, and DInv what the *)
(* store will hold when the pending requests have been served.             *)
(***************************************************************************)
EXTENDS WorkspaceSessions, SequenceTheorems, TLAPS

Listed(idx) == idx.sessions # {} /\ idx.active \in idx.sessions

(* Program points that hold a copy of the index, an id, or a file.         *)
Holding == {"saveWriteIndex", "setActiveWrite", "renameWrite",
            "deleteArtifacts", "deleteWrite", "bootPut", "bootForget",
            "bootWrite"}
Naming  == {"createWrite", "setActiveWrite", "deleteCheck", "deleteRead",
            "deleteArtifacts", "deleteWrite", "bootPut"}

Sound(r) ==
  /\ r.pc \in Holding => Listed(r.idx)
  /\ r.pc = "setActiveWrite" => r.id \in r.idx.sessions
  /\ r.pc \in Naming => r.id \in SessionIds
  /\ r.pc = "readSnapshot" => r.sid \in SessionIds
  /\ r.pc \in Loading => r.file \in Content

(* TypeOK without the tasks and the queue. *)
Stored ==
  /\ index \in Index
  /\ snapshot \in [SessionIds -> Record]
  /\ results \in [SessionIds -> Record]
  /\ rev \in Nat /\ unloads \in Nat
  /\ issued \subseteq SessionIds /\ deleted \subseteq SessionIds
  /\ cleared \in SessionIds \cup {None} /\ unrestored \in BOOLEAN

OnTab ==
  /\ active \in SessionIds \cup {None}
  /\ live \in Record
  /\ applying \in Tasks \cup {None}

Flags ==
  /\ legacy \in BOOLEAN
  /\ wasNonEmpty \in BOOLEAN
  /\ timer \in BOOLEAN
  /\ booted \in BOOLEAN
  /\ warning \in BOOLEAN

Running ==
  /\ task \in [Tasks -> TaskRec]
  /\ queue \in Seq(Tasks)
  /\ \A t \in Tasks : Sound(task[t])

IndexOK == index.sessions # {} => index.active \in index.sessions

(* Nothing but a boot, and files that the user opens, runs before the      *)
(* index lists a session; no session is active till then.                  *)
Established ==
  \/ index.sessions # {}
  \/ /\ ~booted /\ active = None
     /\ \E t \in Tasks : task[t].pc \in BootSteps
     /\ \A t \in Tasks :
          \/ task[t].pc \in BootSteps \cup {"idle"}
          \/ task[t].pc \in Loading /\ task[t].op = "open"

IInv == Stored /\ OnTab /\ Flags /\ Running /\ IndexOK /\ Established

LEMMA IInvImplies == IInv => TypeOK /\ IndexConsistent
<1> SUFFICES ASSUME IInv PROVE TypeOK /\ IndexConsistent
  OBVIOUS
<1>1. {legacy, wasNonEmpty, timer, booted, warning} \subseteq BOOLEAN
  BY Zenon DEF IInv, Flags
<1>2. TypeOK
  BY <1>1 DEF IInv, TypeOK, Stored, OnTab, Running
<1>3. IndexConsistent
  BY DEF IInv, IndexOK, Established, IndexConsistent
<1> QED BY <1>2, <1>3

-----------------------------------------------------------------------------
(* Scheduling. *)

LEMMA IdleTaskSound == IdleTask \in TaskRec /\ Sound(IdleTask)
<1>1. EmptyIndex \in Index /\ None \in Record /\ "idle" \in Steps
  BY DEF EmptyIndex, Index, Record, Steps
<1>2. IdleTask \in TaskRec
  BY <1>1 DEF IdleTask, TaskRec, TaskOps
<1>3. Sound(IdleTask)
  BY DEF IdleTask, Sound, Holding, Naming, Loading
<1> QED BY <1>2, <1>3

(* A call starts as a sound task. *)
LEMMA CallType ==
  ASSUME NEW op \in TaskOps, NEW pc \in Steps
  PROVE  /\ Call(op, pc) \in TaskRec
         /\ Call(op, pc).pc = pc /\ Call(op, pc).op = op
         /\ Call(op, pc).after = "idle"
BY IdleTaskSound DEF Call, TaskRec, IdleTask

(* Continue replaces one task, by a sound one, and keeps the queue a       *)
(* sequence of tasks.                                                      *)
LEMMA ContinueRunning ==
  ASSUME Running, NEW t \in Tasks, NEW r \in TaskRec, Sound(r),
         task[t].pc \in IdbSteps => queue # <<>>,
         Continue(t, r)
  PROVE  /\ Running'
         /\ task'[t].pc = r.pc
         /\ \A x \in Tasks : x # t => task'[x] = task[x]
<1> DEFINE q == IF r.pc = "idle" THEN IdleTask ELSE r
           rest == IF task[t].pc \in IdbSteps THEN Tail(queue) ELSE queue
<1>1. q \in TaskRec /\ Sound(q) /\ q.pc = r.pc
  BY IdleTaskSound DEF IdleTask
<1>2. task' = [task EXCEPT ![t] = q]
  BY DEF Continue
<1>3. rest \in Seq(Tasks)
  BY DEF Running
<1>4. queue' = IF r.pc \in IdbSteps THEN Append(rest, t) ELSE rest
  BY DEF Continue
<1> HIDE DEF q, rest
<1>5. queue' \in Seq(Tasks)
  BY <1>3, <1>4
<1>6. /\ task' \in [Tasks -> TaskRec] /\ task'[t] = q
      /\ \A x \in Tasks : x # t => task'[x] = task[x]
  BY <1>1, <1>2 DEF Running
<1>7. \A x \in Tasks : Sound(task[x])'
  BY <1>1, <1>6 DEF Running, Sound, Listed
<1> QED BY <1>1, <1>5, <1>6, <1>7 DEF Running

(* What a step of a task has to show. *)
LEMMA StepInv ==
  ASSUME IInv, NEW t \in Tasks, NEW r \in TaskRec, Sound(r),
         task[t].pc \in IdbSteps => queue # <<>>,
         Continue(t, r), Stored', OnTab', Flags', Listed(index')
  PROVE  IInv'
<1>1. Running'
  BY ContinueRunning DEF IInv
<1> QED BY <1>1 DEF IInv, IndexOK, Established, Listed

(* A step that touches nothing but its task. *)
LEMMA TaskStepInv ==
  ASSUME IInv, NEW t \in Tasks, NEW r \in TaskRec, Sound(r),
         task[t].pc \in IdbSteps => queue # <<>>,
         Continue(t, r), Listed(index), UNCHANGED <<idb, tab, hist>>
  PROVE  IInv'
<1>1. Stored'
  BY DEF IInv, Stored, idb, hist
<1>2. OnTab' /\ Flags'
  BY DEF IInv, OnTab, Flags, idb, tab
<1>3. Listed(index')
  BY DEF idb
<1> QED BY <1>1, <1>2, <1>3, StepInv

(* The index lists a session when a task is past its boot.                 *)
LEMMA PastBoot ==
  ASSUME IInv, NEW t \in Tasks, task[t].pc \notin BootSteps \cup Loading \cup {"idle"}
  PROVE  Listed(index)
BY DEF IInv, IndexOK, Established, Listed

LEMMA Booted == ASSUME IInv, booted PROVE Listed(index)
BY DEF IInv, IndexOK, Established, Listed

(* So it does when the session menu can be clicked.                        *)
LEMMA MenuDrawn ==
  ASSUME IInv, NEW t \in Tasks, NEW op, Clicks(t, op), op # "open"
  PROVE  task[t].pc = "idle" /\ Listed(index)
BY Booted DEF Clicks, IInv, IndexOK, Established, Listed

(* What a step finds at its program point. *)
LEMMA AtFacts ==
  ASSUME IInv, NEW t \in Tasks, NEW pc, At(t, pc)
  PROVE  /\ task[t] \in TaskRec /\ Sound(task[t]) /\ task[t].pc = pc
         /\ task[t].pc \in IdbSteps => queue # <<>>
         /\ pc \notin BootSteps \cup Loading \cup {"idle"} => Listed(index)
BY PastBoot DEF IInv, Running, At

(* A task that holds nothing is sound. *)
FreeSteps == Steps \ (Holding \cup Naming \cup Loading \cup {"readSnapshot"})

LEMMA FreeSound == ASSUME NEW r \in TaskRec, r.pc \in FreeSteps PROVE Sound(r)
BY DEF Sound, FreeSteps, Naming

LEMMA MoveSound ==
  ASSUME NEW r \in TaskRec, NEW pc \in FreeSteps
  PROVE  [r EXCEPT !.pc = pc] \in TaskRec /\ Sound([r EXCEPT !.pc = pc])
<1>1. [r EXCEPT !.pc = pc] \in TaskRec /\ [r EXCEPT !.pc = pc].pc = pc
  BY DEF TaskRec, FreeSteps
<1> QED BY <1>1, FreeSound

LEMMA AfterFree ==
  ASSUME NEW r \in TaskRec
  PROVE  r.after \in FreeSteps /\ r.after \notin BootSteps
BY DEF TaskRec, FreeSteps, Steps, IdbSteps, Reads, Holding, Naming, Loading,
       BootSteps

LEMMA ScheduleSaveType ==
  ASSUME ScheduleSave PROVE timer' \in BOOLEAN
BY DEF ScheduleSave

LEMMA FreePoints ==
  {"saveReadIndex", "putSnapshot", "putResults", "clearSnapshot",
   "clearResults", "setActiveRead", "switchRead", "createRead", "renameRead",
   "deleteNext", "freshRead", "freshArtifacts", "bootRead", "bootLegacy",
   "loadSettings", "readResults", "idle", "drop", "reload"} \subseteq FreeSteps
BY DEF FreeSteps, Steps, IdbSteps, Reads, Writes, Holding, Naming, Loading

(* A step that ends at a point that holds nothing, index unread. *)
LEMMA GotoInv ==
  ASSUME IInv, NEW t \in Tasks, NEW pc \in FreeSteps, NEW from, At(t, from),
         from \notin BootSteps \cup Loading \cup {"idle"}, Goto(t, pc),
         Stored', OnTab', Flags', index' = index
  PROVE  IInv'
<1> DEFINE r == [task[t] EXCEPT !.pc = pc]
<1>1. task[t] \in TaskRec /\ (task[t].pc \in IdbSteps => queue # <<>>)
        /\ Listed(index)
  BY AtFacts
<1>2. Continue(t, r)
  BY DEF Goto
<1>3. r \in TaskRec /\ Sound(r)
  BY <1>1, MoveSound
<1> HIDE DEF r
<1> QED BY <1>1, <1>2, <1>3, StepInv

LEMMA ReturnInv ==
  ASSUME IInv, NEW t \in Tasks, Return(t),
         task[t].pc \in IdbSteps => queue # <<>>,
         Stored', OnTab', Flags', Listed(index')
  PROVE  IInv'
BY IdleTaskSound, StepInv DEF Return

-----------------------------------------------------------------------------
(* persistSnapshot. *)

LEMMA PersistSound ==
  ASSUME IInv, NEW t \in Tasks, NEW caller \in TaskRec,
         PersistSnapshot(t, caller)
  PROVE  /\ \E r \in TaskRec : Sound(r) /\ Continue(t, r)
         /\ wasNonEmpty' \in BOOLEAN /\ warning' \in BOOLEAN
<1>1. caller.after \in FreeSteps
  BY AfterFree
<1>2. wasNonEmpty' \in BOOLEAN /\ warning' \in BOOLEAN
  <2>1. warning \in BOOLEAN
    BY DEF IInv, Flags
  <2>2. wasNonEmpty' \in BOOLEAN
    BY DEF PersistSnapshot
  <2>3. warning' \in BOOLEAN
    BY <2>1, Zenon DEF PersistSnapshot
  <2> QED BY <2>2, <2>3
<1>3. active \in SessionIds \cup {None} /\ live \in Record
  BY DEF IInv, OnTab
<1> DEFINE back  == [caller EXCEPT !.pc = caller.after]
           clear == [caller EXCEPT !.pc = "clearSnapshot", !.sid = active]
           put   == [caller EXCEPT !.pc = "putSnapshot", !.sid = active,
                                   !.file = live]
<1>4. Continue(t, back) \/ Continue(t, clear) \/ Continue(t, put)
  BY DEF PersistSnapshot
<1>5. {"clearSnapshot", "putSnapshot"} \subseteq FreeSteps
  BY DEF FreeSteps, Steps, IdbSteps, Writes, Holding, Naming, Loading
<1>6. back \in TaskRec /\ Sound(back)
  BY <1>1, MoveSound
<1>7. clear \in TaskRec /\ clear.pc = "clearSnapshot"
  BY <1>3, <1>5 DEF TaskRec, FreeSteps
<1>8. put \in TaskRec /\ put.pc = "putSnapshot"
  BY <1>3, <1>5 DEF TaskRec, FreeSteps
<1> HIDE DEF back, clear, put
<1>9. Sound(clear) /\ Sound(put)
  BY <1>5, <1>7, <1>8, FreeSound
<1> QED BY <1>2, <1>4, <1>6, <1>7, <1>8, <1>9

LEMMA PutSnapshotInv ==
  ASSUME IInv, NEW t \in Tasks, PutSnapshot(t) PROVE IInv'
<1>1. At(t, "putSnapshot") /\ Goto(t, "saveReadIndex") /\ index' = index
  BY DEF PutSnapshot
<1>2. task[t].file \in Record
  BY <1>1, AtFacts DEF TaskRec
<1>3. Stored'
  BY <1>2 DEF PutSnapshot, IInv, Stored, hist
<1>4. OnTab' /\ Flags'
  BY DEF PutSnapshot, IInv, OnTab, Flags, tab
<1> QED BY <1>1, <1>3, <1>4, GotoInv, FreePoints DEF BootSteps, Loading

LEMMA SaveReadIndexInv ==
  ASSUME IInv, NEW t \in Tasks, SaveReadIndex(t) PROVE IInv'
<1> DEFINE r == [task[t] EXCEPT !.pc = "saveWriteIndex", !.idx = index]
<1>1. At(t, "saveReadIndex") /\ Continue(t, r) /\ UNCHANGED <<idb, tab, hist>>
  BY DEF SaveReadIndex
<1>2. task[t] \in TaskRec /\ (task[t].pc \in IdbSteps => queue # <<>>)
        /\ Listed(index)
  BY <1>1, AtFacts DEF BootSteps, Loading
<1>3. r \in TaskRec /\ r.pc = "saveWriteIndex" /\ r.idx = index
  BY <1>2 DEF TaskRec, IInv, Stored, Steps, IdbSteps, Writes
<1> HIDE DEF r
<1>4. Sound(r)
  BY <1>2, <1>3 DEF Sound, Naming, Loading
<1> QED BY <1>1, <1>2, <1>3, <1>4, TaskStepInv

LEMMA SaveWriteIndexInv ==
  ASSUME IInv, NEW t \in Tasks, SaveWriteIndex(t) PROVE IInv'
<1> DEFINE r == [task[t] EXCEPT !.pc = "putResults", !.sid = active,
                                !.idx = EmptyIndex, !.rows = live]
           q == [task[t] EXCEPT !.pc = task[t].after]
<1>1. At(t, "saveWriteIndex") /\ (Continue(t, r) \/ Continue(t, q))
  BY DEF SaveWriteIndex, Goto
<1>2. /\ task[t] \in TaskRec /\ (task[t].pc \in IdbSteps => queue # <<>>)
      /\ Listed(task[t].idx) /\ task[t].idx \in Index
  BY <1>1, AtFacts DEF Sound, Holding, TaskRec
<1>3. q \in TaskRec /\ Sound(q)
  BY <1>2, AfterFree, MoveSound
<1>4. EmptyIndex \in Index /\ active \in SessionIds \cup {None} /\ live \in Record
        /\ "putResults" \in FreeSteps
  BY DEF EmptyIndex, Index, IInv, OnTab, FreeSteps, Steps, IdbSteps, Writes,
         Holding, Naming, Loading
<1>5. r \in TaskRec /\ r.pc = "putResults"
  BY <1>2, <1>4 DEF TaskRec, FreeSteps
<1>6. index' = task[t].idx
  BY DEF SaveWriteIndex
<1>7. Stored'
  BY <1>2, <1>6 DEF SaveWriteIndex, IInv, Stored, hist
<1>8. OnTab'
  BY DEF SaveWriteIndex, IInv, OnTab
<1>9. Flags'
  BY Zenon DEF SaveWriteIndex, IInv, Flags
<1> HIDE DEF r, q
<1>10. Sound(r)
  BY <1>4, <1>5, FreeSound
<1> QED BY <1>1, <1>2, <1>3, <1>5, <1>6, <1>7, <1>8, <1>9, <1>10, StepInv

LEMMA PutResultsInv ==
  ASSUME IInv, NEW t \in Tasks, PutResults(t) PROVE IInv'
<1>1. At(t, "putResults") /\ Goto(t, task[t].after) /\ index' = index
  BY DEF PutResults
<1>2. task[t].rows \in Record /\ task[t].after \in FreeSteps
  BY <1>1, AtFacts, AfterFree DEF TaskRec
<1>3. Stored'
  BY <1>2 DEF PutResults, IInv, Stored, hist
<1>4. OnTab'
  BY DEF PutResults, IInv, OnTab
<1>5. Flags'
  BY Zenon DEF PutResults, IInv, Flags
<1> QED BY <1>1, <1>2, <1>3, <1>4, <1>5, GotoInv DEF BootSteps, Loading

LEMMA ClearSnapshotInv ==
  ASSUME IInv, NEW t \in Tasks, ClearSnapshot(t) PROVE IInv'
<1> DEFINE r == [task[t] EXCEPT !.pc = "clearResults", !.sid = active]
<1>1. /\ At(t, "clearSnapshot") /\ index' = index
      /\ Continue(t, r) \/ Goto(t, task[t].after)
  BY DEF ClearSnapshot
<1>2. /\ task[t] \in TaskRec /\ (task[t].pc \in IdbSteps => queue # <<>>)
      /\ Listed(index) /\ task[t].after \in FreeSteps
  BY <1>1, AtFacts, AfterFree DEF BootSteps, Loading
<1>3. None \in Record /\ active \in SessionIds \cup {None}
  BY DEF Record, IInv, OnTab
<1>4. Stored'
  BY <1>3 DEF ClearSnapshot, IInv, Stored, hist
<1>5. OnTab' /\ Flags'
  BY DEF ClearSnapshot, IInv, OnTab, Flags, tab
<1>6. CASE Goto(t, task[t].after)
  BY <1>1, <1>2, <1>4, <1>5, <1>6, GotoInv DEF BootSteps, Loading
<1>7. CASE Continue(t, r)
  <2>1. r \in TaskRec /\ r.pc \in FreeSteps
    BY <1>2, <1>3, FreePoints DEF TaskRec, FreeSteps
  <2> HIDE DEF r
  <2>2. Sound(r)
    BY <2>1, FreeSound
  <2> QED BY <1>1, <1>2, <1>4, <1>5, <1>7, <2>1, <2>2, StepInv
<1> QED BY <1>1, <1>6, <1>7

LEMMA ClearResultsInv ==
  ASSUME IInv, NEW t \in Tasks, ClearResults(t) PROVE IInv'
<1>1. At(t, "clearResults") /\ Goto(t, task[t].after) /\ index' = index
  BY DEF ClearResults
<1>2. task[t].after \in FreeSteps
  BY <1>1, AtFacts, AfterFree
<1>3. Stored'
  BY DEF ClearResults, IInv, Stored, hist, Record
<1>4. OnTab' /\ Flags'
  BY DEF ClearResults, IInv, OnTab, Flags, tab
<1> QED BY <1>1, <1>2, <1>3, <1>4, GotoInv DEF BootSteps, Loading

LEMMA PersistFailsInv ==
  ASSUME IInv, NEW t \in Tasks, PersistFails(t) PROVE IInv'
<1> DEFINE r == [task[t] EXCEPT !.pc = task[t].after, !.file = None]
<1>1. PICK pc \in {"putSnapshot", "saveWriteIndex", "putResults"} : At(t, pc)
  BY DEF PersistFails
<1>2. Continue(t, r) /\ index' = index
  BY DEF PersistFails, idb
<1>3. /\ task[t] \in TaskRec /\ (task[t].pc \in IdbSteps => queue # <<>>)
      /\ Listed(index) /\ task[t].after \in FreeSteps
  BY <1>1, AtFacts, AfterFree DEF BootSteps, Loading
<1>4. r \in TaskRec /\ r.pc \in FreeSteps
  BY <1>3, FreePoints DEF TaskRec, Record, FreeSteps
<1>5. Stored'
  BY DEF PersistFails, IInv, Stored, idb, hist
<1>6. OnTab'
  BY DEF PersistFails, IInv, OnTab
<1>7. Flags'
  BY Zenon DEF PersistFails, IInv, Flags, idb
<1> HIDE DEF r
<1>8. Sound(r)
  BY <1>4, FreeSound
<1> QED BY <1>2, <1>3, <1>4, <1>5, <1>6, <1>7, <1>8, StepInv

(* A call of persistSnapshot from a task that is idle. *)
LEMMA PersistCalled ==
  ASSUME IInv, Listed(index), NEW t \in Tasks, NEW caller \in TaskRec,
         task[t].pc = "idle", PersistSnapshot(t, caller),
         timer' \in BOOLEAN, UNCHANGED <<idb, active, live, applying, booted, hist>>
  PROVE  IInv'
<1>1. PICK r \in TaskRec : Sound(r) /\ Continue(t, r)
  BY PersistSound
<1>2. wasNonEmpty' \in BOOLEAN /\ warning' \in BOOLEAN
  BY PersistSound
<1>3. Listed(index')
  BY DEF idb
<1>4. task[t].pc \notin IdbSteps
  BY DEF IdbSteps, Reads, Writes
<1>5. Stored'
  BY DEF IInv, Stored, idb, hist
<1>6. OnTab'
  BY DEF IInv, OnTab
<1>7. Flags'
  BY <1>2, Zenon DEF IInv, Flags, idb
<1> QED BY <1>1, <1>3, <1>4, <1>5, <1>6, <1>7, StepInv

LEMMA TimerFiresInv ==
  ASSUME IInv, NEW t \in Tasks, TimerFires(t) PROVE IInv'
<1>1. Call("save", "idle") \in TaskRec
  BY CallType DEF TaskOps, Steps
<1> QED BY <1>1, Booted, PersistCalled DEF TimerFires

LEMMA PageHideInv ==
  ASSUME IInv, NEW t \in Tasks, PageHide(t) PROVE IInv'
<1>1. Call("save", "idle") \in TaskRec
  BY CallType DEF TaskOps, Steps
<1> QED BY <1>1, Booted, PersistCalled DEF PageHide

-----------------------------------------------------------------------------
(* The user's edits. *)

(* A step that leaves tasks and the index alone. *)
LEMMA NoTaskStep ==
  ASSUME IInv, UNCHANGED <<booted, active, task, queue>>,
         index' = index, Stored', OnTab', Flags'
  PROVE  IInv'
<1>1. Running'
  BY DEF IInv, Running, Sound, Listed
<1> QED BY <1>1 DEF IInv, IndexOK, Established

LEMMA EditInv == ASSUME IInv, Edit PROVE IInv'
<1>1. live' \in Record /\ rev' \in Nat
  <2>1. rev + 1 \in Nat /\ rev' = rev + 1 /\ Here \subseteq SessionIds
    BY DEF Edit, Here, IInv, Stored, OnTab
  <2>2. CASE live = None
    BY <2>1, <2>2 DEF Edit, Work, Record, Content
  <2>3. CASE live # None
    <3>1. live \in Content
      BY <2>3 DEF IInv, OnTab, Record
    <3> QED BY <2>1, <2>3, <3>1 DEF Edit, Record, Content
  <2> QED BY <2>1, <2>2, <2>3
<1>2. Stored'
  BY <1>1 DEF Edit, IInv, Stored, idb
<1>3. OnTab'
  BY <1>1 DEF Edit, IInv, OnTab
<1>4. timer' \in BOOLEAN
  BY ScheduleSaveType DEF Edit
<1>5. Flags'
  BY <1>4, Zenon DEF Edit, IInv, Flags, idb
<1> QED BY <1>2, <1>3, <1>5, NoTaskStep DEF Edit, idb

LEMMA RemoveAllInv == ASSUME IInv, RemoveAll PROVE IInv'
<1>1. Stored'
  BY DEF RemoveAll, IInv, Stored, idb
<1>2. OnTab'
  BY DEF RemoveAll, IInv, OnTab, Record
<1>3. timer' \in BOOLEAN
  BY ScheduleSaveType DEF RemoveAll
<1>4. Flags'
  BY <1>3, Zenon DEF RemoveAll, IInv, Flags, idb
<1> QED BY <1>1, <1>2, <1>4, NoTaskStep DEF RemoveAll, idb

-----------------------------------------------------------------------------
(* New session. *)

LEMMA NewSessionInv ==
  ASSUME IInv, NEW t \in Tasks, NewSession(t) PROVE IInv'
<1> DEFINE c == [Call("new", "idle") EXCEPT !.after = "drop"]
<1>1. c \in TaskRec
  BY CallType DEF TaskOps, Steps, TaskRec
<1>2. PersistSnapshot(t, c)
  BY DEF NewSession
<1> HIDE DEF c
<1>3. timer' \in BOOLEAN
  BY DEF NewSession, IInv, Flags
<1> QED BY <1>1, <1>2, <1>3, MenuDrawn, PersistCalled DEF NewSession

LEMMA WithoutStoresType ==
  ASSUME NEW c \in Record PROVE WithoutStores(c) \in Record
BY DEF WithoutStores, Record, Content

LEMMA NewDroppedInv ==
  ASSUME IInv, NEW t \in Tasks, NewDropped(t) PROVE IInv'
<1>1. At(t, "drop") /\ Goto(t, "createRead") /\ index' = index
  BY DEF NewDropped, idb
<1>2. Stored'
  BY DEF NewDropped, IInv, Stored, idb, hist
<1>3. OnTab'
  BY WithoutStoresType DEF NewDropped, IInv, OnTab
<1>4. Flags'
  BY Zenon DEF NewDropped, IInv, Flags, idb
<1> QED BY <1>1, <1>2, <1>3, <1>4, GotoInv, FreePoints DEF BootSteps, Loading

LEMMA CreateReadInv ==
  ASSUME IInv, NEW t \in Tasks, CreateRead(t) PROVE IInv'
<1>1. PICK id \in SessionIds \ issued :
         /\ issued' = issued \cup {id}
         /\ Continue(t, [task[t] EXCEPT !.pc = "createWrite", !.id = id,
                                        !.idx = index])
  BY DEF CreateRead
<1>2. At(t, "createRead") /\ UNCHANGED <<idb, tab, rev, unloads, deleted, cleared, unrestored>>
  BY DEF CreateRead
<1> DEFINE r == [task[t] EXCEPT !.pc = "createWrite", !.id = id, !.idx = index]
<1>3. task[t] \in TaskRec /\ (task[t].pc \in IdbSteps => queue # <<>>)
        /\ Listed(index)
  BY <1>2, AtFacts DEF BootSteps, Loading
<1>4. r \in TaskRec /\ r.pc = "createWrite" /\ r.id = id
  BY <1>3 DEF TaskRec, IInv, Stored, Steps, IdbSteps, Writes
<1>5. Continue(t, r)
  BY <1>1
<1> HIDE DEF r
<1>6. Sound(r)
  BY <1>4 DEF Sound, Holding, Loading
<1>7. Stored'
  BY <1>1, <1>2 DEF IInv, Stored, idb
<1>8. OnTab' /\ Flags' /\ index' = index
  BY <1>2 DEF IInv, OnTab, Flags, tab, idb
<1> QED BY <1>3, <1>4, <1>5, <1>6, <1>7, <1>8, StepInv

LEMMA CreateWriteInv ==
  ASSUME IInv, NEW t \in Tasks, CreateWrite(t) PROVE IInv'
<1>1. At(t, "createWrite") /\ Return(t)
  BY DEF CreateWrite
<1>2. /\ (task[t].pc \in IdbSteps => queue # <<>>)
      /\ task[t].id \in SessionIds /\ task[t].idx \in Index
  BY <1>1, AtFacts DEF Sound, Naming, TaskRec
<1>3. /\ index' = [active |-> task[t].id,
                   sessions |-> task[t].idx.sessions \cup {task[t].id}]
      /\ active' = task[t].id
  BY DEF CreateWrite
<1>4. index' \in Index /\ Listed(index')
  BY <1>2, <1>3 DEF Index, Listed
<1>5. Stored'
  BY <1>4 DEF CreateWrite, IInv, Stored, hist
<1>6. OnTab'
  BY <1>2 DEF CreateWrite, IInv, OnTab, Record
<1>7. timer' \in BOOLEAN
  BY ScheduleSaveType DEF CreateWrite
<1>8. Flags'
  BY <1>7, Zenon DEF CreateWrite, IInv, Flags
<1> QED BY <1>1, <1>2, <1>4, <1>5, <1>6, <1>8, ReturnInv

-----------------------------------------------------------------------------
(* Switch session. *)

LEMMA SwitchSessionInv ==
  ASSUME IInv, NEW t \in Tasks, SwitchSession(t) PROVE IInv'
<1>1. PICK id \in issued \ {active} :
         PersistSnapshot(t, [Call("switch", "idle")
                               EXCEPT !.after = "setActiveRead", !.id = id,
                                      !.file = live])
  BY DEF SwitchSession
<1> DEFINE c == [Call("switch", "idle") EXCEPT !.after = "setActiveRead",
                                               !.id = id, !.file = live]
<1>2. id \in SessionIds /\ live \in Record
  BY DEF IInv, Stored, OnTab
<1>3. c \in TaskRec
  <2>1. Call("switch", "idle") \in TaskRec
    BY CallType DEF TaskOps, Steps
  <2> QED BY <1>2, <2>1 DEF TaskRec
<1>4. PersistSnapshot(t, c)
  BY <1>1
<1> HIDE DEF c
<1>5. timer' \in BOOLEAN
  BY DEF SwitchSession, IInv, Flags
<1> QED BY <1>3, <1>4, <1>5, MenuDrawn, PersistCalled DEF SwitchSession

LEMMA SetActiveReadInv ==
  ASSUME IInv, NEW t \in Tasks, SetActiveRead(t) PROVE IInv'
<1> DEFINE r == [task[t] EXCEPT !.pc = "setActiveWrite", !.idx = index]
<1>1. /\ At(t, "setActiveRead") /\ UNCHANGED <<idb, tab, hist>>
      /\ \/ Return(t)
         \/ task[t].id \in index.sessions /\ Continue(t, r)
  BY DEF SetActiveRead
<1>2. task[t] \in TaskRec /\ (task[t].pc \in IdbSteps => queue # <<>>)
        /\ Listed(index)
  BY <1>1, AtFacts DEF BootSteps, Loading
<1>3. CASE Return(t)
  BY <1>1, <1>2, <1>3, IdleTaskSound, TaskStepInv DEF Return
<1>4. CASE task[t].id \in index.sessions /\ Continue(t, r)
  <2>1. /\ r \in TaskRec /\ r.pc = "setActiveWrite"
        /\ r.id \in index.sessions /\ r.idx = index
    BY <1>2, <1>4 DEF TaskRec, IInv, Stored, Steps, IdbSteps, Writes
  <2>2. index.sessions \subseteq SessionIds
    BY DEF IInv, Stored, Index
  <2> HIDE DEF r
  <2>3. Sound(r)
    BY <1>2, <2>1, <2>2 DEF Sound, Loading
  <2> QED BY <1>1, <1>2, <1>4, <2>1, <2>3, TaskStepInv
<1> QED BY <1>1, <1>3, <1>4

LEMMA SetActiveWriteInv ==
  ASSUME IInv, NEW t \in Tasks, SetActiveWrite(t) PROVE IInv'
<1> DEFINE r == [task[t] EXCEPT !.pc = "switchRead"]
<1>1. At(t, "setActiveWrite") /\ Continue(t, r)
  BY DEF SetActiveWrite, Goto
<1>2. /\ task[t] \in TaskRec /\ (task[t].pc \in IdbSteps => queue # <<>>)
      /\ Listed(task[t].idx) /\ task[t].id \in task[t].idx.sessions
      /\ task[t].idx \in Index
  BY <1>1, AtFacts DEF Sound, Holding, TaskRec
<1>3. r \in TaskRec /\ Sound(r)
  BY <1>2, MoveSound, FreePoints
<1>4. index' = [task[t].idx EXCEPT !.active = task[t].id]
  BY DEF SetActiveWrite
<1>5. index' \in Index /\ Listed(index')
  BY <1>2, <1>4 DEF Index, Listed
<1>6. Stored'
  BY <1>5 DEF SetActiveWrite, IInv, Stored, hist
<1>7. OnTab' /\ Flags'
  BY DEF SetActiveWrite, IInv, OnTab, Flags, tab
<1> HIDE DEF r
<1> QED BY <1>1, <1>2, <1>3, <1>5, <1>6, <1>7, StepInv

LEMMA SwitchReadInv ==
  ASSUME IInv, NEW t \in Tasks, SwitchRead(t) PROVE IInv'
<1>1. At(t, "switchRead") /\ Goto(t, "drop") /\ index' = index
  BY DEF SwitchRead, idb
<1>2. task[t] \in TaskRec
  BY <1>1, AtFacts
<1>3. active' \in SessionIds \cup {None}
  BY <1>2 DEF SwitchRead, TaskRec
<1>4. Stored'
  BY DEF SwitchRead, IInv, Stored, idb, hist
<1>5. OnTab'
  BY <1>3 DEF SwitchRead, IInv, OnTab
<1>6. Flags'
  BY Zenon DEF SwitchRead, IInv, Flags, idb
<1> QED BY <1>1, <1>4, <1>5, <1>6, GotoInv, FreePoints DEF BootSteps, Loading

(* A restore goes on as a sound task. *)
LEMMA RestoreSound ==
  ASSUME NEW t \in Tasks, task[t] \in TaskRec, Restore(t)
  PROVE  \E r \in TaskRec : Sound(r) /\ Continue(t, r)
<1> DEFINE r == Call(task[t].op, "loadSettings")
<1>1. task[t].op \in TaskOps /\ "loadSettings" \in FreeSteps
  BY FreePoints DEF TaskRec
<1>2. r \in TaskRec /\ r.pc \in FreeSteps
  BY <1>1, CallType DEF FreeSteps
<1>3. Continue(t, r)
  BY DEF Restore
<1> HIDE DEF r
<1> QED BY <1>2, <1>3, FreeSound

LEMMA SwitchDroppedInv ==
  ASSUME IInv, NEW t \in Tasks, SwitchDropped(t) PROVE IInv'
<1>1. At(t, "drop") /\ Restore(t) /\ index' = index
  BY DEF SwitchDropped, idb
<1>2. task[t] \in TaskRec /\ (task[t].pc \in IdbSteps => queue # <<>>)
        /\ Listed(index)
  BY <1>1, AtFacts DEF BootSteps, Loading
<1>3. PICK r \in TaskRec : Sound(r) /\ Continue(t, r)
  BY <1>1, <1>2, RestoreSound
<1>4. Stored'
  BY DEF SwitchDropped, IInv, Stored, idb, hist
<1>5. OnTab'
  BY DEF SwitchDropped, IInv, OnTab, Record
<1>6. timer' \in BOOLEAN
  BY ScheduleSaveType DEF SwitchDropped
<1>7. Flags'
  BY <1>6, Zenon DEF SwitchDropped, IInv, Flags, idb
<1> QED BY <1>1, <1>2, <1>3, <1>4, <1>5, <1>7, StepInv

-----------------------------------------------------------------------------
(* Rename and delete. *)

(* A click starts a task at a point that holds nothing but an id. *)
LEMMA ClickInv ==
  ASSUME IInv, Listed(index), NEW t \in Tasks, task[t].pc = "idle",
         NEW r \in TaskRec, Sound(r), Continue(t, r),
         UNCHANGED <<idb, tab, hist>>
  PROVE  IInv'
<1>1. task[t].pc \notin IdbSteps
  BY DEF IdbSteps, Reads, Writes
<1> QED BY <1>1, TaskStepInv

LEMMA RenameSessionInv ==
  ASSUME IInv, NEW t \in Tasks, RenameSession(t) PROVE IInv'
<1> DEFINE r == Call("rename", "renameRead")
<1>1. r \in TaskRec /\ r.pc \in FreeSteps
  BY CallType, FreePoints DEF FreeSteps, TaskOps
<1>2. Continue(t, r)
  BY DEF RenameSession
<1> HIDE DEF r
<1> QED BY <1>1, <1>2, FreeSound, MenuDrawn, ClickInv DEF RenameSession

LEMMA RenameReadInv ==
  ASSUME IInv, NEW t \in Tasks, RenameRead(t) PROVE IInv'
<1> DEFINE r == [task[t] EXCEPT !.pc = "renameWrite", !.idx = index]
<1>1. At(t, "renameRead") /\ Continue(t, r) /\ UNCHANGED <<idb, tab, hist>>
  BY DEF RenameRead
<1>2. task[t] \in TaskRec /\ (task[t].pc \in IdbSteps => queue # <<>>)
        /\ Listed(index)
  BY <1>1, AtFacts DEF BootSteps, Loading
<1>3. r \in TaskRec /\ r.pc = "renameWrite" /\ r.idx = index
  BY <1>2 DEF TaskRec, IInv, Stored, Steps, IdbSteps, Writes
<1> HIDE DEF r
<1>4. Sound(r)
  BY <1>2, <1>3 DEF Sound, Naming, Loading
<1> QED BY <1>1, <1>2, <1>3, <1>4, TaskStepInv

LEMMA RenameWriteInv ==
  ASSUME IInv, NEW t \in Tasks, RenameWrite(t) PROVE IInv'
<1>1. At(t, "renameWrite") /\ Return(t) /\ index' = task[t].idx
  BY DEF RenameWrite
<1>2. /\ (task[t].pc \in IdbSteps => queue # <<>>)
      /\ Listed(task[t].idx) /\ task[t].idx \in Index
  BY <1>1, AtFacts DEF Sound, Holding, TaskRec
<1>3. Stored'
  BY <1>1, <1>2 DEF RenameWrite, IInv, Stored, hist
<1>4. OnTab' /\ Flags'
  BY DEF RenameWrite, IInv, OnTab, Flags, tab
<1> QED BY <1>1, <1>2, <1>3, <1>4, ReturnInv

LEMMA DeleteSessionInv ==
  ASSUME IInv, NEW t \in Tasks, DeleteSession(t) PROVE IInv'
<1>1. PICK id \in issued :
         Continue(t, [Call("delete", "deleteCheck") EXCEPT !.id = id])
  BY DEF DeleteSession
<1> DEFINE r == [Call("delete", "deleteCheck") EXCEPT !.id = id]
<1>2. id \in SessionIds
  BY DEF IInv, Stored
<1>3. Call("delete", "deleteCheck") \in TaskRec
        /\ Call("delete", "deleteCheck").pc = "deleteCheck"
  BY CallType DEF TaskOps, Steps, IdbSteps, Reads
<1>4. r \in TaskRec /\ r.pc = "deleteCheck" /\ r.id = id
  BY <1>2, <1>3 DEF TaskRec
<1>5. Continue(t, r)
  BY <1>1
<1> HIDE DEF r
<1>6. Sound(r)
  BY <1>2, <1>4 DEF Sound, Holding, Loading
<1> QED BY <1>4, <1>5, <1>6, MenuDrawn, ClickInv DEF DeleteSession

LEMMA DeleteCheckInv ==
  ASSUME IInv, NEW t \in Tasks, DeleteCheck(t) PROVE IInv'
<1> DEFINE r == [task[t] EXCEPT !.pc = "deleteRead",
                                !.was = (active = task[t].id)]
<1>1. /\ At(t, "deleteCheck") /\ UNCHANGED <<idb, tab, hist>>
      /\ Return(t) \/ Continue(t, r)
  BY DEF DeleteCheck
<1>2. /\ task[t] \in TaskRec /\ (task[t].pc \in IdbSteps => queue # <<>>)
      /\ Listed(index) /\ task[t].id \in SessionIds
  BY <1>1, AtFacts DEF Sound, Naming, BootSteps, Loading
<1>3. CASE Return(t)
  BY <1>1, <1>2, <1>3, IdleTaskSound, TaskStepInv DEF Return
<1>4. CASE Continue(t, r)
  <2>1. r \in TaskRec /\ r.pc = "deleteRead" /\ r.id = task[t].id
    BY <1>2 DEF TaskRec, Steps, IdbSteps, Reads
  <2> HIDE DEF r
  <2>2. Sound(r)
    BY <1>2, <2>1 DEF Sound, Holding, Loading
  <2> QED BY <1>1, <1>2, <1>4, <2>1, <2>2, TaskStepInv
<1> QED BY <1>1, <1>3, <1>4

LEMMA DeleteReadInv ==
  ASSUME IInv, NEW t \in Tasks, DeleteRead(t) PROVE IInv'
<1> DEFINE r == [task[t] EXCEPT !.pc = "deleteArtifacts", !.idx = index]
<1>1. /\ At(t, "deleteRead") /\ UNCHANGED <<idb, tab, hist>>
      /\ Return(t) \/ Continue(t, r)
  BY DEF DeleteRead
<1>2. /\ task[t] \in TaskRec /\ (task[t].pc \in IdbSteps => queue # <<>>)
      /\ Listed(index) /\ task[t].id \in SessionIds
  BY <1>1, AtFacts DEF Sound, Naming, BootSteps, Loading
<1>3. CASE Return(t)
  BY <1>1, <1>2, <1>3, IdleTaskSound, TaskStepInv DEF Return
<1>4. CASE Continue(t, r)
  <2>1. /\ r \in TaskRec /\ r.pc = "deleteArtifacts" /\ r.idx = index
        /\ r.id = task[t].id
    BY <1>2 DEF TaskRec, IInv, Stored, Steps, IdbSteps, Writes
  <2> HIDE DEF r
  <2>2. Sound(r)
    BY <1>2, <2>1 DEF Sound, Loading
  <2> QED BY <1>1, <1>2, <1>4, <2>1, <2>2, TaskStepInv
<1> QED BY <1>1, <1>3, <1>4

(* Whatever could be removed: the records keep their types. *)
LEMMA ArtifactsType ==
  ASSUME IInv, NEW t \in Tasks, NEW id, NEW next,
         ClearSessionArtifacts(t, id, next)
  PROVE  /\ snapshot' \in [SessionIds -> Record]
         /\ results' \in [SessionIds -> Record]
         /\ Goto(t, next) \/ Return(t)
<1>1. None \in Record
  BY DEF Record
<1> QED BY <1>1 DEF ClearSessionArtifacts, IInv, Stored

LEMMA DeleteArtifactsInv ==
  ASSUME IInv, NEW t \in Tasks, DeleteArtifacts(t) PROVE IInv'
<1> DEFINE r == [task[t] EXCEPT !.pc = "deleteWrite"]
<1>1. /\ At(t, "deleteArtifacts") /\ UNCHANGED <<index, legacy, tab, hist>>
      /\ ClearSessionArtifacts(t, task[t].id, "deleteWrite")
  BY DEF DeleteArtifacts
<1>2. /\ task[t] \in TaskRec /\ (task[t].pc \in IdbSteps => queue # <<>>)
      /\ Listed(index) /\ task[t].id \in SessionIds /\ Listed(task[t].idx)
  BY <1>1, AtFacts DEF Sound, Naming, Holding, BootSteps, Loading
<1>3. Stored'
  BY <1>1, ArtifactsType DEF IInv, Stored, hist
<1>4. OnTab' /\ Flags'
  BY <1>1 DEF IInv, OnTab, Flags, tab
<1>5. Return(t) \/ Continue(t, r)
  BY <1>1, ArtifactsType DEF Goto
<1>6. CASE Return(t)
  BY <1>1, <1>2, <1>3, <1>4, <1>6, ReturnInv
<1>7. CASE Continue(t, r)
  <2>1. /\ r \in TaskRec /\ r.pc = "deleteWrite" /\ r.idx = task[t].idx
        /\ r.id = task[t].id
    BY <1>2 DEF TaskRec, Steps, IdbSteps, Writes
  <2> HIDE DEF r
  <2>2. Sound(r)
    BY <1>2, <2>1 DEF Sound, Loading
  <2> QED BY <1>1, <1>2, <1>3, <1>4, <1>7, <2>1, <2>2, StepInv
<1> QED BY <1>5, <1>6, <1>7

LEMMA DeleteWriteInv ==
  ASSUME IInv, NEW t \in Tasks, DeleteWrite(t) PROVE IInv'
<1> DEFINE id == task[t].id
           remaining == task[t].idx.sessions \ {id}
<1>1. /\ At(t, "deleteWrite") /\ deleted' = deleted \cup {id}
      /\ Goto(t, "deleteNext") \/ Return(t)
  BY DEF DeleteWrite
<1>2. /\ task[t] \in TaskRec /\ (task[t].pc \in IdbSteps => queue # <<>>)
      /\ id \in SessionIds /\ Listed(task[t].idx) /\ task[t].idx \in Index
  BY <1>1, AtFacts DEF Sound, Naming, Holding, TaskRec
<1>3. PICK head \in remaining :
         index' = [active   |-> IF task[t].idx.active = id
                                THEN head ELSE task[t].idx.active,
                   sessions |-> remaining]
  BY DEF DeleteWrite
<1>4. index' \in Index /\ Listed(index')
  BY <1>2, <1>3 DEF Index, Listed
<1>5. Stored'
  BY <1>1, <1>2, <1>4 DEF DeleteWrite, IInv, Stored
<1>6. OnTab' /\ Flags'
  BY DEF DeleteWrite, IInv, OnTab, Flags, tab
<1>7. CASE Return(t)
  BY <1>2, <1>4, <1>5, <1>6, <1>7, ReturnInv
<1>8. CASE Goto(t, "deleteNext")
  <2> DEFINE r == [task[t] EXCEPT !.pc = "deleteNext"]
  <2>1. r \in TaskRec /\ Sound(r)
    BY <1>2, MoveSound, FreePoints
  <2>2. Continue(t, r)
    BY <1>8 DEF Goto
  <2> HIDE DEF r
  <2> QED BY <1>2, <1>4, <1>5, <1>6, <2>1, <2>2, StepInv
<1> QED BY <1>1, <1>7, <1>8

LEMMA DeleteNextInv ==
  ASSUME IInv, NEW t \in Tasks, DeleteNext(t) PROVE IInv'
<1> DEFINE r == [task[t] EXCEPT !.pc = "drop", !.sid = index.active]
<1>1. /\ At(t, "deleteNext") /\ UNCHANGED <<idb, tab, hist>>
      /\ Return(t) \/ Continue(t, r)
  BY DEF DeleteNext
<1>2. task[t] \in TaskRec /\ (task[t].pc \in IdbSteps => queue # <<>>)
        /\ Listed(index)
  BY <1>1, AtFacts DEF BootSteps, Loading
<1>3. CASE Return(t)
  BY <1>1, <1>2, <1>3, IdleTaskSound, TaskStepInv DEF Return
<1>4. CASE Continue(t, r)
  <2>1. r \in TaskRec /\ r.pc \in FreeSteps
    BY <1>2, FreePoints DEF TaskRec, FreeSteps, IInv, Stored, Index
  <2> HIDE DEF r
  <2> QED BY <1>1, <1>2, <1>4, <2>1, FreeSound, TaskStepInv
<1> QED BY <1>1, <1>3, <1>4

LEMMA DeleteDroppedInv ==
  ASSUME IInv, NEW t \in Tasks, DeleteDropped(t) PROVE IInv'
<1>1. At(t, "drop") /\ Restore(t) /\ index' = index
  BY DEF DeleteDropped, idb
<1>2. /\ task[t] \in TaskRec /\ (task[t].pc \in IdbSteps => queue # <<>>)
      /\ Listed(index) /\ task[t].sid \in SessionIds \cup {None}
  BY <1>1, AtFacts DEF BootSteps, Loading, TaskRec
<1>3. PICK r \in TaskRec : Sound(r) /\ Continue(t, r)
  BY <1>1, <1>2, RestoreSound
<1>4. Stored'
  BY DEF DeleteDropped, IInv, Stored, idb, hist
<1>5. OnTab'
  BY <1>2 DEF DeleteDropped, IInv, OnTab, Record
<1>6. timer' \in BOOLEAN
  BY ScheduleSaveType DEF DeleteDropped
<1>7. Flags'
  BY <1>6, Zenon DEF DeleteDropped, IInv, Flags, idb
<1> QED BY <1>1, <1>2, <1>3, <1>4, <1>5, <1>7, StepInv

-----------------------------------------------------------------------------
(* Start fresh, restore, open. *)

LEMMA StartFreshInv ==
  ASSUME IInv, NEW t \in Tasks, StartFresh(t) PROVE IInv'
<1> DEFINE r == [Call("fresh", "freshRead") EXCEPT !.id = active]
<1>1. /\ Call("fresh", "freshRead") \in TaskRec
      /\ Call("fresh", "freshRead").pc = "freshRead"
      /\ "freshRead" \in FreeSteps
  BY CallType, FreePoints DEF TaskOps, FreeSteps
<1>2. r \in TaskRec /\ r.pc \in FreeSteps
  BY <1>1 DEF TaskRec, IInv, OnTab
<1>3. Continue(t, r)
  BY DEF StartFresh
<1> HIDE DEF r
<1> QED BY <1>2, <1>3, FreeSound, MenuDrawn, ClickInv DEF StartFresh

LEMMA FreshReadInv ==
  ASSUME IInv, NEW t \in Tasks, FreshRead(t) PROVE IInv'
<1>1. /\ At(t, "freshRead") /\ Goto(t, "freshArtifacts")
      /\ UNCHANGED <<idb, tab, hist>>
  BY DEF FreshRead
<1>2. Stored' /\ index' = index
  BY <1>1 DEF IInv, Stored, idb, hist
<1>3. OnTab' /\ Flags'
  BY <1>1 DEF IInv, OnTab, Flags, idb, tab
<1> QED BY <1>1, <1>2, <1>3, GotoInv, FreePoints DEF BootSteps, Loading

LEMMA FreshArtifactsInv ==
  ASSUME IInv, NEW t \in Tasks, FreshArtifacts(t) PROVE IInv'
<1>1. /\ At(t, "freshArtifacts") /\ UNCHANGED <<index, legacy, tab, hist>>
      /\ ClearSessionArtifacts(t, task[t].id, "reload")
  BY DEF FreshArtifacts
<1>2. Stored'
  BY <1>1, ArtifactsType DEF IInv, Stored, hist
<1>3. OnTab' /\ Flags'
  BY <1>1 DEF IInv, OnTab, Flags, tab
<1>4. (task[t].pc \in IdbSteps => queue # <<>>) /\ Listed(index)
  BY <1>1, AtFacts DEF BootSteps, Loading
<1>5. CASE Goto(t, "reload")
  BY <1>1, <1>2, <1>3, <1>5, GotoInv, FreePoints DEF BootSteps, Loading
<1>6. CASE Return(t)
  BY <1>1, <1>2, <1>3, <1>4, <1>6, ReturnInv
<1> QED BY <1>1, <1>5, <1>6, ArtifactsType

LEMMA LoadSettingsInv ==
  ASSUME IInv, NEW t \in Tasks, LoadSettings(t) PROVE IInv'
<1> DEFINE r == [Call(task[t].op, "readSnapshot") EXCEPT !.sid = active]
<1>1. /\ At(t, "loadSettings") /\ index' = index
      /\ Return(t) \/ (active # None /\ Continue(t, r))
  BY DEF LoadSettings, idb
<1>2. /\ task[t] \in TaskRec /\ (task[t].pc \in IdbSteps => queue # <<>>)
      /\ Listed(index) /\ task[t].op \in TaskOps
  BY <1>1, AtFacts DEF BootSteps, Loading, TaskRec
<1>3. Stored'
  BY DEF LoadSettings, IInv, Stored, idb, hist
<1>4. OnTab' /\ active \in SessionIds \cup {None}
  BY DEF LoadSettings, IInv, OnTab
<1>5. booted' \in BOOLEAN
  <2>1. booted \in BOOLEAN
    BY DEF IInv, Flags
  <2> QED BY <2>1, Zenon DEF LoadSettings
<1>6. Flags'
  BY <1>5, Zenon DEF LoadSettings, IInv, Flags, idb
<1>7. CASE Return(t)
  BY <1>1, <1>2, <1>3, <1>4, <1>6, <1>7, ReturnInv
<1>8. CASE active # None /\ Continue(t, r)
  <2>1. "readSnapshot" \in Steps
    BY DEF Steps, IdbSteps, Reads
  <2>2. r \in TaskRec /\ r.pc = "readSnapshot" /\ r.sid = active
    BY <1>2, <1>4, <2>1, CallType DEF TaskRec
  <2> HIDE DEF r
  <2>3. Sound(r)
    BY <1>4, <1>8, <2>2 DEF Sound, Holding, Naming, Loading
  <2> QED BY <1>1, <1>2, <1>3, <1>4, <1>6, <1>8, <2>2, <2>3, StepInv
<1> QED BY <1>1, <1>7, <1>8

LEMMA ReadSnapshotInv ==
  ASSUME IInv, NEW t \in Tasks, ReadSnapshot(t) PROVE IInv'
<1> DEFINE found == snapshot[task[t].sid]
           r == [task[t] EXCEPT !.pc = "applyWait", !.file = found]
<1>1. /\ At(t, "readSnapshot") /\ index' = index
      /\ Return(t) \/ (found # None /\ Continue(t, r))
  BY DEF ReadSnapshot, idb
<1>2. /\ task[t] \in TaskRec /\ (task[t].pc \in IdbSteps => queue # <<>>)
      /\ Listed(index) /\ task[t].sid \in SessionIds
  BY <1>1, AtFacts DEF Sound, BootSteps, Loading
<1>3. found \in Record
  BY <1>2 DEF IInv, Stored
<1>4. Stored'
  BY DEF ReadSnapshot, IInv, Stored, idb, hist
<1>5. OnTab'
  BY DEF ReadSnapshot, IInv, OnTab
<1>6. booted' \in BOOLEAN
  <2>1. booted \in BOOLEAN
    BY DEF IInv, Flags
  <2> QED BY <2>1, Zenon DEF ReadSnapshot
<1>7. Flags'
  BY <1>6, Zenon DEF ReadSnapshot, IInv, Flags, idb
<1>8. CASE Return(t)
  BY <1>1, <1>2, <1>4, <1>5, <1>7, <1>8, ReturnInv
<1>9. CASE found # None /\ Continue(t, r)
  <2>1. r \in TaskRec /\ r.pc = "applyWait" /\ r.file = found
    BY <1>2, <1>3 DEF TaskRec, Steps, Loading
  <2>2. found \in Content
    BY <1>3, <1>9 DEF Record
  <2> HIDE DEF r, found
  <2>3. Sound(r)
    BY <2>1, <2>2 DEF Sound, Holding, Naming
  <2> QED BY <1>1, <1>2, <1>4, <1>5, <1>7, <1>9, <2>1, <2>3, StepInv
<1> QED BY <1>1, <1>8, <1>9

(* What Continue does to the tasks. *)
LEMMA Continues ==
  ASSUME IInv, NEW t \in Tasks, NEW r, Continue(t, r)
  PROVE  /\ task'[t] = IF r.pc = "idle" THEN IdleTask ELSE r
         /\ \A u \in Tasks : u # t => task'[u] = task[u]
BY DEF Continue, IInv, Running

LEMMA OpenFileInv ==
  ASSUME IInv, NEW t \in Tasks, OpenFile(t) PROVE IInv'
<1> DEFINE f == Work({}, rev + 1)
           r == [Call("open", "applyWait") EXCEPT !.file = f]
<1>1. /\ task[t].pc = "idle" /\ Continue(t, r) /\ rev' = rev + 1
      /\ UNCHANGED <<idb, tab, unloads, issued, deleted, cleared, unrestored>>
  BY DEF OpenFile, Clicks
<1>2. f \in Content /\ f \in Record /\ rev' \in Nat
  BY <1>1 DEF Content, Record, Work, IInv, Stored
<1> HIDE DEF f
<1>3. /\ Call("open", "applyWait") \in TaskRec /\ Call("open", "applyWait").pc = "applyWait"
      /\ Call("open", "applyWait").op = "open"
  BY CallType DEF TaskOps, Steps, Loading
<1>4. r \in TaskRec /\ r.pc = "applyWait" /\ r.file = f /\ r.op = "open"
  BY <1>2, <1>3 DEF TaskRec
<1> HIDE DEF r
<1>5. Sound(r)
  BY <1>2, <1>4 DEF Sound, Holding, Naming
<1>6. Stored'
  BY <1>1, <1>2 DEF IInv, Stored, idb
<1>7. OnTab' /\ Flags' /\ index' = index
  BY <1>1 DEF IInv, OnTab, Flags, idb, tab
<1>8. task[t].pc \notin IdbSteps
  BY <1>1 DEF IdbSteps, Reads, Writes
<1>9. CASE Listed(index)
  BY <1>1, <1>4, <1>5, <1>6, <1>7, <1>8, <1>9, StepInv
<1>10. CASE ~Listed(index)
  <2>1. /\ Running' /\ task'[t] = r
        /\ \A x \in Tasks : x # t => task'[x] = task[x]
    BY <1>1, <1>4, <1>5, <1>8, ContinueRunning, Continues DEF IInv
  <2>2. index.sessions = {}
    BY <1>10 DEF IInv, IndexOK, Listed
  <2>3. t \notin {x \in Tasks : task[x].pc \in BootSteps}
    BY <1>1 DEF BootSteps
  <2>4. Established'
    BY <1>1, <1>4, <2>1, <2>2, <2>3 DEF IInv, Established, Loading, tab
  <2> QED BY <1>6, <1>7, <2>1, <2>4 DEF IInv, IndexOK
<1> QED BY <1>9, <1>10

(* A step of applyLoadedFile.  Before the index lists a session it is of a *)
(* file that the user opens, and no session is active.                     *)
LEMMA LoadingStepInv ==
  ASSUME IInv, NEW t \in Tasks, task[t].pc \in Loading, NEW r \in TaskRec, Sound(r),
         Continue(t, r), r.pc \in Loading \cup {"idle"} \/ active # None,
         r.pc \in Loading => r.op = task[t].op,
         Stored', OnTab', Flags', index' = index, active' = active,
         booted' # booted => task[t].op # "open"
  PROVE  IInv'
<1>1. task[t].pc \notin IdbSteps \cup BootSteps \cup {"idle"}
  BY DEF IdbSteps, Reads, Writes, Loading, BootSteps
<1>2. CASE index.sessions # {}
  BY <1>1, <1>2, StepInv DEF IInv, IndexOK, Listed
<1>3. CASE index.sessions = {}
  <2>1. /\ Running' /\ task'[t].pc = r.pc
        /\ task'[t] = IF r.pc = "idle" THEN IdleTask ELSE r
        /\ \A x \in Tasks : x # t => task'[x] = task[x]
    BY <1>1, ContinueRunning, Continues DEF IInv
  <2>2. /\ active = None /\ ~booted /\ task[t].op = "open"
        /\ \E x \in Tasks \ {t} : task[x].pc \in BootSteps
    BY <1>1, <1>3 DEF IInv, Established
  <2>3. r.pc \in Loading \cup {"idle"} /\ ~booted'
    BY <2>2 DEF IInv, Flags
  <2>4. Established'
    BY <1>3, <2>1, <2>2, <2>3 DEF IInv, Established
  <2> QED BY <1>3, <2>1, <2>4 DEF IInv, IndexOK
<1> QED BY <1>2, <1>3

(* What comes back of a workspace, beside what is on screen.               *)
LEMMA JoinedType ==
  ASSUME live \in Record, NEW f \in Content, NEW c \in BroughtBack(f)
  PROVE  c \in Record /\ Joined(c) \subseteq Record
<1>1. c \in Record
  BY DEF BroughtBack, Part, Record, Content
<1>2. CASE live = None \/ c = None
  BY <1>1, <1>2 DEF Joined
<1>3. CASE live # None /\ c # None
  BY <1>1, <1>3 DEF Joined, Record, Content
<1> QED BY <1>1, <1>2, <1>3

(* A move between two points of applyLoadedFile keeps the file. *)
LEMMA LoadingSound ==
  ASSUME NEW r \in TaskRec, Sound(r), r.pc \in Loading, NEW pc \in Loading
  PROVE  [r EXCEPT !.pc = pc] \in TaskRec /\ Sound([r EXCEPT !.pc = pc])
<1> DEFINE q == [r EXCEPT !.pc = pc]
<1>1. r.file \in Content
  BY DEF Sound
<1>2. q \in TaskRec /\ q.pc = pc /\ q.file = r.file
  BY DEF TaskRec, Steps, Loading
<1> HIDE DEF q
<1>3. Sound(q)
  BY <1>1, <1>2 DEF Sound, Holding, Naming, Loading
<1> QED BY <1>2, <1>3 DEF q

LEMMA ApplyStartInv ==
  ASSUME IInv, NEW t \in Tasks, ApplyStart(t) PROVE IInv'
<1> DEFINE r == [task[t] EXCEPT !.pc = "applyDrop"]
<1>1. At(t, "applyWait") /\ Continue(t, r) /\ index' = index
  BY DEF ApplyStart, Goto, idb
<1>2. task[t] \in TaskRec /\ Sound(task[t]) /\ task[t].pc = "applyWait"
  BY <1>1, AtFacts
<1>3. r \in TaskRec /\ Sound(r) /\ r.pc \in Loading /\ r.op = task[t].op
  BY <1>2, LoadingSound DEF Loading, TaskRec
<1>4. Stored'
  BY DEF ApplyStart, IInv, Stored, idb, hist
<1>5. OnTab'
  BY DEF ApplyStart, IInv, OnTab
<1>6. Flags'
  BY Zenon DEF ApplyStart, IInv, Flags, idb
<1>7. task[t].pc \in Loading /\ UNCHANGED <<active, booted>>
  BY <1>2 DEF ApplyStart, Loading
<1> HIDE DEF r
<1> QED BY <1>1, <1>3, <1>4, <1>5, <1>6, <1>7, LoadingStepInv

LEMMA ApplyDroppedInv ==
  ASSUME IInv, NEW t \in Tasks, ApplyDropped(t) PROVE IInv'
<1> DEFINE r == [task[t] EXCEPT !.pc = "applyMount"]
<1>1. At(t, "applyDrop") /\ Continue(t, r) /\ index' = index
  BY DEF ApplyDropped, Goto, idb
<1>2. task[t] \in TaskRec /\ Sound(task[t]) /\ task[t].pc = "applyDrop"
  BY <1>1, AtFacts
<1>3. r \in TaskRec /\ Sound(r) /\ r.pc \in Loading /\ r.op = task[t].op
  BY <1>2, LoadingSound DEF Loading, TaskRec
<1>4. Stored'
  BY DEF ApplyDropped, IInv, Stored, idb, hist
<1>5. OnTab'
  BY DEF ApplyDropped, IInv, OnTab, Record
<1>6. Flags'
  BY Zenon DEF ApplyDropped, IInv, Flags, idb
<1>7. task[t].pc \in Loading /\ UNCHANGED <<active, booted>>
  BY <1>2 DEF ApplyDropped, Loading
<1> HIDE DEF r
<1> QED BY <1>1, <1>3, <1>4, <1>5, <1>6, <1>7, LoadingStepInv

LEMMA ApplyRestoredInv ==
  ASSUME IInv, NEW t \in Tasks, ApplyRestored(t) PROVE IInv'
<1> DEFINE r == [Call(task[t].op, "readResults") EXCEPT !.sid = active]
<1>1. /\ At(t, "applyMount") /\ index' = index /\ active' = active
      /\ Return(t) \/ (Continue(t, r) /\ active # None)
  BY DEF ApplyRestored, idb
<1>2. /\ task[t] \in TaskRec /\ task[t].pc \in Loading
      /\ task[t].file \in Content /\ task[t].op \in TaskOps
  BY <1>1, AtFacts DEF Sound, Loading, TaskRec
<1>3. Stored'
  BY DEF ApplyRestored, IInv, Stored, idb, hist
<1>4. PICK c \in BroughtBack(task[t].file) : live' \in Joined(c) /\ wasNonEmpty' = (c # None)
  BY DEF ApplyRestored
<1>5. OnTab' /\ wasNonEmpty' \in BOOLEAN
  BY <1>2, <1>4, JoinedType DEF ApplyRestored, IInv, OnTab
<1>6. booted' \in BOOLEAN
  <2>1. booted \in BOOLEAN
    BY DEF IInv, Flags
  <2> QED BY <2>1, Zenon DEF ApplyRestored
<1>7. Flags'
  BY <1>5, <1>6, Zenon DEF ApplyRestored, IInv, Flags, idb
<1>8. task[t].op # "open"
  BY DEF ApplyRestored
<1>9. CASE Return(t)
  <2>1. Continue(t, IdleTask) /\ IdleTask.pc = "idle" /\ "idle" \notin Loading
    BY <1>9 DEF Return, IdleTask, Loading
  <2> QED BY <1>1, <1>2, <1>3, <1>5, <1>7, <1>8, <2>1, IdleTaskSound, LoadingStepInv
<1>10. CASE Continue(t, r) /\ active # None
  <2>1. /\ Call(task[t].op, "readResults") \in TaskRec
        /\ Call(task[t].op, "readResults").pc = "readResults"
        /\ "readResults" \in FreeSteps
    BY <1>2, CallType, FreePoints DEF FreeSteps
  <2>2. r \in TaskRec /\ r.pc \in FreeSteps /\ r.pc \notin Loading
    BY <2>1 DEF TaskRec, IInv, OnTab, Loading
  <2> HIDE DEF r
  <2> QED BY <1>1, <1>2, <1>3, <1>5, <1>7, <1>8, <1>10, <2>2, FreeSound, LoadingStepInv
<1> QED BY <1>1, <1>9, <1>10

LEMMA ApplyOpenedInv ==
  ASSUME IInv, NEW t \in Tasks, ApplyOpened(t) PROVE IInv'
<1> DEFINE f == [task[t].file EXCEPT !.owners = Here]
           opened == live'
           r == [Call("open", "putSnapshot") EXCEPT !.sid = active,
                                                    !.file = opened]
<1>1. /\ At(t, "applyMount") /\ index' = index /\ UNCHANGED <<active, booted>>
      /\ Return(t) \/ (Continue(t, r) /\ active # None)
  BY DEF ApplyOpened, idb
<1>2. /\ task[t] \in TaskRec /\ task[t].pc \in Loading
      /\ task[t].file \in Content
  BY <1>1, AtFacts DEF Sound, Loading
<1>3. active \in SessionIds \cup {None} /\ live \in Record
  BY DEF IInv, OnTab
<1>4. f \in Content
  BY <1>2, <1>3 DEF Content, Here
<1>5. PICK c \in BroughtBack(f) : live' \in Joined(c)
  BY DEF ApplyOpened
<1>6. opened \in Record
  BY <1>3, <1>4, <1>5, JoinedType
<1> HIDE DEF f
<1>7. Stored'
  BY DEF ApplyOpened, IInv, Stored, idb, hist
<1>8. OnTab'
  BY <1>6 DEF ApplyOpened, IInv, OnTab
<1>9. wasNonEmpty' \in BOOLEAN /\ warning' \in BOOLEAN
  <2>1. warning \in BOOLEAN
    BY DEF IInv, Flags
  <2>2. wasNonEmpty' \in BOOLEAN
    BY DEF ApplyOpened
  <2>3. warning' \in BOOLEAN
    BY <2>1, Zenon DEF ApplyOpened
  <2> QED BY <2>2, <2>3
<1>10. Flags'
  BY <1>9, Zenon DEF ApplyOpened, IInv, Flags, idb
<1>11. CASE Return(t)
  <2>1. Continue(t, IdleTask) /\ IdleTask.pc = "idle" /\ "idle" \notin Loading
    BY <1>11 DEF Return, IdleTask, Loading
  <2> QED BY <1>1, <1>2, <1>7, <1>8, <1>10, <2>1, IdleTaskSound, LoadingStepInv
<1>12. CASE Continue(t, r) /\ active # None
  <2>1. /\ Call("open", "putSnapshot") \in TaskRec
        /\ Call("open", "putSnapshot").pc = "putSnapshot"
        /\ "putSnapshot" \in FreeSteps
    BY CallType, FreePoints DEF FreeSteps, TaskOps
  <2> HIDE DEF opened
  <2>2. r \in TaskRec /\ r.pc \in FreeSteps /\ r.pc \notin Loading
    BY <1>3, <1>6, <2>1 DEF TaskRec, Loading
  <2> HIDE DEF r
  <2> QED BY <1>1, <1>2, <1>7, <1>8, <1>10, <1>12, <2>2, FreeSound, LoadingStepInv
<1> QED BY <1>1, <1>11, <1>12

(* An import that fails.                                                   *)
LEMMA LoadFailsInv ==
  ASSUME IInv, NEW t \in Tasks, LoadFails(t) PROVE IInv'
<1>1. PICK pc \in Loading \cup {"drop"} : At(t, pc)
  BY DEF LoadFails
<1>2. /\ Return(t) /\ index' = index /\ active' = active
      /\ booted' = (booted \/ task[t].op = "boot")
  BY DEF LoadFails, idb
<1>3. Stored'
  BY DEF LoadFails, IInv, Stored, idb, hist
<1>4. OnTab'
  BY DEF LoadFails, IInv, OnTab
<1>5. booted' \in BOOLEAN
  BY <1>2
<1>6. Flags'
  BY <1>5, Zenon DEF LoadFails, IInv, Flags, idb
<1>7. CASE pc = "drop"
  <2>1. (task[t].pc \in IdbSteps => queue # <<>>) /\ Listed(index)
    BY <1>1, <1>7, AtFacts DEF BootSteps, Loading
  <2> QED BY <1>2, <1>3, <1>4, <1>6, <2>1, ReturnInv
<1>8. CASE pc \in Loading
  <2>1. task[t].pc \in Loading
    BY <1>1, <1>8 DEF At
  <2>2. Continue(t, IdleTask) /\ IdleTask.pc = "idle" /\ "idle" \notin Loading
    BY <1>2 DEF Return, IdleTask, Loading
  <2>3. booted' # booted => task[t].op # "open"
    <3>1. booted \in BOOLEAN
      BY DEF IInv, Flags
    <3> QED BY <1>2, <3>1
  <2> QED BY <1>2, <1>3, <1>4, <1>6, <2>1, <2>2, <2>3, IdleTaskSound, LoadingStepInv
<1> QED BY <1>1, <1>7, <1>8

LEMMA ReadResultsInv ==
  ASSUME IInv, NEW t \in Tasks, ReadResults(t) PROVE IInv'
<1>1. At(t, "readResults") /\ Return(t) /\ index' = index
  BY DEF ReadResults, idb
<1>2. (task[t].pc \in IdbSteps => queue # <<>>) /\ Listed(index)
  BY <1>1, AtFacts DEF BootSteps, Loading
<1>3. Stored'
  BY DEF ReadResults, IInv, Stored, idb, hist
<1>4. OnTab'
  BY DEF ReadResults, IInv, OnTab
<1>5. timer' \in BOOLEAN /\ booted' \in BOOLEAN
  BY DEF ReadResults
<1>6. Flags'
  BY <1>5, Zenon DEF ReadResults, IInv, Flags, idb
<1> QED BY <1>1, <1>2, <1>3, <1>4, <1>6, ReturnInv

-----------------------------------------------------------------------------
(* Boot and unload. *)

(* Two points of a boot that leave the index alone. *)
LEMMA BootGoesOn ==
  ASSUME IInv, NEW t \in Tasks, NEW r \in TaskRec, Sound(r), r.pc \in BootSteps,
         task[t].pc \in BootSteps, task[t].pc \in IdbSteps => queue # <<>>,
         Continue(t, r), Stored', OnTab', Flags', index' = index,
         UNCHANGED <<booted, active>>
  PROVE  IInv'
<1>1. Running' /\ task'[t].pc = r.pc /\ \A x \in Tasks : x # t => task'[x] = task[x]
  BY ContinueRunning DEF IInv
<1>2. Established'
  BY <1>1 DEF IInv, Established
<1> QED BY <1>1, <1>2 DEF IInv, IndexOK

LEMMA BootReadInv ==
  ASSUME IInv, NEW t \in Tasks, BootRead(t) PROVE IInv'
<1> DEFINE r == [task[t] EXCEPT !.pc = "bootLegacy"]
<1>1. At(t, "bootRead") /\ index' = index /\ cleared' = None
  BY DEF BootRead, idb
<1>2. /\ task[t] \in TaskRec /\ (task[t].pc \in IdbSteps => queue # <<>>)
      /\ task[t].pc = "bootRead"
  BY <1>1, AtFacts
<1>3. /\ index.active \in SessionIds \cup {None}
      /\ active \in SessionIds \cup {None}
  BY DEF IInv, Stored, Index, OnTab
<1>4. active' \in SessionIds \cup {None}
  BY <1>3 DEF BootRead
<1>5. Stored'
  BY <1>1 DEF BootRead, IInv, Stored, idb
<1>6. OnTab'
  BY <1>4 DEF BootRead, IInv, OnTab
<1>7. Flags'
  BY Zenon DEF BootRead, IInv, Flags, idb
<1>8. CASE index.sessions = {}
  <2>1. Continue(t, r)
    BY <1>8 DEF BootRead, Goto
  <2>2. r \in TaskRec /\ Sound(r) /\ r.pc = "bootLegacy"
    BY <1>2, MoveSound, FreePoints DEF TaskRec
  <2>3. UNCHANGED <<booted, active>>
    BY <1>8 DEF BootRead
  <2> HIDE DEF r
  <2> QED BY <1>1, <1>2, <1>5, <1>6, <1>7, <2>1, <2>2, <2>3, BootGoesOn
            DEF BootSteps, Loading
<1>9. CASE index.sessions # {}
  <2>1. Listed(index)
    BY <1>9 DEF IInv, IndexOK, Listed
  <2>2. Restore(t)
    BY <2>1 DEF BootRead, Listed
  <2>3. PICK q \in TaskRec : Sound(q) /\ Continue(t, q)
    BY <1>2, <2>2, RestoreSound
  <2> QED BY <1>1, <1>2, <1>5, <1>6, <1>7, <2>1, <2>3, StepInv
<1> QED BY <1>8, <1>9

LEMMA BootLegacyInv ==
  ASSUME IInv, NEW t \in Tasks, BootLegacy(t) PROVE IInv'
<1>1. PICK id \in SessionIds \ issued :
        /\ issued' = issued \cup {id}
        /\ Continue(t, [task[t] EXCEPT
                          !.pc = IF legacy THEN "bootPut" ELSE "bootWrite",
                          !.id = id,
                          !.idx = [active |-> id, sessions |-> {id}]])
  BY DEF BootLegacy
<1> DEFINE pc == IF legacy THEN "bootPut" ELSE "bootWrite"
           idx == [active |-> id, sessions |-> {id}]
           r == [task[t] EXCEPT !.pc = pc, !.id = id, !.idx = idx]
<1>2. At(t, "bootLegacy") /\ UNCHANGED <<idb, tab, rev, unloads, deleted, cleared, unrestored>>
  BY DEF BootLegacy
<1>3. /\ task[t] \in TaskRec /\ (task[t].pc \in IdbSteps => queue # <<>>)
      /\ task[t].pc = "bootLegacy"
  BY <1>2, AtFacts
<1>4. idx \in Index /\ Listed(idx)
  BY DEF Index, Listed
<1>5. pc \in {"bootPut", "bootWrite"}
  OBVIOUS
<1>6. Continue(t, r)
  BY <1>1
<1> HIDE DEF pc, idx
<1>7. r \in TaskRec /\ r.pc = pc /\ r.idx = idx /\ r.id = id
  BY <1>3, <1>4, <1>5 DEF TaskRec, Steps, IdbSteps, Writes
<1> HIDE DEF r
<1>8. Sound(r)
  BY <1>1, <1>4, <1>5, <1>7 DEF Sound, Naming, Loading
<1>9. Stored'
  BY <1>1, <1>2 DEF IInv, Stored, idb
<1>10. OnTab' /\ Flags' /\ index' = index /\ UNCHANGED <<booted, active>>
  BY <1>2 DEF IInv, OnTab, Flags, idb, tab
<1> QED BY <1>3, <1>5, <1>6, <1>7, <1>8, <1>9, <1>10, BootGoesOn DEF BootSteps, Loading

(* A boot that has chosen its index keeps it. *)
LEMMA BootHolds ==
  ASSUME NEW r \in TaskRec, Sound(r), r.pc \in {"bootPut", "bootForget"},
         NEW pc \in {"bootForget", "bootWrite"}
  PROVE  [r EXCEPT !.pc = pc] \in TaskRec /\ Sound([r EXCEPT !.pc = pc])
           /\ [r EXCEPT !.pc = pc].pc = pc
<1> DEFINE q == [r EXCEPT !.pc = pc]
<1>1. q \in TaskRec /\ q.pc = pc /\ q.idx = r.idx
  BY DEF TaskRec, Steps, IdbSteps, Writes
<1>2. Listed(r.idx)
  BY DEF Sound, Holding
<1> HIDE DEF q
<1>3. Sound(q)
  BY <1>1, <1>2 DEF Sound, Naming, Loading
<1> QED BY <1>1, <1>3 DEF q

LEMMA BootPutInv ==
  ASSUME IInv, NEW t \in Tasks, BootPut(t) PROVE IInv'
<1> DEFINE r == [task[t] EXCEPT !.pc = "bootForget"]
<1>1. At(t, "bootPut") /\ Continue(t, r) /\ UNCHANGED <<index, tab, hist>>
  BY DEF BootPut, Goto
<1>2. /\ task[t] \in TaskRec /\ (task[t].pc \in IdbSteps => queue # <<>>)
      /\ task[t].pc = "bootPut" /\ Sound(task[t])
      /\ task[t].id \in SessionIds
  BY <1>1, AtFacts DEF Sound, Naming
<1>3. r \in TaskRec /\ Sound(r) /\ r.pc = "bootForget"
  BY <1>2, BootHolds
<1>4. Work({task[t].id}, 0) \in Record
  BY <1>2 DEF Record, Content, Work
<1>5. Stored'
  BY <1>1, <1>4 DEF BootPut, IInv, Stored, hist
<1>6. OnTab' /\ Flags' /\ UNCHANGED <<booted, active>>
  BY <1>1 DEF BootPut, IInv, OnTab, Flags, tab
<1> HIDE DEF r
<1> QED BY <1>1, <1>2, <1>3, <1>5, <1>6, BootGoesOn DEF BootSteps, Loading

LEMMA BootForgetInv ==
  ASSUME IInv, NEW t \in Tasks, BootForget(t) PROVE IInv'
<1> DEFINE r == [task[t] EXCEPT !.pc = "bootWrite"]
<1>1. At(t, "bootForget") /\ Continue(t, r) /\ UNCHANGED <<index, tab, hist>>
  BY DEF BootForget, Goto
<1>2. /\ task[t] \in TaskRec /\ (task[t].pc \in IdbSteps => queue # <<>>)
      /\ task[t].pc = "bootForget" /\ Sound(task[t])
  BY <1>1, AtFacts
<1>3. r \in TaskRec /\ Sound(r) /\ r.pc = "bootWrite"
  BY <1>2, BootHolds
<1>4. Stored'
  BY DEF BootForget, IInv, Stored, hist
<1>5. OnTab' /\ UNCHANGED <<booted, active>>
  BY <1>1 DEF IInv, OnTab, tab
<1>6. Flags'
  BY <1>1, Zenon DEF BootForget, IInv, Flags, tab
<1> HIDE DEF r
<1> QED BY <1>1, <1>2, <1>3, <1>4, <1>5, <1>6, BootGoesOn DEF BootSteps, Loading

LEMMA BootWriteInv ==
  ASSUME IInv, NEW t \in Tasks, BootWrite(t) PROVE IInv'
<1>1. /\ At(t, "bootWrite") /\ Restore(t)
      /\ index' = task[t].idx /\ active' = task[t].id
  BY DEF BootWrite
<1>2. /\ task[t] \in TaskRec /\ (task[t].pc \in IdbSteps => queue # <<>>)
      /\ task[t].id \in SessionIds \cup {None}
      /\ task[t].idx \in Index /\ Listed(task[t].idx)
  BY <1>1, AtFacts DEF TaskRec, Sound, Holding
<1>3. PICK r \in TaskRec : Sound(r) /\ Continue(t, r)
  BY <1>1, <1>2, RestoreSound
<1>4. Stored'
  BY <1>1, <1>2 DEF BootWrite, IInv, Stored, hist
<1>5. OnTab'
  BY <1>1, <1>2 DEF BootWrite, IInv, OnTab
<1>6. Flags'
  BY Zenon DEF BootWrite, IInv, Flags
<1> QED BY <1>1, <1>2, <1>3, <1>4, <1>5, <1>6, StepInv

(* What a boot starts with. *)
LEMMA BootingSound ==
  ASSUME NEW t \in Handlers
  PROVE  /\ Booting(t) \in [Tasks -> TaskRec]
         /\ <<t>> \in Seq(Tasks)
         /\ \A x \in Tasks : /\ Sound(Booting(t)[x])
                             /\ Booting(t)[x].pc \in {"bootRead", "idle"}
<1>1. /\ Call("boot", "bootRead") \in TaskRec
      /\ Call("boot", "bootRead").pc = "bootRead" /\ "bootRead" \in FreeSteps
  BY CallType, FreePoints DEF TaskOps, FreeSteps
<1>2. Sound(Call("boot", "bootRead"))
  BY <1>1, FreeSound
<1>3. IdleTask.pc = "idle"
  BY DEF IdleTask
<1> QED BY <1>1, <1>2, <1>3, IdleTaskSound DEF Booting, Tasks

LEMMA UnloadInv ==
  ASSUME IInv, NEW t \in Handlers, Unload(t) PROVE IInv'
<1>1. task' = Booting(t) /\ queue' = <<t>> /\ ~booted' /\ index' = index
  BY DEF Unload, idb
<1>2. Running'
  BY <1>1, BootingSound DEF Running, Sound, Listed
<1>3. Established'
  <2>1. active' = None /\ t \in Tasks /\ Booting(t)[t].pc = "bootRead"
    BY DEF Unload, Tasks, Booting, Call, IdleTask
  <2> QED BY <1>1, <2>1, BootingSound DEF Established, BootSteps
<1>4. cleared' \in SessionIds \cup {None}
  <2>1. CASE \E h \in Handlers : task[h].pc = "reload"
    <3> DEFINE h == CHOOSE x \in Handlers : task[x].pc = "reload"
    <3>1. h \in Handlers
      BY <2>1
    <3>2. cleared' = task[h].id
      BY <2>1 DEF Unload
    <3> HIDE DEF h
    <3>3. task[h] \in TaskRec
      BY <3>1 DEF IInv, Running, Tasks
    <3> QED BY <3>2, <3>3 DEF TaskRec
  <2>2. CASE ~ \E h \in Handlers : task[h].pc = "reload"
    BY <2>2 DEF Unload
  <2> QED BY <2>1, <2>2
<1>0. unrestored' \in BOOLEAN
  BY Zenon DEF Unload
<1>5. Stored'
  BY <1>0, <1>4 DEF Unload, IInv, Stored, idb
<1>6. OnTab'
  BY DEF Unload, OnTab, Record
<1>7. Flags'
  BY DEF Unload, IInv, Flags, idb
<1>8. IndexOK'
  BY <1>1 DEF IInv, IndexOK
<1> QED BY <1>2, <1>3, <1>5, <1>6, <1>7, <1>8 DEF IInv

-----------------------------------------------------------------------------
(* The induction. *)

LEMMA InitInv == Init => IInv
<1> SUFFICES ASSUME Init PROVE IInv
  OBVIOUS
<1>1. PICK t \in Handlers : task = Booting(t) /\ queue = <<t>>
  BY DEF Init
<1>2. Running
  BY <1>1, BootingSound DEF Running
<1>3. index \in Index /\ IndexOK
  BY StartAssumption DEF Init, Index, IndexOK
<1>4. snapshot \in [SessionIds -> Record] /\ results \in [SessionIds -> Record]
  BY StartAssumption DEF Init, Record, Content, Work
<1>5. Stored
  BY <1>3, <1>4, StartAssumption DEF Init, Stored
<1>6. OnTab
  BY DEF Init, OnTab, Record
<1>7. Flags
  BY DEF Init, Flags
<1>8. Established
  <2>1. t \in Tasks /\ Booting(t)[t].pc = "bootRead"
    BY DEF Tasks, Booting, Call, IdleTask
  <2> QED BY <1>1, <2>1, BootingSound DEF Init, Established, BootSteps
<1> QED BY <1>2, <1>3, <1>5, <1>6, <1>7, <1>8 DEF IInv

LEMMA ProgressInv ==
  ASSUME IInv, NEW t \in Tasks, Progress(t) PROVE IInv'
<1>1. CASE PersistStep(t)
  BY <1>1, PutSnapshotInv, SaveReadIndexInv, SaveWriteIndexInv, PutResultsInv,
     ClearSnapshotInv, ClearResultsInv, PersistFailsInv DEF PersistStep
<1>2. CASE HandlerStep(t)
  BY <1>2, NewDroppedInv, CreateReadInv, CreateWriteInv, SetActiveReadInv,
     SetActiveWriteInv, SwitchReadInv, SwitchDroppedInv, RenameReadInv,
     RenameWriteInv, DeleteCheckInv, DeleteReadInv, DeleteArtifactsInv,
     DeleteWriteInv, DeleteNextInv, DeleteDroppedInv, FreshReadInv,
     FreshArtifactsInv DEF HandlerStep
<1>3. CASE RestoreStep(t)
  BY <1>3, LoadSettingsInv, ReadSnapshotInv, ApplyStartInv, ApplyDroppedInv,
     ApplyRestoredInv, ApplyOpenedInv, LoadFailsInv, ReadResultsInv DEF RestoreStep
<1>4. CASE BootStep(t)
  BY <1>4, BootReadInv, BootLegacyInv, BootPutInv, BootForgetInv, BootWriteInv
     DEF BootStep
<1> QED BY <1>1, <1>2, <1>3, <1>4 DEF Progress

LEMMA NextInv == IInv /\ [Next]_vars => IInv'
<1> SUFFICES ASSUME IInv, [Next]_vars PROVE IInv'
  OBVIOUS
<1>1. ASSUME NEW t \in Tasks, Progress(t) PROVE IInv'
  BY <1>1, ProgressInv
<1>2. ASSUME NEW t \in Savers, TimerFires(t) \/ PageHide(t) PROVE IInv'
  BY <1>2, TimerFiresInv, PageHideInv DEF Tasks
<1>3. ASSUME NEW t \in Handlers, UserStep(t) PROVE IInv'
  <2>1. t \in Tasks
    BY DEF Tasks
  <2> QED BY <1>3, <2>1, NewSessionInv, SwitchSessionInv, RenameSessionInv,
             DeleteSessionInv, StartFreshInv, OpenFileInv DEF UserStep
<1>4. ASSUME NEW t \in Handlers, Unload(t) PROVE IInv'
  BY <1>4, UnloadInv
<1>5. CASE Edit
  BY <1>5, EditInv
<1>6. CASE RemoveAll
  BY <1>6, RemoveAllInv
<1>7. CASE UNCHANGED vars
  BY <1>7 DEF vars, idb, tab, hist, IInv, Stored, OnTab, Flags, Running, Sound,
              Listed, IndexOK, Established
<1> QED BY <1>1, <1>2, <1>3, <1>4, <1>5, <1>6, <1>7 DEF Next

LEMMA SpecInv == Spec => []IInv
<1> QED BY InitInv, NextInv, PTL DEF Spec

(* Every variable, every program point and every queued request keeps its  *)
(* type: the stored index is an index whatever stale copy was written.     *)
THEOREM TypeCorrect == Spec => []TypeOK
<1> QED BY SpecInv, IInvImplies, PTL

(* For any number of sessions, of clicks and saves under way at once, and  *)
(* of reloads at any point: sessions/index names an active session that it *)
(* lists, and lists one once a boot has finished (core/sessions.ts).       *)
THEOREM IndexStaysConsistent == Spec => []IndexConsistent
<1> QED BY SpecInv, IInvImplies, PTL

-----------------------------------------------------------------------------
(* Which task runs which function: CallInv. *)

(* The program points of the handlers. *)
Persisting == {"putSnapshot", "saveReadIndex", "saveWriteIndex", "putResults",
               "clearSnapshot", "clearResults"}
Restoring  == {"loadSettings", "readSnapshot", "readResults"} \cup Loading
Deleting   == {"deleteCheck", "deleteRead", "deleteArtifacts", "deleteWrite",
               "deleteNext"}
Switching  == {"setActiveRead", "setActiveWrite", "switchRead"}

Shape(r) ==
  /\ r.op = "none"   => r.pc = "idle"
  /\ r.op = "boot"   => r.pc \in BootSteps \cup Restoring
  /\ r.op = "save"   => r.pc \in Persisting
  /\ r.op = "new"    => r.pc \in Persisting \cup {"drop", "createRead", "createWrite"}
  /\ r.op = "switch" => r.pc \in Persisting \cup Switching \cup {"drop"} \cup Restoring
  /\ r.op = "rename" => r.pc \in {"renameRead", "renameWrite"}
  /\ r.op = "delete" => r.pc \in Deleting \cup {"drop"} \cup Restoring
  /\ r.op = "fresh"  => r.pc \in {"freshRead", "freshArtifacts", "reload"}
  /\ r.op = "open"   => r.pc \in Loading \cup Persisting
  /\ r.after = "drop" => r.op = "new"
  /\ r.after = "setActiveRead" => r.op = "switch"

(* A task is a handler's, unless it is a save.  There is one boot; only    *)
(* files are opened before it has an active session, and when the user     *)
(* waits for its end it runs alone, and on an empty workspace up to its    *)
(* restore.                                                                *)
Called(t) ==
  /\ task[t].op \in {"none", "boot", "save"} \cup Ops
  /\ task[t].op \notin {"none", "save"} => t \in Handlers
  /\ task[t].op = "boot" =>
       /\ ~booted
       /\ \A u \in Tasks \ {t} : task[u].op # "boot"
       /\ task[t].pc \in BootSteps =>
            active = None /\ \A u \in Tasks \ {t} : task[u].op \in {"none", "open"}
       /\ "early" \notin Ops =>
            /\ \A u \in Tasks \ {t} : task[u].op = "none"
            /\ task[t].pc # "readResults" => live = None

CallInv == \A t \in Tasks : Shape(task[t]) /\ Called(t)

(* Where a task that has been called goes. *)
GoesOn(t, r) ==
  /\ task[t].op # "none"
  /\ Continue(t, r)
  /\ r.pc # "idle" =>
       /\ Shape(r) /\ r.op = task[t].op
       /\ booted' = booted
       /\ "early" \notin Ops /\ r.op = "boot" /\ r.pc # "readResults" => live' = None
       /\ r.op = "boot" /\ r.pc \in BootSteps =>
            task[t].pc \in BootSteps /\ active' = active
  /\ task[t].op # "boot" => booted' = booted
  /\ task[t].op = "open" => active' = active

LEMMA GotoGoesOn ==
  ASSUME IInv, CallInv, NEW t \in Tasks, NEW pc, Goto(t, pc), booted' = booted,
         task[t].op # "none",
         pc # "idle" => Shape([task[t] EXCEPT !.pc = pc]),
         task[t].op # "boot", task[t].op = "open" => active' = active
  PROVE  \E r : GoesOn(t, r)
<1>1. task[t] \in TaskRec
  BY DEF IInv, Running
<1>2. [task[t] EXCEPT !.pc = pc].op = task[t].op /\ [task[t] EXCEPT !.pc = pc].pc = pc
  BY <1>1 DEF TaskRec
<1> QED BY <1>2 DEF GoesOn, Goto

LEMMA ReturnGoesOn ==
  ASSUME NEW t \in Tasks, Return(t), task[t].op # "none",
         task[t].op # "boot" => booted' = booted,
         task[t].op = "open" => active' = active
  PROVE  \E r : GoesOn(t, r)
<1>1. IdleTask.pc = "idle"
  BY DEF IdleTask
<1> QED BY <1>1 DEF GoesOn, Return

LEMMA PersistGoesOn ==
  ASSUME IInv, CallInv, NEW t \in Tasks, PersistStep(t)
  PROVE  \E r : GoesOn(t, r)
<1>r. task[t] \in TaskRec /\ Shape(task[t])
  BY DEF IInv, Running, CallInv
<1>a. task[t].after \in {"idle", "setActiveRead", "drop"}
  BY <1>r DEF TaskRec
<1>1. ASSUME NEW pc \in Persisting, At(t, pc)
      PROVE  /\ task[t].op \in {"save", "new", "switch", "open"} /\ task[t].pc = pc
  BY <1>r, <1>1 DEF At, Shape, TaskRec, TaskOps, Persisting, BootSteps, Restoring, Loading, Deleting
<1>2. ASSUME task[t].op \in {"save", "new", "switch", "open"}, NEW pc \in Persisting
      PROVE  Shape([task[t] EXCEPT !.pc = pc])
  BY <1>r, <1>2 DEF Shape, TaskRec
<1>3. ASSUME task[t].op \in {"save", "new", "switch", "open"}, task[t].after # "idle"
      PROVE  Shape([task[t] EXCEPT !.pc = task[t].after])
  BY <1>r, <1>a, <1>3 DEF Shape, TaskRec, Switching
<1>4. CASE PutSnapshot(t)
  BY <1>1, <1>2, <1>4, GotoGoesOn DEF PutSnapshot, Persisting, tab
<1>5. ASSUME NEW r, Continue(t, r), r.op = task[t].op, r.pc \in Persisting, r.after = task[t].after,
             task[t].op \in {"save", "new", "switch", "open"},
             UNCHANGED <<booted, active>>
      PROVE  \E x : GoesOn(t, x)
  <2>1. Shape(r)
    BY <1>r, <1>5 DEF Shape
  <2> QED BY <1>5, <2>1 DEF GoesOn
<1>6. ASSUME NEW pc \in Persisting, At(t, pc), Goto(t, task[t].after), UNCHANGED <<booted, active>>
      PROVE  \E x : GoesOn(t, x)
  BY <1>1, <1>3, <1>6, GotoGoesOn
<1>7. CASE SaveReadIndex(t)
  <2> DEFINE r == [task[t] EXCEPT !.pc = "saveWriteIndex", !.idx = index]
  <2>1. r.op = task[t].op /\ r.pc \in Persisting /\ r.after = task[t].after
    BY <1>r DEF TaskRec, Persisting
  <2>2. Continue(t, r) /\ UNCHANGED <<booted, active>> /\ At(t, "saveReadIndex")
    BY <1>7 DEF SaveReadIndex, tab
  <2> HIDE DEF r
  <2> QED BY <1>1, <1>5, <2>1, <2>2 DEF Persisting
<1>8. CASE SaveWriteIndex(t)
  <2> DEFINE r == [task[t] EXCEPT !.pc = "putResults", !.sid = active,
                                  !.idx = EmptyIndex, !.rows = live]
  <2>1. r.op = task[t].op /\ r.pc \in Persisting /\ r.after = task[t].after
    BY <1>r DEF TaskRec, Persisting
  <2>2. /\ Continue(t, r) \/ Goto(t, task[t].after)
        /\ UNCHANGED <<booted, active>> /\ At(t, "saveWriteIndex")
    BY <1>8 DEF SaveWriteIndex
  <2> HIDE DEF r
  <2> QED BY <1>1, <1>5, <1>6, <2>1, <2>2 DEF Persisting
<1>9. CASE PutResults(t)
  BY <1>6, <1>9 DEF PutResults, Persisting
<1>10. CASE ClearSnapshot(t)
  <2> DEFINE r == [task[t] EXCEPT !.pc = "clearResults", !.sid = active]
  <2>1. r.op = task[t].op /\ r.pc \in Persisting /\ r.after = task[t].after
    BY <1>r DEF TaskRec, Persisting
  <2>2. /\ Continue(t, r) \/ Goto(t, task[t].after)
        /\ UNCHANGED <<booted, active>> /\ At(t, "clearSnapshot")
    BY <1>10 DEF ClearSnapshot, tab
  <2> HIDE DEF r
  <2> QED BY <1>1, <1>5, <1>6, <2>1, <2>2 DEF Persisting
<1>11. CASE ClearResults(t)
  BY <1>6, <1>11 DEF ClearResults, Persisting, tab
<1>12. CASE PersistFails(t)
  <2> DEFINE r == [task[t] EXCEPT !.pc = task[t].after, !.file = None]
  <2>1. PICK pc \in Persisting : At(t, pc)
    BY <1>12 DEF PersistFails, Persisting
  <2>2. Continue(t, r) /\ UNCHANGED <<booted, active>>
    BY <1>12 DEF PersistFails, idb
  <2>3. r.op = task[t].op /\ r.pc = task[t].after /\ r.after = task[t].after
    BY <1>r DEF TaskRec
  <2>4. r.pc # "idle" => Shape([task[t] EXCEPT !.pc = task[t].after])
    BY <1>1, <1>3, <2>1, <2>3
  <2>5. r.pc # "idle" => Shape(r)
    <3> DEFINE q == [task[t] EXCEPT !.pc = task[t].after]
    <3>1. r.op = q.op /\ r.pc = q.pc /\ r.after = q.after
      BY <1>r DEF TaskRec
    <3>2. r.pc # "idle" => Shape(q)
      BY <2>4
    <3> HIDE DEF q, r
    <3> QED BY <3>1, <3>2 DEF Shape
  <2>6. task[t].op \in {"save", "new", "switch", "open"}
    BY <1>1, <2>1
  <2> HIDE DEF r
  <2> QED BY <2>2, <2>3, <2>5, <2>6 DEF GoesOn
<1> QED BY <1>4, <1>7, <1>8, <1>9, <1>10, <1>11, <1>12 DEF PersistStep

LEMMA RestoreCalled ==
  ASSUME NEW t \in Tasks, Restore(t),
         task[t].op \in {"boot", "switch", "delete"},
         booted' = booted,
         "early" \notin Ops /\ task[t].op = "boot" => live' = None
  PROVE  \E r : GoesOn(t, r)
<1> DEFINE r == Call(task[t].op, "loadSettings")
<1>1. r.op = task[t].op /\ r.pc = "loadSettings" /\ r.after = "idle"
  BY DEF Call, IdleTask
<1>2. Continue(t, r)
  BY DEF Restore
<1> HIDE DEF r
<1>3. Shape(r)
  BY <1>1 DEF Shape, Restoring
<1> QED BY <1>1, <1>2, <1>3 DEF GoesOn, BootSteps

LEMMA HandlerGoesOn ==
  ASSUME IInv, CallInv, NEW t \in Tasks, HandlerStep(t)
  PROVE  \E r : GoesOn(t, r)
<1>r. task[t] \in TaskRec /\ Shape(task[t])
  BY DEF IInv, Running, CallInv
<1>g. ASSUME NEW r, Continue(t, r), r.pc # "idle" => Shape(r), r.op = task[t].op,
             task[t].op \notin {"none", "boot", "open"}, booted' = booted
      PROVE  \E x : GoesOn(t, x)
  BY <1>g DEF GoesOn
<1>1. CASE NewDropped(t) \/ CreateRead(t) \/ CreateWrite(t)
  <2>1. task[t].op = "new"
    BY <1>r, <1>1 DEF NewDropped, CreateRead, CreateWrite, At, Shape, TaskRec, TaskOps, Persisting,
       BootSteps, Restoring, Loading, Deleting, Switching
  <2>2. CASE NewDropped(t)
    BY <1>r, <2>1, <2>2, GotoGoesOn DEF NewDropped, Shape, TaskRec
  <2>3. CASE CreateRead(t)
    <3>1. PICK id : Continue(t, [task[t] EXCEPT !.pc = "createWrite", !.id = id, !.idx = index])
      BY <2>3 DEF CreateRead
    <3> DEFINE r == [task[t] EXCEPT !.pc = "createWrite", !.id = id, !.idx = index]
    <3>2. Shape(r) /\ r.op = task[t].op
      BY <1>r, <2>1 DEF Shape, TaskRec
    <3>3. booted' = booted
      BY <2>3 DEF CreateRead, tab
    <3> HIDE DEF r
    <3> QED BY <1>g, <2>1, <3>1, <3>2, <3>3 DEF r
  <2>4. CASE CreateWrite(t)
    BY <2>1, <2>4, ReturnGoesOn DEF CreateWrite
  <2> QED BY <1>1, <2>2, <2>3, <2>4
<1>2. CASE SetActiveRead(t) \/ SetActiveWrite(t) \/ SwitchRead(t) \/ SwitchDropped(t)
  <2>1. task[t].op = "switch"
    BY <1>r, <1>2 DEF SetActiveRead, SetActiveWrite, SwitchRead, SwitchDropped, At, Shape, TaskRec,
       TaskOps, Persisting, BootSteps, Restoring, Loading, Deleting
  <2>2. CASE SetActiveRead(t)
    <3> DEFINE r == [task[t] EXCEPT !.pc = "setActiveWrite", !.idx = index]
    <3>1. Shape(r) /\ r.op = task[t].op
      BY <1>r, <2>1 DEF Shape, TaskRec, Switching
    <3>2. (Continue(t, r) \/ Return(t)) /\ booted' = booted
      BY <2>2 DEF SetActiveRead, tab
    <3> HIDE DEF r
    <3> QED BY <1>g, <2>1, <3>1, <3>2, ReturnGoesOn
  <2>3. CASE SetActiveWrite(t)
    BY <1>r, <2>1, <2>3, GotoGoesOn DEF SetActiveWrite, Shape, TaskRec, Switching, tab
  <2>4. CASE SwitchRead(t)
    BY <1>r, <2>1, <2>4, GotoGoesOn DEF SwitchRead, Shape, TaskRec
  <2>5. CASE SwitchDropped(t)
    BY <2>1, <2>5, RestoreCalled DEF SwitchDropped
  <2> QED BY <1>2, <2>2, <2>3, <2>4, <2>5
<1>3. CASE RenameRead(t) \/ RenameWrite(t)
  <2>1. task[t].op = "rename"
    BY <1>r, <1>3 DEF RenameRead, RenameWrite, At, Shape, TaskRec,
       TaskOps, Persisting, BootSteps, Restoring, Loading, Deleting, Switching
  <2>2. CASE RenameRead(t)
    <3> DEFINE r == [task[t] EXCEPT !.pc = "renameWrite", !.idx = index]
    <3>1. Shape(r) /\ r.op = task[t].op
      BY <1>r, <2>1 DEF Shape, TaskRec
    <3>2. Continue(t, r) /\ booted' = booted
      BY <2>2 DEF RenameRead, tab
    <3> HIDE DEF r
    <3> QED BY <1>g, <2>1, <3>1, <3>2
  <2>3. CASE RenameWrite(t)
    BY <2>1, <2>3, ReturnGoesOn DEF RenameWrite, tab
  <2> QED BY <1>3, <2>2, <2>3
<1>4. CASE DeleteCheck(t) \/ DeleteRead(t) \/ DeleteArtifacts(t) \/ DeleteWrite(t)
           \/ DeleteNext(t) \/ DeleteDropped(t)
  <2>1. task[t].op = "delete" /\ task[t].after = "idle"
    BY <1>r, <1>4 DEF DeleteCheck, DeleteRead, DeleteArtifacts, DeleteWrite, DeleteNext, DeleteDropped,
       At, Shape, TaskRec, TaskOps, Persisting, BootSteps, Restoring, Loading, Switching
  <2>2. ASSUME NEW pc \in Deleting \cup {"drop"}, NEW r, r.op = task[t].op, r.pc = pc, r.after = "idle"
        PROVE  Shape(r)
    BY <2>1, <2>2 DEF Shape
  <2>g. ASSUME NEW pc \in Deleting, Goto(t, pc), booted' = booted PROVE \E x : GoesOn(t, x)
    <3> DEFINE r == [task[t] EXCEPT !.pc = pc]
    <3>1. r.op = task[t].op /\ r.pc = pc /\ r.after = "idle"
      BY <1>r, <2>1 DEF TaskRec
    <3>2. Continue(t, r)
      BY <2>g DEF Goto
    <3> HIDE DEF r
    <3> QED BY <1>g, <2>1, <2>2, <2>g, <3>1, <3>2
  <2>3. CASE DeleteCheck(t)
    <3> DEFINE r == [task[t] EXCEPT !.pc = "deleteRead", !.was = (active = task[t].id)]
    <3>1. r.op = task[t].op /\ r.pc = "deleteRead" /\ r.after = "idle"
      BY <1>r, <2>1 DEF TaskRec
    <3>2. (Continue(t, r) \/ Return(t)) /\ booted' = booted
      BY <2>3 DEF DeleteCheck, tab
    <3> HIDE DEF r
    <3> QED BY <1>g, <2>1, <2>2, <3>1, <3>2, ReturnGoesOn DEF Deleting
  <2>4. CASE DeleteRead(t)
    <3> DEFINE r == [task[t] EXCEPT !.pc = "deleteArtifacts", !.idx = index]
    <3>1. r.op = task[t].op /\ r.pc = "deleteArtifacts" /\ r.after = "idle"
      BY <1>r, <2>1 DEF TaskRec
    <3>2. (Continue(t, r) \/ Return(t)) /\ booted' = booted
      BY <2>4 DEF DeleteRead, tab
    <3> HIDE DEF r
    <3> QED BY <1>g, <2>1, <2>2, <3>1, <3>2, ReturnGoesOn DEF Deleting
  <2>5. CASE DeleteArtifacts(t)
    BY <2>1, <2>5, <2>g, ReturnGoesOn DEF DeleteArtifacts, ClearSessionArtifacts, Deleting, tab
  <2>6. CASE DeleteWrite(t)
    BY <2>1, <2>6, <2>g, ReturnGoesOn DEF DeleteWrite, Deleting, tab
  <2>7. CASE DeleteNext(t)
    <3> DEFINE r == [task[t] EXCEPT !.pc = "drop", !.sid = index.active]
    <3>1. r.op = task[t].op /\ r.pc = "drop" /\ r.after = "idle"
      BY <1>r, <2>1 DEF TaskRec
    <3>2. (Continue(t, r) \/ Return(t)) /\ booted' = booted
      BY <2>7 DEF DeleteNext, tab
    <3> HIDE DEF r
    <3> QED BY <1>g, <2>1, <2>2, <3>1, <3>2, ReturnGoesOn
  <2>8. CASE DeleteDropped(t)
    BY <2>1, <2>8, RestoreCalled DEF DeleteDropped
  <2> QED BY <1>4, <2>3, <2>4, <2>5, <2>6, <2>7, <2>8
<1>5. CASE FreshRead(t) \/ FreshArtifacts(t)
  <2>1. task[t].op = "fresh"
    BY <1>r, <1>5 DEF FreshRead, FreshArtifacts, At, Shape, TaskRec,
       TaskOps, Persisting, BootSteps, Restoring, Loading, Deleting, Switching
  <2>2. CASE FreshRead(t)
    BY <1>r, <2>1, <2>2, GotoGoesOn DEF FreshRead, Shape, TaskRec, tab
  <2>3. CASE FreshArtifacts(t)
    BY <1>r, <2>1, <2>3, GotoGoesOn, ReturnGoesOn
    DEF FreshArtifacts, ClearSessionArtifacts, Shape, TaskRec, tab
  <2> QED BY <1>5, <2>2, <2>3
<1> QED BY <1>1, <1>2, <1>3, <1>4, <1>5 DEF HandlerStep

LEMMA RestoreGoesOn ==
  ASSUME IInv, CallInv, NEW t \in Tasks, RestoreStep(t)
  PROVE  \E r : GoesOn(t, r)
<1>r. task[t] \in TaskRec /\ Shape(task[t]) /\ Called(t)
  BY DEF IInv, Running, CallInv
<1>1. ASSUME NEW pc \in Restoring, At(t, pc)
      PROVE  /\ task[t].op \in {"boot", "switch", "delete", "open"} /\ task[t].pc = pc
             /\ task[t].op = "boot" => ~booted
             /\ task[t].op = "boot" /\ "early" \notin Ops /\ pc # "readResults" => live = None
             /\ task[t].op = "open" => pc \in Loading
  BY <1>r, <1>1 DEF Called, At, Shape, TaskRec, TaskOps, Persisting, BootSteps, Restoring, Loading,
     Deleting, Switching
<1>2. ASSUME NEW r, Continue(t, r), r.op = task[t].op, r.after = task[t].after,
             r.op \in {"boot", "switch", "delete", "open"}, r.pc \in Loading,
             UNCHANGED <<booted, active>>, "early" \notin Ops /\ r.op = "boot" => live' = None
      PROVE  \E x : GoesOn(t, x)
  <2>1. Shape(r)
    BY <1>r, <1>2 DEF Shape, Restoring
  <2> QED BY <1>2, <2>1 DEF GoesOn, BootSteps, Loading
<1>b. booted \in BOOLEAN
  BY DEF IInv, Flags
<1>s. CASE LoadSettings(t)
  <2> DEFINE r == [Call(task[t].op, "readSnapshot") EXCEPT !.sid = active]
  <2>1. r.op = task[t].op /\ r.pc = "readSnapshot" /\ r.after = "idle"
    BY DEF Call, IdleTask
  <2>2. /\ \/ Return(t) /\ booted' = (booted \/ task[t].op = "boot")
           \/ Continue(t, r) /\ booted' = booted
        /\ live' = live /\ At(t, "loadSettings")
    BY <1>s DEF LoadSettings
  <2>3. /\ task[t].op \in {"boot", "switch", "delete"}
        /\ task[t].op = "boot" /\ "early" \notin Ops => live = None
    BY <1>1, <2>2 DEF Restoring, Loading
  <2> HIDE DEF r
  <2>4. Shape(r)
    BY <2>1, <2>3 DEF Shape, Restoring
  <2> QED BY <1>b, <2>1, <2>2, <2>3, <2>4, ReturnGoesOn DEF GoesOn, BootSteps
<1>f. CASE LoadFails(t)
  <2>1. PICK pc \in Loading \cup {"drop"} : At(t, pc)
    BY <1>f DEF LoadFails
  <2>2. task[t].op # "none"
    BY <1>r, <2>1 DEF Shape, At, Loading
  <2> QED BY <1>b, <1>f, <2>2, ReturnGoesOn DEF LoadFails
<1>3. CASE ReadSnapshot(t)
  <2> DEFINE r == [task[t] EXCEPT !.pc = "applyWait", !.file = snapshot[task[t].sid]]
  <2>1. r.op = task[t].op /\ r.pc = "applyWait" /\ r.after = task[t].after
    BY <1>r DEF TaskRec
  <2>2. /\ \/ Return(t) /\ booted' = (booted \/ task[t].op = "boot")
           \/ Continue(t, r) /\ booted' = booted
        /\ UNCHANGED <<live, active>> /\ At(t, "readSnapshot")
    BY <1>3 DEF ReadSnapshot
  <2>3. booted \in BOOLEAN
    BY DEF IInv, Flags
  <2> HIDE DEF r
  <2> QED BY <1>1, <1>2, <2>1, <2>2, <2>3, ReturnGoesOn DEF Restoring, Loading
<1>4. ASSUME NEW pc \in Loading, Goto(t, pc), UNCHANGED <<booted, active>>, live' \in {None, live},
             task[t].op \in {"boot", "switch", "delete", "open"},
             "early" \notin Ops /\ task[t].op = "boot" => live = None
      PROVE  \E x : GoesOn(t, x)
  <2> DEFINE r == [task[t] EXCEPT !.pc = pc]
  <2>1. r.op = task[t].op /\ r.pc = pc /\ r.after = task[t].after
    BY <1>r DEF TaskRec
  <2>2. Continue(t, r)
    BY <1>4 DEF Goto
  <2> HIDE DEF r
  <2> QED BY <1>2, <1>4, <2>1, <2>2
<1>5. CASE ApplyStart(t)
  BY <1>1, <1>4, <1>5 DEF ApplyStart, Restoring, Loading
<1>6. CASE ApplyDropped(t)
  BY <1>1, <1>4, <1>6 DEF ApplyDropped, Restoring, Loading
<1>7. CASE ApplyRestored(t)
  <2> DEFINE r == [Call(task[t].op, "readResults") EXCEPT !.sid = active]
  <2>0. task[t].op \in {"boot", "switch", "delete"}
    BY <1>1, <1>7 DEF ApplyRestored, Restoring, Loading
  <2>1. r.op = task[t].op /\ r.pc = "readResults" /\ r.after = "idle"
    BY DEF Call, IdleTask
  <2>2. \/ Return(t) /\ booted' = (booted \/ task[t].op = "boot")
        \/ Continue(t, r) /\ booted' = booted
    BY <1>7 DEF ApplyRestored
  <2> HIDE DEF r
  <2>3. Shape(r)
    BY <2>0, <2>1 DEF Shape, Restoring
  <2> QED BY <1>b, <2>0, <2>1, <2>2, <2>3, ReturnGoesOn DEF GoesOn, BootSteps
<1>8. CASE ApplyOpened(t)
  <2> DEFINE r == [Call("open", "putSnapshot")
                     EXCEPT !.sid = active, !.file = live']
  <2>1. r.op = "open" /\ r.pc = "putSnapshot" /\ r.after = "idle"
    BY DEF Call, IdleTask
  <2>2. (Continue(t, r) \/ Return(t)) /\ UNCHANGED <<booted, active>> /\ task[t].op = "open"
    BY <1>8 DEF ApplyOpened
  <2> HIDE DEF r
  <2>3. Shape(r)
    BY <2>1 DEF Shape, Persisting
  <2> QED BY <2>1, <2>2, <2>3, ReturnGoesOn DEF GoesOn, BootSteps
<1>9. CASE ReadResults(t)
  <2>1. booted \in BOOLEAN
    BY DEF IInv, Flags
  <2> QED BY <1>1, <1>9, <2>1, ReturnGoesOn DEF ReadResults, Restoring
<1> QED BY <1>s, <1>f, <1>3, <1>5, <1>6, <1>7, <1>8, <1>9 DEF RestoreStep

LEMMA BootGoes ==
  ASSUME IInv, CallInv, NEW t \in Tasks, BootStep(t)
  PROVE  \E r : GoesOn(t, r)
<1>r. task[t] \in TaskRec /\ Shape(task[t]) /\ Called(t)
  BY DEF IInv, Running, CallInv
<1>1. task[t].op = "boot" /\ task[t].pc \in BootSteps
  BY <1>r DEF BootStep, BootRead, BootLegacy, BootPut, BootForget, BootWrite, At, Shape, TaskRec,
     TaskOps, Persisting, BootSteps, Restoring, Loading, Deleting, Switching
<1>2. ~booted /\ ("early" \notin Ops => live = None) /\ booted' = booted /\ live' = live
  BY <1>r, <1>1 DEF Called, BootStep, BootRead, BootLegacy, BootPut, BootForget, BootWrite,
     BootSteps, tab
<1>3. ASSUME NEW r, Continue(t, r), r.op = "boot", r.after = task[t].after,
             r.pc \in BootSteps, active' = active
      PROVE  \E x : GoesOn(t, x)
  <2>1. Shape(r)
    BY <1>r, <1>1, <1>3 DEF Shape
  <2> QED BY <1>1, <1>2, <1>3, <2>1 DEF GoesOn
<1>4. ASSUME NEW pc \in BootSteps, Goto(t, pc), active' = active
      PROVE  \E x : GoesOn(t, x)
  <2> DEFINE r == [task[t] EXCEPT !.pc = pc]
  <2>1. r.op = "boot" /\ r.pc = pc /\ r.after = task[t].after
    BY <1>r, <1>1 DEF TaskRec
  <2>2. Continue(t, r)
    BY <1>4 DEF Goto
  <2> HIDE DEF r
  <2> QED BY <1>3, <1>4, <2>1, <2>2
<1>5. CASE BootRead(t)
  <2>1. CASE Goto(t, "bootLegacy") /\ active' = active
    BY <1>4, <2>1 DEF BootSteps
  <2>2. CASE Restore(t)
    BY <1>1, <1>2, RestoreCalled, <2>2
  <2>3. ASSUME NEW first,
               Continue(t, [task[t] EXCEPT !.pc = "bootWrite", !.id = first,
                                           !.idx = [index EXCEPT !.active = first]]),
               active' = active
        PROVE  \E x : GoesOn(t, x)
    <3> DEFINE r == [task[t] EXCEPT !.pc = "bootWrite", !.id = first,
                                    !.idx = [index EXCEPT !.active = first]]
    <3>1. r.op = "boot" /\ r.pc = "bootWrite" /\ r.after = task[t].after
      BY <1>r, <1>1 DEF TaskRec
    <3>2. Continue(t, r)
      BY <2>3
    <3> HIDE DEF r
    <3> QED BY <1>3, <2>3, <3>1, <3>2 DEF BootSteps
  <2> QED BY <1>5, <2>1, <2>2, <2>3 DEF BootRead
<1>6. CASE BootLegacy(t)
  <2>1. PICK id : Continue(t, [task[t] EXCEPT
                         !.pc = IF legacy THEN "bootPut" ELSE "bootWrite",
                         !.id = id,
                         !.idx = [active |-> id, sessions |-> {id}]])
    BY <1>6 DEF BootLegacy
  <2> DEFINE r == [task[t] EXCEPT
                         !.pc = IF legacy THEN "bootPut" ELSE "bootWrite",
                         !.id = id,
                         !.idx = [active |-> id, sessions |-> {id}]]
  <2>2. r.op = "boot" /\ r.pc \in BootSteps /\ r.after = task[t].after
    BY <1>r, <1>1 DEF TaskRec, BootSteps
  <2>3. Continue(t, r)
    BY <2>1
  <2> HIDE DEF r
  <2>4. active' = active
    BY <1>6 DEF BootLegacy, tab
  <2> QED BY <1>3, <2>2, <2>3, <2>4
<1>7. CASE BootPut(t) \/ BootForget(t)
  BY <1>4, <1>7 DEF BootPut, BootForget, BootSteps, tab
<1>8. CASE BootWrite(t)
  BY <1>1, <1>2, <1>8, RestoreCalled DEF BootWrite
<1> QED BY <1>5, <1>6, <1>7, <1>8 DEF BootStep

LEMMA ProgressGoesOn ==
  ASSUME IInv, CallInv, NEW t \in Tasks, Progress(t)
  PROVE  \E r : GoesOn(t, r)
BY PersistGoesOn, HandlerGoesOn, RestoreGoesOn, BootGoes DEF Progress

(* A task that a click or an event starts. *)
StartsAs(t, r) ==
  /\ HandsOn /\ UNCHANGED <<booted, active>>
  /\ task[t].op = "none"
  /\ Continue(t, r)
  /\ r.pc # "idle" => /\ Shape(r)
                      /\ r.op \in (Ops \cup {"save"}) \ {"boot"}
                      /\ r.op # "save" => t \in Handlers
                      /\ \/ r.op = "open" \/ booted
                         \/ \A u \in Tasks : task[u].pc \notin BootSteps

LEMMA IdleShape == Shape(IdleTask) /\ IdleTask.op = "none"
BY DEF Shape, IdleTask

LEMMA CallInvMoves ==
  ASSUME IInv, CallInv, NEW t \in Tasks, NEW r, GoesOn(t, r) \/ StartsAs(t, r)
  PROVE  CallInv'
<1>1. /\ task'[t] = IF r.pc = "idle" THEN IdleTask ELSE r
      /\ \A u \in Tasks : u # t => task'[u] = task[u]
  BY Continues DEF GoesOn, StartsAs
<1>2. ASSUME NEW u \in Tasks PROVE Shape(task'[u])
  BY <1>1, IdleShape DEF GoesOn, StartsAs, CallInv
<1>3. ASSUME NEW u \in Tasks PROVE Called(u)'
  <2>0. Called(u) /\ Called(t)
    BY DEF CallInv
  <2>1. CASE u = t
    <3>1. /\ task'[t].op \in {"none", "boot", "save"} \cup Ops
          /\ task'[t].op \notin {"none", "save"} => t \in Handlers
          /\ task'[t].op = "boot" =>
               /\ r.pc # "idle" /\ task[t].op = "boot" /\ ~booted'
               /\ task'[t].pc = r.pc /\ r.op = "boot"
      BY <1>1, <2>0, IdleShape DEF GoesOn, StartsAs, Called
    <3>2. CASE task'[t].op = "boot"
      <4>1. \A x \in Tasks \ {t} : task'[x] = task[x]
        BY <1>1
      <4>2. GoesOn(t, r)
        BY <3>1, <3>2 DEF StartsAs
      <4>3. "early" \notin Ops /\ task'[t].pc # "readResults" => live' = None
        BY <3>1, <3>2, <4>2 DEF GoesOn
      <4>4. task'[t].pc \in BootSteps => task[t].pc \in BootSteps /\ active' = active
        BY <3>1, <3>2, <4>2 DEF GoesOn
      <4> QED BY <2>0, <2>1, <3>1, <3>2, <4>1, <4>3, <4>4 DEF Called
    <3> QED BY <2>1, <3>1, <3>2 DEF Called
  <2>2. CASE u # t /\ task[u].op # "boot"
    BY <1>1, <2>0, <2>2 DEF Called
  <2>3. CASE u # t /\ task[u].op = "boot"
    <3>1. task[t].op # "boot" /\ ~booted' /\ ("early" \notin Ops => FALSE)
      BY <2>0, <2>3 DEF GoesOn, StartsAs, Called, HandsOn
    <3>2. ASSUME NEW v \in Tasks \ {u} PROVE task'[v].op # "boot"
      BY <1>1, <2>0, <2>3, <3>1, <3>2, IdleShape DEF GoesOn, StartsAs, Called
    <3>3. CASE task[u].pc \in BootSteps
      <4>1. active' = None /\ task'[t].op \in {"none", "open"}
        BY <1>1, <2>0, <2>3, <3>3, IdleShape DEF GoesOn, StartsAs, Called
      <4>2. \A v \in Tasks \ {u} : task'[v].op \in {"none", "open"}
        BY <1>1, <2>0, <2>3, <3>3, <4>1 DEF Called
      <4> QED BY <1>1, <2>0, <2>3, <3>1, <3>2, <4>1, <4>2 DEF Called
    <3> QED BY <1>1, <2>0, <2>3, <3>1, <3>2, <3>3 DEF Called
  <2> QED BY <2>1, <2>2, <2>3
<1> QED BY <1>2, <1>3 DEF CallInv, Shape

LEMMA PersistStarts ==
  ASSUME IInv, NEW t \in Tasks, NEW caller, PersistSnapshot(t, caller), HandsOn,
         booted \/ \A u \in Tasks : task[u].pc \notin BootSteps, UNCHANGED <<booted, active>>,
         task[t].op = "none", caller \in TaskRec, caller.op \in {"save", "new", "switch"},
         caller.op = "save" \/ (caller.op \in Ops /\ t \in Handlers),
         caller.after = "drop" => caller.op = "new",
         caller.after = "setActiveRead" => caller.op = "switch"
  PROVE  \E r : StartsAs(t, r)
<1> DEFINE back  == [caller EXCEPT !.pc = caller.after]
           clear == [caller EXCEPT !.pc = "clearSnapshot", !.sid = active]
           put   == [caller EXCEPT !.pc = "putSnapshot", !.sid = active,
                                   !.file = live]
<1>1. Continue(t, back) \/ Continue(t, clear) \/ Continue(t, put)
  BY DEF PersistSnapshot
<1>2. /\ back.op = caller.op /\ back.after = caller.after /\ back.pc = caller.after
      /\ clear.op = caller.op /\ clear.after = caller.after /\ clear.pc = "clearSnapshot"
      /\ put.op = caller.op /\ put.after = caller.after /\ put.pc = "putSnapshot"
  BY DEF TaskRec
<1>3. caller.after \in {"idle", "setActiveRead", "drop"}
  BY DEF TaskRec
<1> HIDE DEF back, clear, put
<1>4. Shape(clear) /\ Shape(put)
  BY <1>2 DEF Shape, Persisting
<1>5. back.pc # "idle" => Shape(back)
  BY <1>2, <1>3 DEF Shape, Switching
<1> QED BY <1>1, <1>2, <1>4, <1>5 DEF StartsAs

LEMMA IdleIsNone ==
  ASSUME IInv, CallInv, NEW t \in Tasks, task[t].pc = "idle"
  PROVE  task[t].op = "none"
<1>1. task[t] \in TaskRec /\ Shape(task[t])
  BY DEF IInv, Running, CallInv
<1> QED BY <1>1 DEF Shape, TaskRec, TaskOps, Persisting, BootSteps, Restoring, Loading, Deleting,
           Switching

LEMMA UserStarts ==
  ASSUME IInv, CallInv, NEW t \in Handlers, UserStep(t)
  PROVE  \E r : StartsAs(t, r)
<1>0. t \in Tasks
  BY DEF Tasks
<1>1. ASSUME NEW op, Clicks(t, op)
      PROVE  /\ op \in Ops /\ HandsOn /\ task[t].op = "none"
             /\ op # "open" => booted \/ \A u \in Tasks : task[u].pc \notin BootSteps
  BY <1>0, <1>1, IdleIsNone DEF Clicks
<1>2. ASSUME NEW op \in Ops \ {"boot"}, NEW pc, NEW r, Continue(t, r), Clicks(t, op),
             r.op = op, r.pc = pc, r.after = "idle", UNCHANGED <<booted, active>>, pc # "idle" => Shape(r)
      PROVE  \E x : StartsAs(t, x)
  <2>1. /\ op \in Ops /\ HandsOn /\ task[t].op = "none"
        /\ op # "open" => booted \/ \A u \in Tasks : task[u].pc \notin BootSteps
    BY <1>1, <1>2
  <2>2. StartsAs(t, r)
    BY <1>0, <1>2, <2>1 DEF StartsAs
  <2> QED BY <2>2
<1>3. CASE NewSession(t)
  <2> DEFINE c == [Call("new", "idle") EXCEPT !.after = "drop"]
  <2>1. c \in TaskRec /\ c.op = "new" /\ c.after = "drop"
    BY CallType DEF TaskOps, TaskRec, Steps
  <2>2. PersistSnapshot(t, c) /\ Clicks(t, "new") /\ UNCHANGED <<booted, active>>
    BY <1>3 DEF NewSession
  <2> HIDE DEF c
  <2> QED BY <1>0, <1>1, <2>1, <2>2, PersistStarts
<1>4. CASE SwitchSession(t)
  <2>1. PICK id \in issued \ {active} :
          PersistSnapshot(t, [Call("switch", "idle")
                               EXCEPT !.after = "setActiveRead", !.id = id, !.file = live])
    BY <1>4 DEF SwitchSession
  <2> DEFINE c == [Call("switch", "idle") EXCEPT !.after = "setActiveRead", !.id = id, !.file = live]
  <2>2. id \in SessionIds /\ live \in Record
    BY DEF IInv, Stored, OnTab
  <2>3. c \in TaskRec /\ c.op = "switch" /\ c.after = "setActiveRead"
    <3> DEFINE q == Call("switch", "idle")
    <3>1. q \in TaskRec /\ q.op = "switch"
      BY CallType DEF TaskOps, Steps
    <3> HIDE DEF q
    <3> QED BY <2>2, <3>1 DEF TaskRec, q
  <2>4. PersistSnapshot(t, c) /\ Clicks(t, "switch") /\ UNCHANGED <<booted, active>>
    BY <1>4, <2>1 DEF SwitchSession
  <2> HIDE DEF c
  <2> QED BY <1>0, <1>1, <2>3, <2>4, PersistStarts
<1>5. CASE RenameSession(t)
  <2> DEFINE r == Call("rename", "renameRead")
  <2>1. Continue(t, r) /\ Clicks(t, "rename") /\ UNCHANGED <<booted, active>>
    BY <1>5 DEF RenameSession, tab
  <2>2. r.op = "rename" /\ r.pc = "renameRead" /\ r.after = "idle"
    BY DEF Call, IdleTask
  <2> HIDE DEF r
  <2>3. Shape(r)
    BY <2>2 DEF Shape
  <2> QED BY <1>1, <1>2, <2>1, <2>2, <2>3
<1>6. CASE DeleteSession(t)
  <2>1. PICK id : Continue(t, [Call("delete", "deleteCheck") EXCEPT !.id = id])
    BY <1>6 DEF DeleteSession
  <2> DEFINE r == [Call("delete", "deleteCheck") EXCEPT !.id = id]
  <2>2. Continue(t, r) /\ Clicks(t, "delete") /\ UNCHANGED <<booted, active>>
    BY <1>6, <2>1 DEF DeleteSession, tab
  <2>3. r.op = "delete" /\ r.pc = "deleteCheck" /\ r.after = "idle"
    BY DEF Call, IdleTask
  <2> HIDE DEF r
  <2>4. Shape(r)
    BY <2>3 DEF Shape, Deleting
  <2> QED BY <1>1, <1>2, <2>2, <2>3, <2>4
<1>7. CASE StartFresh(t)
  <2> DEFINE r == [Call("fresh", "freshRead") EXCEPT !.id = active]
  <2>1. Continue(t, r) /\ Clicks(t, "fresh") /\ UNCHANGED <<booted, active>>
    BY <1>7 DEF StartFresh, tab
  <2>2. r.op = "fresh" /\ r.pc = "freshRead" /\ r.after = "idle"
    BY DEF Call, IdleTask
  <2> HIDE DEF r
  <2>3. Shape(r)
    BY <2>2 DEF Shape
  <2> QED BY <1>1, <1>2, <2>1, <2>2, <2>3
<1>8. CASE OpenFile(t)
  <2> DEFINE r == [Call("open", "applyWait") EXCEPT !.file = Work({}, rev + 1)]
  <2>1. Continue(t, r) /\ Clicks(t, "open") /\ UNCHANGED <<booted, active>>
    BY <1>8 DEF OpenFile, tab
  <2>2. r.op = "open" /\ r.pc = "applyWait" /\ r.after = "idle"
    BY DEF Call, IdleTask
  <2> HIDE DEF r
  <2>3. Shape(r)
    BY <2>2 DEF Shape, Loading
  <2> QED BY <1>1, <1>2, <2>1, <2>2, <2>3
<1> QED BY <1>3, <1>4, <1>5, <1>6, <1>7, <1>8 DEF UserStep

LEMMA EventStarts ==
  ASSUME IInv, CallInv, NEW t \in Savers, TimerFires(t) \/ PageHide(t)
  PROVE  \E r : StartsAs(t, r)
<1> DEFINE c == Call("save", "idle")
<1>0. t \in Tasks
  BY DEF Tasks
<1>1. c \in TaskRec /\ c.op = "save" /\ c.after = "idle"
  BY CallType DEF TaskOps, Steps
<1>2. PersistSnapshot(t, c) /\ HandsOn /\ booted /\ UNCHANGED <<booted, active>> /\ task[t].pc = "idle"
  BY DEF TimerFires, PageHide, HandsOn
<1>3. task[t].op = "none"
  BY <1>0, <1>2, IdleIsNone
<1> HIDE DEF c
<1> QED BY <1>0, <1>1, <1>2, <1>3, PersistStarts

LEMMA BootingCalls ==
  ASSUME NEW t \in Handlers, task' = Booting(t), ~booted', live' = None,
         active' = None
  PROVE  CallInv'
<1>1. ASSUME NEW u \in Tasks PROVE task'[u] = IF u = t THEN Call("boot", "bootRead") ELSE IdleTask
  BY DEF Booting
<1>2. /\ Call("boot", "bootRead").op = "boot" /\ Call("boot", "bootRead").pc = "bootRead"
      /\ Call("boot", "bootRead").after = "idle"
  BY DEF Call, IdleTask
<1>3. Shape(Call("boot", "bootRead"))
  BY <1>2 DEF Shape, BootSteps
<1>4. ASSUME NEW u \in Tasks PROVE Shape(task'[u]) /\ Called(u)'
  BY <1>1, <1>2, <1>3, IdleShape DEF Called
<1> QED BY <1>4 DEF CallInv, Shape

(* A step: what the user edits, a visit that begins, or a task that moves. *)
LEMMA StepKinds ==
  ASSUME IInv, CallInv, [Next]_vars
  PROVE  \/ UNCHANGED vars
         \/ Edit \/ RemoveAll
         \/ \E t \in Handlers : Unload(t)
         \/ \E t \in Tasks : \E r : GoesOn(t, r) \/ StartsAs(t, r)
<1>1. Handlers \subseteq Tasks /\ Savers \subseteq Tasks
  BY DEF Tasks
<1> QED BY <1>1, ProgressGoesOn, UserStarts, EventStarts DEF Next

LEMMA CallInvStep ==
  ASSUME IInv, CallInv, [Next]_vars
  PROVE  CallInv'
<1>1. CASE UNCHANGED vars
  BY <1>1 DEF vars, tab, CallInv, Shape, Called
<1>2. CASE Edit \/ RemoveAll
  <2>1. task' = task /\ UNCHANGED <<booted, active>> /\ HandsOn
    BY <1>2 DEF Edit, RemoveAll
  <2> QED BY <2>1 DEF CallInv, Called, Shape, HandsOn
<1>3. ASSUME NEW t \in Handlers, Unload(t) PROVE CallInv'
  BY <1>3, BootingCalls DEF Unload
<1> QED BY <1>1, <1>2, <1>3, StepKinds, CallInvMoves

LEMMA CallInvInit == Init => CallInv
<1> SUFFICES ASSUME Init PROVE CallInv
  OBVIOUS
<1>1. PICK h \in Handlers : task = Booting(h)
  BY DEF Init
<1>2. ASSUME NEW u \in Tasks PROVE task[u] = IF u = h THEN Call("boot", "bootRead") ELSE IdleTask
  BY <1>1 DEF Booting
<1>3. /\ Call("boot", "bootRead").op = "boot" /\ Call("boot", "bootRead").pc = "bootRead"
      /\ Call("boot", "bootRead").after = "idle"
  BY DEF Call, IdleTask
<1>4. Shape(Call("boot", "bootRead"))
  BY <1>3 DEF Shape, BootSteps
<1> QED BY <1>2, <1>3, <1>4, IdleShape DEF Init, CallInv, Called

-----------------------------------------------------------------------------
(* Whose work is stored: OwnInv. *)

(* One click handler at a time. *)
OneHandler == \A a, b \in Handlers : a = b

(* The user does not switch; nothing else is clicked while a session is    *)
(* being deleted, nor New while the boot restores one.  The user may edit  *)
(* and open files before the boot has ended.                               *)
NoSwitching ==
  /\ "switch" \notin Ops
  /\ OneHandler \/ ("delete" \notin Ops /\ ~({"early", "new"} \subseteq Ops))

Owned(c, s) == c # None => c.owners \subseteq {s}

(* What a task is about to write belongs to where it writes it, and what   *)
(* it restores to the session on screen.                                   *)
Own(r, current) ==
  /\ r.pc = "putSnapshot" => Owned(r.file, r.sid)
  /\ r.pc = "readSnapshot" => r.sid = current
  /\ r.pc \in Loading /\ r.op # "open" => Owned(r.file, current)

OwnInv ==
  /\ OwnSnapshotOnly
  /\ Owned(live, active)
  /\ \A t \in Tasks : Own(task[t], active)

(* Program points of tasks that OwnInv says something of.                  *)
Owning == {"putSnapshot", "readSnapshot"} \cup Loading

LEMMA OwnFree == ASSUME NEW r, r.pc \notin Owning PROVE Own(r, active')
BY DEF Own, Owning

(* When a task of a handler that moves the active session takes a step, no *)
(* other is restoring one.                                                 *)
LEMMA OwnMoves ==
  ASSUME NoSwitching, IInv, CallInv, OwnInv, NEW t \in Tasks, NEW r, Continue(t, r),
         r.pc # "idle" => Own(r, active'),
         OwnSnapshotOnly', Owned(live, active)',
         active' = active \/ task[t].op \in {"new", "delete", "boot"}
  PROVE  OwnInv'
<1>1. /\ task'[t] = IF r.pc = "idle" THEN IdleTask ELSE r
      /\ \A u \in Tasks : u # t => task'[u] = task[u]
  BY Continues
<1>2. Own(IdleTask, active')
  BY OwnFree DEF IdleTask, Owning, Loading
<1>3. ASSUME NEW u \in Tasks PROVE Own(task[u], active)'
  <2>1. CASE u = t /\ r.pc = "idle"
    BY <1>1, <1>2, <2>1 DEF Own
  <2>2. CASE u = t /\ r.pc # "idle"
    BY <1>1, <2>2 DEF Own
  <2>3. CASE u # t /\ active' = active
    BY <1>1, <2>3 DEF OwnInv, Own, Owned
  <2>4. CASE u # t /\ active' # active
    <3>1. task'[u] = task[u] /\ Own(task[u], active) /\ Called(u) /\ Called(t) /\ Shape(task[u])
      BY <1>1, <2>4 DEF OwnInv, CallInv
    <3>2. task[u].op # "switch" /\ task[t].op \in {"new", "delete", "boot"} /\ t \in Handlers
      BY <2>4, <3>1 DEF Called, NoSwitching
    <3>3. task[u].op # "delete"
      BY <2>4, <3>1, <3>2 DEF Called, NoSwitching, OneHandler
    <3>6. task[u].op # "boot"
      BY <2>4, <3>1, <3>2 DEF Called, NoSwitching, OneHandler
    <3>4. task[u] \in TaskRec
      BY DEF IInv, Running
    <3>5. task[u].pc \in Loading \cup {"readSnapshot"} => task[u].op = "open" /\ task[u].pc # "readSnapshot"
      BY <3>1, <3>2, <3>3, <3>4, <3>6
      DEF Shape, TaskRec, TaskOps, Persisting, BootSteps, Loading, Restoring, Deleting, Switching
    <3> QED BY <3>1, <3>5 DEF Own, Owned, Loading
  <2> QED BY <2>1, <2>2, <2>3, <2>4
<1> QED BY <1>3 DEF OwnInv

LEMMA OwnStays ==
  ASSUME NoSwitching, IInv, CallInv, OwnInv, NEW t \in Tasks, NEW r, Continue(t, r),
         r.pc \notin Owning, OwnSnapshotOnly', UNCHANGED <<active, live>>
  PROVE  OwnInv'
BY OwnMoves, OwnFree DEF OwnInv, Owned

LEMMA OwnGoto ==
  ASSUME NoSwitching, IInv, CallInv, OwnInv, NEW t \in Tasks, NEW pc, Goto(t, pc),
         pc \notin Owning, OwnSnapshotOnly', UNCHANGED <<active, live>>
  PROVE  OwnInv'
<1>1. [task[t] EXCEPT !.pc = pc].pc = pc
  BY DEF IInv, Running, TaskRec
<1> QED BY <1>1, OwnStays DEF Goto

LEMMA OwnReturn ==
  ASSUME NoSwitching, IInv, CallInv, OwnInv, NEW t \in Tasks, Return(t),
         OwnSnapshotOnly', UNCHANGED <<active, live>>
  PROVE  OwnInv'
<1>1. IdleTask.pc \notin Owning
  BY DEF IdleTask, Owning, Loading
<1> QED BY <1>1, OwnStays DEF Return

LEMMA OwnPersist ==
  ASSUME NoSwitching, IInv, CallInv, OwnInv, NEW t \in Tasks, PersistStep(t)
  PROVE  OwnInv'
<1>r. task[t] \in TaskRec
  BY DEF IInv, Running
<1>a. task[t].after \notin Owning
  BY <1>r DEF TaskRec, Owning, Loading
<1>p. ASSUME NEW pc \in Persisting \ {"putSnapshot"} PROVE pc \notin Owning
  BY DEF Persisting, Owning, Loading
<1>1. ASSUME snapshot' = snapshot PROVE OwnSnapshotOnly'
  BY <1>1 DEF OwnInv, OwnSnapshotOnly
<1>2. CASE PutSnapshot(t)
  <2>1. OwnSnapshotOnly'
    BY <1>2 DEF PutSnapshot, At, OwnInv, OwnSnapshotOnly, Own, Owned, IInv, Stored
  <2> QED BY <1>2, <1>p, <2>1, OwnGoto DEF PutSnapshot, Persisting, tab
<1>3. CASE SaveReadIndex(t)
  <2> DEFINE r == [task[t] EXCEPT !.pc = "saveWriteIndex", !.idx = index]
  <2>1. r.pc = "saveWriteIndex"
    BY <1>r DEF TaskRec
  <2>2. Continue(t, r) /\ UNCHANGED <<active, live, snapshot>>
    BY <1>3 DEF SaveReadIndex, tab, idb
  <2> HIDE DEF r
  <2> QED BY <1>1, <1>p, <2>1, <2>2, OwnStays DEF Persisting
<1>4. CASE SaveWriteIndex(t)
  <2> DEFINE r == [task[t] EXCEPT !.pc = "putResults", !.sid = active,
                                  !.idx = EmptyIndex, !.rows = live]
  <2>1. r.pc = "putResults"
    BY <1>r DEF TaskRec
  <2>2. Continue(t, r) \/ Goto(t, task[t].after)
    BY <1>4 DEF SaveWriteIndex
  <2>3. UNCHANGED <<active, live, snapshot>>
    BY <1>4 DEF SaveWriteIndex
  <2> HIDE DEF r
  <2> QED BY <1>1, <1>a, <1>p, <2>1, <2>2, <2>3, OwnStays, OwnGoto DEF Persisting
<1>5. CASE PutResults(t)
  BY <1>1, <1>5, <1>a, OwnGoto DEF PutResults
<1>6. CASE ClearSnapshot(t)
  <2> DEFINE r == [task[t] EXCEPT !.pc = "clearResults", !.sid = active]
  <2>1. r.pc = "clearResults"
    BY <1>r DEF TaskRec
  <2>2. Continue(t, r) \/ Goto(t, task[t].after)
    BY <1>6 DEF ClearSnapshot
  <2>3. UNCHANGED <<active, live>>
    BY <1>6 DEF ClearSnapshot, tab
  <2>4. OwnSnapshotOnly'
    BY <1>6 DEF ClearSnapshot, OwnInv, OwnSnapshotOnly, IInv, Stored
  <2> HIDE DEF r
  <2> QED BY <1>a, <1>p, <2>1, <2>2, <2>3, <2>4, OwnStays, OwnGoto DEF Persisting
<1>7. CASE ClearResults(t)
  BY <1>1, <1>7, <1>a, OwnGoto DEF ClearResults, tab
<1>8. CASE PersistFails(t)
  <2> DEFINE r == [task[t] EXCEPT !.pc = task[t].after, !.file = None]
  <2>1. r.pc = task[t].after
    BY <1>r DEF TaskRec
  <2>2. Continue(t, r)
    BY <1>8 DEF PersistFails
  <2>3. UNCHANGED <<active, live, snapshot>>
    BY <1>8 DEF PersistFails, idb
  <2> HIDE DEF r
  <2> QED BY <1>1, <1>a, <2>1, <2>2, <2>3, OwnStays
<1> QED BY <1>2, <1>3, <1>4, <1>5, <1>6, <1>7, <1>8 DEF PersistStep

LEMMA OwnHandler ==
  ASSUME NoSwitching, IInv, CallInv, OwnInv, NEW t \in Tasks, HandlerStep(t)
  PROVE  OwnInv'
<1>r. task[t] \in TaskRec /\ Shape(task[t]) /\ Called(t)
  BY DEF IInv, Running, CallInv
<1>n. task[t].op # "switch"
  BY <1>r DEF Called, NoSwitching
<1>1. ASSUME snapshot' = snapshot PROVE OwnSnapshotOnly'
  BY <1>1 DEF OwnInv, OwnSnapshotOnly
<1>l. Owned(None, active)'
  BY DEF Owned
<1>s. ASSUME NEW r, Continue(t, r), r.pc \in Switching \cup Deleting \cup
               {"createRead", "createWrite", "renameWrite", "drop", "idle"},
             UNCHANGED <<active, live, snapshot>>
      PROVE  OwnInv'
  BY <1>1, <1>s, OwnStays DEF Owning, Loading, Switching, Deleting
<1>2. CASE NewDropped(t)
  <2>1. Owned(live, active)'
    <3>1. live \in Record /\ Owned(live, active)
      BY DEF OwnInv, IInv, OnTab
    <3>2. CASE live = None
      BY <1>2, <3>2 DEF NewDropped, WithoutStores, Owned
    <3>3. CASE live # None
      <4>1. live' = [live EXCEPT !.stores = FALSE] /\ active' = active /\ live \in Content
        BY <1>2, <3>1, <3>3 DEF NewDropped, WithoutStores, Record
      <4>2. live'.owners = live.owners
        BY <4>1 DEF Content
      <4> QED BY <3>1, <3>3, <4>1, <4>2 DEF Owned
    <3> QED BY <3>2, <3>3
  <2> DEFINE r == [task[t] EXCEPT !.pc = "createRead"]
  <2>2. r.pc = "createRead"
    BY <1>r DEF TaskRec
  <2>3. Continue(t, r) /\ active' = active /\ snapshot' = snapshot
    BY <1>2 DEF NewDropped, Goto, idb
  <2> HIDE DEF r
  <2>4. Own(r, active')
    BY <2>2, OwnFree DEF Owning, Loading
  <2> QED BY <1>1, <2>1, <2>2, <2>3, <2>4, OwnMoves
<1>3. CASE CreateRead(t)
  <2>1. PICK id : Continue(t, [task[t] EXCEPT !.pc = "createWrite", !.id = id, !.idx = index])
    BY <1>3 DEF CreateRead
  <2> DEFINE r == [task[t] EXCEPT !.pc = "createWrite", !.id = id, !.idx = index]
  <2>2. r.pc = "createWrite"
    BY <1>r DEF TaskRec
  <2>3. Continue(t, r) /\ UNCHANGED <<active, live, snapshot>>
    BY <1>3, <2>1 DEF CreateRead, tab, idb
  <2> HIDE DEF r
  <2> QED BY <1>s, <2>2, <2>3
<1>4. CASE CreateWrite(t)
  <2>1. task[t].op = "new"
    BY <1>r, <1>4 DEF CreateWrite, At, Shape, TaskRec, TaskOps, Persisting, BootSteps, Restoring,
       Loading, Deleting, Switching
  <2>2. Continue(t, IdleTask) /\ live' = None /\ snapshot' = snapshot
    BY <1>4 DEF CreateWrite, Return
  <2>3. IdleTask.pc = "idle"
    BY DEF IdleTask
  <2> QED BY <1>1, <1>l, <2>1, <2>2, <2>3, OwnMoves DEF Owned
<1>5. CASE SetActiveRead(t) \/ SetActiveWrite(t) \/ SwitchRead(t) \/ SwitchDropped(t)
  BY <1>n, <1>5, <1>r DEF SetActiveRead, SetActiveWrite, SwitchRead, SwitchDropped, At, Shape,
     TaskRec, TaskOps, Persisting, BootSteps, Restoring, Loading, Deleting, Switching
<1>6. CASE RenameRead(t)
  <2> DEFINE r == [task[t] EXCEPT !.pc = "renameWrite", !.idx = index]
  <2>1. r.pc = "renameWrite"
    BY <1>r DEF TaskRec
  <2>2. Continue(t, r) /\ UNCHANGED <<active, live, snapshot>>
    BY <1>6 DEF RenameRead, tab, idb
  <2> HIDE DEF r
  <2> QED BY <1>s, <2>1, <2>2
<1>7. CASE RenameWrite(t)
  BY <1>1, <1>7, OwnReturn DEF RenameWrite, tab
<1>8. CASE DeleteCheck(t)
  <2> DEFINE r == [task[t] EXCEPT !.pc = "deleteRead", !.was = (active = task[t].id)]
  <2>1. r.pc = "deleteRead"
    BY <1>r DEF TaskRec
  <2>2. (Continue(t, r) \/ Return(t)) /\ UNCHANGED <<active, live, snapshot>>
    BY <1>8 DEF DeleteCheck, tab, idb
  <2> HIDE DEF r
  <2> QED BY <1>1, <1>s, <2>1, <2>2, OwnReturn DEF Deleting
<1>9. CASE DeleteRead(t)
  <2> DEFINE r == [task[t] EXCEPT !.pc = "deleteArtifacts", !.idx = index]
  <2>1. r.pc = "deleteArtifacts"
    BY <1>r DEF TaskRec
  <2>2. (Continue(t, r) \/ Return(t)) /\ UNCHANGED <<active, live, snapshot>>
    BY <1>9 DEF DeleteRead, tab, idb
  <2> HIDE DEF r
  <2> QED BY <1>1, <1>s, <2>1, <2>2, OwnReturn DEF Deleting
<1>10. ASSUME NEW id, NEW next, ClearSessionArtifacts(t, id, next) PROVE OwnSnapshotOnly'
  BY <1>10 DEF ClearSessionArtifacts, OwnInv, OwnSnapshotOnly, IInv, Stored
<1>11. CASE DeleteArtifacts(t)
  <2>1. OwnSnapshotOnly' /\ UNCHANGED <<active, live>>
    BY <1>10, <1>11 DEF DeleteArtifacts, tab
  <2>2. Goto(t, "deleteWrite") \/ Return(t)
    BY <1>11 DEF DeleteArtifacts, ClearSessionArtifacts
  <2> QED BY <2>1, <2>2, OwnGoto, OwnReturn DEF Owning, Loading
<1>12. CASE DeleteWrite(t)
  <2>1. (Goto(t, "deleteNext") \/ Return(t)) /\ UNCHANGED <<active, live, snapshot>>
    BY <1>12 DEF DeleteWrite, tab
  <2> QED BY <1>1, <2>1, OwnGoto, OwnReturn DEF Owning, Loading
<1>13. CASE DeleteNext(t)
  <2> DEFINE r == [task[t] EXCEPT !.pc = "drop", !.sid = index.active]
  <2>1. r.pc = "drop"
    BY <1>r DEF TaskRec
  <2>2. (Continue(t, r) \/ Return(t)) /\ UNCHANGED <<active, live, snapshot>>
    BY <1>13 DEF DeleteNext, tab, idb
  <2> HIDE DEF r
  <2> QED BY <1>1, <1>s, <2>1, <2>2, OwnReturn
<1>14. CASE DeleteDropped(t)
  <2> DEFINE r == Call("delete", "loadSettings")
  <2>1. r.pc = "loadSettings"
    BY DEF IdleTask, Call
  <2>2. Continue(t, r) /\ task[t].op = "delete"
    BY <1>14 DEF DeleteDropped, Restore
  <2>3. live' = None /\ active' = task[t].sid /\ snapshot' = snapshot
    BY <1>14 DEF DeleteDropped, idb
  <2> HIDE DEF r
  <2>4. Own(r, active')
    BY <2>1, OwnFree DEF Owning, Loading
  <2> QED BY <1>1, <1>l, <2>2, <2>3, <2>4, OwnMoves DEF Owned
<1>15. CASE FreshRead(t)
  BY <1>1, <1>15, OwnGoto DEF FreshRead, Owning, Loading, tab, idb
<1>16. CASE FreshArtifacts(t)
  <2>1. OwnSnapshotOnly' /\ UNCHANGED <<active, live>>
    BY <1>10, <1>16 DEF FreshArtifacts, tab
  <2>2. Goto(t, "reload") \/ Return(t)
    BY <1>16 DEF FreshArtifacts, ClearSessionArtifacts
  <2> QED BY <2>1, <2>2, OwnGoto, OwnReturn DEF Owning, Loading
<1> QED BY <1>2, <1>3, <1>4, <1>5, <1>6, <1>7, <1>8, <1>9, <1>11, <1>12, <1>13, <1>14, <1>15, <1>16
        DEF HandlerStep

(* What comes back beside what is on screen belongs to the same session.   *)
LEMMA OwnJoined ==
  ASSUME live \in Record, NEW c \in Content, NEW s, Owned(live, s), Owned(c, s),
         NEW b \in BroughtBack(c), NEW j \in Joined(b)
  PROVE  Owned(j, s)
<1>1. b = None \/ (b \in Content /\ Owned(b, s))
  BY ContentAssumption DEF BroughtBack, Part, Content, Owned
<1>2. CASE live = None
  BY <1>1, <1>2 DEF Joined, Owned
<1>3. CASE live # None /\ b = None
  BY <1>3 DEF Joined, Owned
<1>4. CASE live # None /\ b # None
  <2> DEFINE both == [b EXCEPT !.owners = @ \cup live.owners, !.rev = live.rev]
  <2>1. b \in Content /\ b.owners \subseteq {s} /\ live.owners \subseteq {s}
    BY <1>1, <1>4 DEF Owned
  <2>2. both.owners = b.owners \cup live.owners
    BY <2>1 DEF Content
  <2>3. j = b \/ j = both
    BY <1>4 DEF Joined
  <2> HIDE DEF both
  <2> QED BY <2>1, <2>2, <2>3 DEF Owned
<1> QED BY <1>2, <1>3, <1>4

LEMMA OwnRestore ==
  ASSUME NoSwitching, IInv, CallInv, OwnInv, NEW t \in Tasks, RestoreStep(t)
  PROVE  OwnInv'
<1>r. task[t] \in TaskRec /\ Own(task[t], active)
  BY DEF IInv, Running, OwnInv
<1>1. ASSUME snapshot' = snapshot PROVE OwnSnapshotOnly'
  BY <1>1 DEF OwnInv, OwnSnapshotOnly
<1>s. CASE LoadSettings(t)
  <2> DEFINE r == [Call(task[t].op, "readSnapshot") EXCEPT !.sid = active]
  <2>1. r.pc = "readSnapshot" /\ r.sid = active
    BY DEF Call, IdleTask
  <2>2. (Continue(t, r) \/ Return(t)) /\ UNCHANGED <<active, live, snapshot>>
    BY <1>s DEF LoadSettings, idb
  <2> HIDE DEF r
  <2>3. Own(r, active') /\ Owned(live, active)'
    BY <2>1, <2>2 DEF Own, Loading, OwnInv, Owned
  <2> QED BY <1>1, <2>2, <2>3, OwnMoves, OwnReturn
<1>f. CASE LoadFails(t)
  BY <1>1, <1>f, OwnReturn DEF LoadFails, idb
<1>2. CASE ReadSnapshot(t)
  <2> DEFINE r == [task[t] EXCEPT !.pc = "applyWait", !.file = snapshot[task[t].sid]]
  <2>1. r.pc = "applyWait" /\ r.file = snapshot[task[t].sid]
    BY <1>r DEF TaskRec
  <2>2. Continue(t, r) \/ Return(t)
    BY <1>2 DEF ReadSnapshot
  <2>3. UNCHANGED <<active, live, snapshot>>
    BY <1>2 DEF ReadSnapshot, idb
  <2>4. task[t].sid = active /\ task[t].sid \in SessionIds
    BY <1>2, <1>r DEF ReadSnapshot, At, Own, IInv, Running, Sound
  <2> HIDE DEF r
  <2>5. Own(r, active')
    BY <2>1, <2>3, <2>4 DEF Own, OwnInv, OwnSnapshotOnly, Owned
  <2>6. Owned(live, active)'
    BY <2>3 DEF OwnInv, Owned
  <2> QED BY <1>1, <2>2, <2>3, <2>5, <2>6, OwnMoves, OwnReturn
<1>3. ASSUME NEW pc \in Loading, task[t].pc \in Loading, Goto(t, pc), live' \in {None, live},
             UNCHANGED <<active, snapshot>>
      PROVE  OwnInv'
  <2> DEFINE r == [task[t] EXCEPT !.pc = pc]
  <2>1. r.pc = pc /\ r.file = task[t].file /\ r.op = task[t].op
    BY <1>r DEF TaskRec
  <2>2. Continue(t, r)
    BY <1>3 DEF Goto
  <2> HIDE DEF r
  <2>3. Own(r, active')
    BY <1>3, <1>r, <2>1 DEF Own, Loading, Owned
  <2>4. Owned(live, active)'
    BY <1>3 DEF OwnInv, Owned
  <2> QED BY <1>1, <1>3, <2>2, <2>3, <2>4, OwnMoves
<1>4. CASE ApplyStart(t)
  BY <1>3, <1>4 DEF ApplyStart, At, Loading, idb
<1>5. CASE ApplyDropped(t)
  BY <1>3, <1>5 DEF ApplyDropped, At, Loading, idb
<1>6. CASE ApplyRestored(t)
  <2> DEFINE r == [Call(task[t].op, "readResults") EXCEPT !.sid = active]
  <2>1. r.pc = "readResults"
    BY DEF Call, IdleTask
  <2>2. Continue(t, r) \/ Return(t)
    BY <1>6 DEF ApplyRestored
  <2>3. /\ active' = active /\ snapshot' = snapshot /\ task[t].pc = "applyMount"
        /\ task[t].op # "open" /\ task[t].file \in Content
        /\ \E c \in BroughtBack(task[t].file) : live' \in Joined(c)
    BY <1>6 DEF ApplyRestored, At, idb, IInv, Running, Sound, Loading
  <2>4. Owned(live, active)'
    BY <1>r, <2>3, OwnJoined DEF Own, Loading, OwnInv, IInv, OnTab
  <2> HIDE DEF r
  <2>5. Own(r, active') /\ Own(IdleTask, active')
    BY <2>1, OwnFree DEF IdleTask, Owning, Loading
  <2> QED BY <1>1, <2>2, <2>3, <2>4, <2>5, OwnMoves DEF Return
<1>7. CASE ApplyOpened(t)
  <2> DEFINE f == [task[t].file EXCEPT !.owners = Here]
             opened == live'
             r == [Call("open", "putSnapshot") EXCEPT !.sid = active, !.file = opened]
  <2>1. r.pc = "putSnapshot" /\ r.sid = active /\ r.file = opened
    BY DEF Call, IdleTask
  <2>2. Continue(t, r) \/ Return(t)
    BY <1>7 DEF ApplyOpened
  <2>3. /\ active' = active /\ snapshot' = snapshot /\ task[t].file \in Content
        /\ \E c \in BroughtBack(f) : opened \in Joined(c)
    BY <1>7 DEF ApplyOpened, At, idb, IInv, Running, Sound, Loading
  <2>4. f \in Content /\ Owned(f, active) /\ live \in Record /\ Owned(live, active)
    BY <2>3 DEF Content, Here, Owned, OwnInv, IInv, OnTab
  <2> HIDE DEF f
  <2>5. Owned(opened, active)
    BY <2>3, <2>4, OwnJoined
  <2>6. Owned(live, active)'
    BY <2>3, <2>5
  <2> HIDE DEF r, opened
  <2>7. Own(r, active') /\ Own(IdleTask, active')
    BY <2>1, <2>3, <2>5, OwnFree DEF IdleTask, Own, Owned, Owning, Loading
  <2> QED BY <1>1, <2>2, <2>3, <2>6, <2>7, OwnMoves DEF Return
<1>8. CASE ReadResults(t)
  BY <1>1, <1>8, OwnReturn DEF ReadResults, idb
<1> QED BY <1>s, <1>f, <1>2, <1>4, <1>5, <1>6, <1>7, <1>8 DEF RestoreStep

LEMMA OwnBoot ==
  ASSUME NoSwitching, IInv, CallInv, OwnInv, NEW t \in Tasks, BootStep(t)
  PROVE  OwnInv'
<1>r. task[t] \in TaskRec /\ Shape(task[t]) /\ Called(t)
  BY DEF IInv, Running, CallInv
<1>0. task[t].op = "boot" /\ task[t].pc \in BootSteps
  BY <1>r DEF BootStep, BootRead, BootLegacy, BootPut, BootForget, BootWrite, At, Shape, TaskRec,
     TaskOps, Persisting, BootSteps, Restoring, Loading, Deleting, Switching
<1>1. ASSUME snapshot' = snapshot PROVE OwnSnapshotOnly'
  BY <1>1 DEF OwnInv, OwnSnapshotOnly
<1>2. Owned(live, active)'
  <2>1. live' = live /\ active = None /\ live \in Record /\ Owned(live, None)
    BY <1>r, <1>0 DEF Called, BootStep, BootRead, BootLegacy, BootPut, BootForget, BootWrite,
       tab, OwnInv, IInv, OnTab
  <2>2. live # None => live.owners \subseteq SessionIds
    BY <2>1 DEF Record, Content
  <2> QED BY <2>1, <2>2, NoneAssumption DEF Owned
<1>3. ASSUME NEW r, Continue(t, r), OwnSnapshotOnly', r.pc # "idle" => Own(r, active') PROVE OwnInv'
  BY <1>0, <1>2, <1>3, OwnMoves
<1>4. ASSUME NEW pc \in BootSteps, Goto(t, pc), OwnSnapshotOnly' PROVE OwnInv'
  <2> DEFINE r == [task[t] EXCEPT !.pc = pc]
  <2>1. r.pc = pc /\ Continue(t, r)
    BY <1>r, <1>4 DEF TaskRec, Goto
  <2> HIDE DEF r
  <2> QED BY <1>3, <1>4, <2>1, OwnFree DEF Owning, Loading, BootSteps
<1>5. ASSUME Restore(t), snapshot' = snapshot PROVE OwnInv'
  <2> DEFINE r == Call(task[t].op, "loadSettings")
  <2>1. r.pc = "loadSettings"
    BY DEF IdleTask, Call
  <2>2. Continue(t, r)
    BY <1>5 DEF Restore
  <2> HIDE DEF r
  <2> QED BY <1>1, <1>3, <1>5, <2>1, <2>2, OwnFree DEF Owning, Loading
<1>6. CASE BootRead(t)
  <2>1. snapshot' = snapshot
    BY <1>6 DEF BootRead, idb
  <2>2. CASE Goto(t, "bootLegacy")
    BY <1>1, <1>4, <2>1, <2>2 DEF BootSteps
  <2>3. CASE Restore(t)
    BY <1>5, <2>1, <2>3
  <2>4. ASSUME NEW first,
               Continue(t, [task[t] EXCEPT !.pc = "bootWrite", !.id = first,
                                           !.idx = [index EXCEPT !.active = first]])
        PROVE  OwnInv'
    <3> DEFINE r == [task[t] EXCEPT !.pc = "bootWrite", !.id = first,
                                    !.idx = [index EXCEPT !.active = first]]
    <3>1. r.pc = "bootWrite" /\ Continue(t, r)
      BY <1>r, <2>4 DEF TaskRec
    <3> HIDE DEF r
    <3> QED BY <1>1, <1>3, <2>1, <3>1, OwnFree DEF Owning, Loading
  <2> QED BY <1>6, <2>2, <2>3, <2>4 DEF BootRead
<1>7. CASE BootLegacy(t)
  <2>1. PICK id : Continue(t, [task[t] EXCEPT
                         !.pc = IF legacy THEN "bootPut" ELSE "bootWrite",
                         !.id = id,
                         !.idx = [active |-> id, sessions |-> {id}]])
    BY <1>7 DEF BootLegacy
  <2> DEFINE r == [task[t] EXCEPT
                         !.pc = IF legacy THEN "bootPut" ELSE "bootWrite",
                         !.id = id,
                         !.idx = [active |-> id, sessions |-> {id}]]
  <2>2. r.pc \in BootSteps /\ Continue(t, r)
    BY <1>r, <2>1 DEF TaskRec, BootSteps
  <2>3. snapshot' = snapshot
    BY <1>7 DEF BootLegacy, idb
  <2> HIDE DEF r
  <2> QED BY <1>1, <1>3, <2>2, <2>3, OwnFree DEF Owning, Loading, BootSteps
<1>8. CASE BootPut(t)
  <2>1. OwnSnapshotOnly'
    BY <1>8 DEF BootPut, Work, OwnInv, OwnSnapshotOnly, IInv, Stored
  <2> QED BY <1>4, <1>8, <2>1 DEF BootPut, BootSteps
<1>9. CASE BootForget(t)
  BY <1>1, <1>4, <1>9 DEF BootForget, BootSteps
<1>10. CASE BootWrite(t)
  BY <1>5, <1>10 DEF BootWrite
<1> QED BY <1>6, <1>7, <1>8, <1>9, <1>10 DEF BootStep

(* A call of persistSnapshot by a task that starts. *)
LEMMA OwnSaves ==
  ASSUME NoSwitching, IInv, CallInv, OwnInv, NEW t \in Tasks, NEW caller \in TaskRec,
         PersistSnapshot(t, caller), UNCHANGED <<snapshot, active, live>>
  PROVE  OwnInv'
<1> DEFINE back  == [caller EXCEPT !.pc = caller.after]
           clear == [caller EXCEPT !.pc = "clearSnapshot", !.sid = active]
           put   == [caller EXCEPT !.pc = "putSnapshot", !.sid = active,
                                   !.file = live]
<1>1. Continue(t, back) \/ Continue(t, clear) \/ Continue(t, put)
  BY DEF PersistSnapshot
<1>2. /\ back.pc = caller.after /\ clear.pc = "clearSnapshot"
      /\ put.pc = "putSnapshot" /\ put.sid = active /\ put.file = live
  BY DEF TaskRec
<1>3. caller.after \in {"idle", "setActiveRead", "drop"}
  BY DEF TaskRec
<1> HIDE DEF back, clear, put
<1>4. OwnSnapshotOnly' /\ Owned(live, active)'
  BY DEF OwnInv, OwnSnapshotOnly, Owned
<1>5. Own(put, active')
  BY <1>2, <1>4 DEF Own, Loading, Owned
<1>6. Own(back, active') /\ Own(clear, active')
  BY <1>2, <1>3, OwnFree DEF Owning, Loading
<1> QED BY <1>1, <1>4, <1>5, <1>6, OwnMoves

LEMMA OwnStarts ==
  ASSUME NoSwitching, IInv, CallInv, OwnInv, NEW t \in Tasks,
         UserStep(t) \/ TimerFires(t) \/ PageHide(t)
  PROVE  OwnInv'
<1>1. ASSUME snapshot' = snapshot PROVE OwnSnapshotOnly'
  BY <1>1 DEF OwnInv, OwnSnapshotOnly
<1>2. ASSUME NEW op, NEW pc, NEW r, Continue(t, r), r.op = op, r.pc = pc,
             pc \notin Owning \/ (op = "open" /\ pc = "applyWait"),
             UNCHANGED <<active, live, snapshot>>
      PROVE  OwnInv'
  <2>1. Own(r, active')
    BY <1>2 DEF Own, Owning, Loading
  <2>2. Owned(live, active)'
    BY <1>2 DEF OwnInv, Owned
  <2> QED BY <1>1, <1>2, <2>1, <2>2, OwnMoves
<1>3. CASE TimerFires(t) \/ PageHide(t)
  <2>1. Call("save", "idle") \in TaskRec
    BY CallType DEF TaskOps, Steps
  <2> QED BY <1>3, <2>1, OwnSaves DEF TimerFires, PageHide, idb
<1>4. CASE NewSession(t)
  <2>1. [Call("new", "idle") EXCEPT !.after = "drop"] \in TaskRec
    BY CallType DEF TaskOps, TaskRec, Steps
  <2> QED BY <1>4, <2>1, OwnSaves DEF NewSession, idb
<1>5. CASE SwitchSession(t)
  BY <1>5 DEF SwitchSession, Clicks, NoSwitching
<1>6. CASE RenameSession(t)
  <2>1. Call("rename", "renameRead").op = "rename" /\ Call("rename", "renameRead").pc = "renameRead"
    BY DEF Call, IdleTask
  <2> QED BY <1>2, <1>6, <2>1 DEF RenameSession, Owning, Loading, tab, idb
<1>7. CASE DeleteSession(t)
  <2>1. PICK id : Continue(t, [Call("delete", "deleteCheck") EXCEPT !.id = id])
    BY <1>7 DEF DeleteSession
  <2> DEFINE r == [Call("delete", "deleteCheck") EXCEPT !.id = id]
  <2>2. r.op = "delete" /\ r.pc = "deleteCheck"
    BY DEF Call, IdleTask
  <2> HIDE DEF r
  <2> QED BY <1>2, <1>7, <2>1, <2>2 DEF r, DeleteSession, Owning, Loading, tab, idb
<1>8. CASE StartFresh(t)
  <2> DEFINE r == [Call("fresh", "freshRead") EXCEPT !.id = active]
  <2>1. r.op = "fresh" /\ r.pc = "freshRead"
    BY DEF Call, IdleTask
  <2>2. Continue(t, r) /\ UNCHANGED <<active, live, snapshot>>
    BY <1>8 DEF StartFresh, tab, idb
  <2> HIDE DEF r
  <2> QED BY <1>2, <2>1, <2>2 DEF Owning, Loading
<1>9. CASE OpenFile(t)
  <2> DEFINE r == [Call("open", "applyWait") EXCEPT
                    !.file = Work({}, rev + 1)]
  <2>1. r.op = "open" /\ r.pc = "applyWait"
    BY DEF Call, IdleTask
  <2>2. Continue(t, r) /\ UNCHANGED <<active, live, snapshot>>
    BY <1>9 DEF OpenFile, tab, idb
  <2> HIDE DEF r
  <2> QED BY <1>2, <2>1, <2>2
<1> QED BY <1>3, <1>4, <1>5, <1>6, <1>7, <1>8, <1>9 DEF UserStep

LEMMA OwnStep ==
  ASSUME NoSwitching
  PROVE  IInv /\ CallInv /\ OwnInv /\ [Next]_vars => OwnInv'
<1> SUFFICES ASSUME IInv, CallInv, OwnInv, [Next]_vars PROVE OwnInv'
  OBVIOUS
<1>1. CASE UNCHANGED vars
  BY <1>1 DEF vars, idb, tab, OwnInv, OwnSnapshotOnly, Own, Owned
<1>2. CASE Edit \/ RemoveAll
  <2>1. UNCHANGED <<snapshot, active, task>>
    BY <1>2 DEF Edit, RemoveAll, idb
  <2>2. Owned(live, active)'
    <3>1. live \in Record /\ Owned(live, active) /\ Here \subseteq {active}
      BY DEF OwnInv, IInv, OnTab, Here
    <3>2. CASE live' = None
      BY <3>2 DEF Owned
    <3>3. CASE live' = Work(Here, rev + 1)
      BY <2>1, <3>1, <3>3 DEF Owned, Work
    <3>4. CASE live # None /\ live' = [live EXCEPT !.rev = rev + 1, !.owners = @ \cup Here]
      <4>1. live \in Content
        BY <3>1, <3>4 DEF Record
      <4>2. live'.owners = live.owners \cup Here
        BY <3>4, <4>1 DEF Content
      <4> QED BY <2>1, <3>1, <3>4, <4>2 DEF Owned
    <3> QED BY <1>2, <3>2, <3>3, <3>4 DEF Edit, RemoveAll
  <2> QED BY <2>1, <2>2 DEF OwnInv, OwnSnapshotOnly, Own, Owned
<1>3. ASSUME NEW t \in Handlers, Unload(t) PROVE OwnInv'
  <2>1. ASSUME NEW u \in Tasks PROVE task'[u].pc \notin Owning
    BY <1>3 DEF Unload, Booting, Call, IdleTask, Owning, Loading
  <2>2. OwnSnapshotOnly' /\ Owned(live, active)'
    BY <1>3 DEF Unload, idb, OwnInv, OwnSnapshotOnly, Owned
  <2> QED BY <2>1, <2>2 DEF OwnInv, Own, Owning
<1>4. Handlers \subseteq Tasks /\ Savers \subseteq Tasks
  BY DEF Tasks
<1> QED BY <1>1, <1>2, <1>3, <1>4, OwnPersist, OwnHandler, OwnRestore, OwnBoot, OwnStarts
        DEF Next, Progress

LEMMA OwnInit == Init => OwnInv
<1> SUFFICES ASSUME Init PROVE OwnInv
  OBVIOUS
<1>1. \A t \in Tasks : task[t].pc \notin Owning
  BY DEF Init, Booting, Call, IdleTask, Owning, Loading
<1> QED BY <1>1 DEF Init, Work, OwnInv, OwnSnapshotOnly, Own, Owned, Owning

LEMMA SpecCalls == Spec => [](IInv /\ CallInv)
<1>1. IInv /\ CallInv /\ [Next]_vars => (IInv /\ CallInv)'
  BY NextInv, CallInvStep
<1> QED BY <1>1, InitInv, CallInvInit, PTL DEF Spec

(* What is stored for a session was made in it: no save that is in flight  *)
(* when New session, a boot or a deletion changes the session on screen    *)
(* writes into the session it changes to, and no restore puts the work of  *)
(* one session on screen as another, whatever is mounted, edited or opened *)
(* meanwhile.  It takes that the user does not switch                      *)
(* (Sessions_wrong_session), does not click New before the boot has ended  *)
(* (Sessions_early), and clicks nothing else while a session is being      *)
(* deleted.                                                                *)
THEOREM SnapshotsAreOwn ==
  ASSUME NoSwitching
  PROVE  Spec => []OwnSnapshotOnly
<1>1. IInv /\ CallInv /\ OwnInv /\ [Next]_vars => OwnInv'
  BY OwnStep
<1>2. OwnInv => OwnSnapshotOnly
  BY DEF OwnInv
<1> QED BY <1>1, <1>2, OwnInit, SpecCalls, PTL DEF Spec

-----------------------------------------------------------------------------
(* The queue of IndexedDB requests. *)

(* The queue holds the tasks that await a request, each once.              *)
QueueInv ==
  /\ \A i \in DOMAIN queue : task[queue[i]].pc \in IdbSteps
  /\ \A i, j \in DOMAIN queue : queue[i] = queue[j] => i = j
  /\ \A t \in Tasks : task[t].pc \in IdbSteps => \E i \in DOMAIN queue : queue[i] = t

(* u made its request after t made the one that is pending.                *)
Behind(t, u) ==
  \E i, j \in DOMAIN queue : i < j /\ queue[i] = t /\ queue[j] = u

Served(t) == task[t].pc \in IdbSteps => queue # <<>> /\ Head(queue) = t

LEMMA ProgressServed ==
  ASSUME NEW t \in Tasks, Progress(t) PROVE Served(t)
<1>1. ASSUME NEW pc, At(t, pc) PROVE Served(t)
  BY <1>1 DEF At, Served
<1>2. CASE PersistStep(t)
  BY <1>1, <1>2 DEF PersistStep, PutSnapshot, SaveReadIndex, SaveWriteIndex, PutResults,
     ClearSnapshot, ClearResults, PersistFails
<1>3. CASE HandlerStep(t)
  BY <1>1, <1>3 DEF HandlerStep, NewDropped, CreateRead, CreateWrite, SetActiveRead,
     SetActiveWrite, SwitchRead, SwitchDropped, RenameRead, RenameWrite, DeleteCheck, DeleteRead,
     DeleteArtifacts, DeleteWrite, DeleteNext, DeleteDropped, FreshRead, FreshArtifacts
<1>4. CASE RestoreStep(t)
  BY <1>1, <1>4 DEF RestoreStep, LoadSettings, ReadSnapshot, ApplyStart, ApplyDropped,
     ApplyRestored, ApplyOpened, LoadFails, ReadResults
<1>5. CASE BootStep(t)
  BY <1>1, <1>5 DEF BootStep, BootRead, BootLegacy, BootPut, BootForget, BootWrite
<1> QED BY <1>2, <1>3, <1>4, <1>5 DEF Progress

LEMMA IdleNotQueued == "idle" \notin IdbSteps
BY DEF IdbSteps, Reads, Writes

(* How a step of t that continues as r changes the queue: its first d      *)
(* elements go, which is t itself when it had a request, n stay, and t     *)
(* joins the end when it makes another.                                    *)
QueueMove(t, r, d, n) ==
  /\ d \in {0, 1} /\ n \in Nat
  /\ Len(queue) = n + d
  /\ DOMAIN queue' = IF r.pc \in IdbSteps THEN 1..(n + 1) ELSE 1..n
  /\ \A i \in 1..n : queue'[i] = queue[i + d] /\ queue'[i] # t
  /\ r.pc \in IdbSteps => queue'[n + 1] = t
  /\ (d = 1) <=> (task[t].pc \in IdbSteps)
  /\ (d = 1) => (queue[1] = t)

LEMMA QueueIsSeq ==
  ASSUME IInv
  PROVE  queue \in Seq(Tasks) /\ DOMAIN queue = 1..Len(queue) /\ Len(queue) \in Nat
BY LenProperties DEF IInv, Running

LEMMA QueueMoves ==
  ASSUME IInv, QueueInv, NEW t \in Tasks, NEW r, Continue(t, r), Served(t)
  PROVE  \E d, n : QueueMove(t, r, d, n)
<1> DEFINE rest == IF task[t].pc \in IdbSteps THEN Tail(queue) ELSE queue
<1>0. queue \in Seq(Tasks) /\ DOMAIN queue = 1..Len(queue) /\ Len(queue) \in Nat
  BY QueueIsSeq
<1>1. queue' = IF r.pc \in IdbSteps THEN Append(rest, t) ELSE rest
  BY DEF Continue
<1>2. ASSUME NEW d \in {0, 1}, NEW n \in Nat, Len(queue) = n + d,
             (d = 1) <=> (task[t].pc \in IdbSteps), (d = 1) => (queue[1] = t),
             rest \in Seq(Tasks), Len(rest) = n,
             \A i \in 1..n : rest[i] = queue[i + d] /\ queue[i + d] # t
      PROVE  QueueMove(t, r, d, n)
  <2> HIDE DEF rest
  <2>1. DOMAIN rest = 1..n
    BY <1>2, LenProperties
  <2>2. CASE r.pc \in IdbSteps
    <3>1. queue' = Append(rest, t)
      BY <1>1, <2>2
    <3>2. /\ Len(queue') = n + 1 /\ queue' \in Seq(Tasks)
          /\ \A i \in 1..n : queue'[i] = rest[i]
          /\ queue'[n + 1] = t
      BY <1>2, <3>1, AppendProperties
    <3>3. DOMAIN queue' = 1..(n + 1)
      BY <3>2, LenProperties
    <3> QED BY <1>2, <2>2, <3>2, <3>3 DEF QueueMove
  <2>3. CASE r.pc \notin IdbSteps
    BY <1>1, <1>2, <2>1, <2>3 DEF QueueMove
  <2> QED BY <2>2, <2>3
<1>3. CASE task[t].pc \in IdbSteps
  <2>1. queue # <<>> /\ Head(queue) = t
    BY <1>3 DEF Served
  <2>2. Len(queue) \in Nat \ {0} /\ queue[1] = t
    BY <1>0, <2>1, EmptySeq
  <2>3. PICK n \in Nat : Len(queue) = n + 1
    <3>1. Len(queue) - 1 \in Nat /\ Len(queue) = (Len(queue) - 1) + 1
      BY <2>2
    <3> QED BY <3>1
  <2>4. rest \in Seq(Tasks) /\ Len(rest) = n /\ \A i \in 1..n : rest[i] = queue[i + 1]
    <3>1. rest = Tail(queue)
      BY <1>3
    <3>2. /\ Tail(queue) \in Seq(Tasks) /\ Len(Tail(queue)) = Len(queue) - 1
          /\ \A i \in 1..Len(Tail(queue)) : Tail(queue)[i] = queue[i + 1]
      BY <1>0, <2>1, HeadTailProperties
    <3>3. Len(Tail(queue)) = n
      BY <2>3, <3>2
    <3> HIDE DEF rest
    <3> QED BY <3>1, <3>2, <3>3
  <2>5. ASSUME NEW i \in 1..n PROVE queue[i + 1] # t
    <3>1. i + 1 \in DOMAIN queue /\ i + 1 # 1 /\ 1 \in DOMAIN queue
      BY <1>0, <2>2, <2>3
    <3> QED BY <2>2, <3>1 DEF QueueInv
  <2> HIDE DEF rest
  <2> QED BY <1>2, <1>3, <2>2, <2>3, <2>4, <2>5
<1>4. CASE task[t].pc \notin IdbSteps
  <2>1. rest = queue
    BY <1>4
  <2>2. PICK d \in {0, 1} : d = 0
    OBVIOUS
  <2>3. \A i \in 1..Len(queue) : i + d = i /\ queue[i] # t
    BY <1>0, <1>4, <2>2 DEF QueueInv
  <2>4. Len(queue) = Len(queue) + d /\ d # 1
    BY <1>0, <2>2
  <2> HIDE DEF rest
  <2>5. QueueMove(t, r, d, Len(queue))
    BY <1>0, <1>2, <1>4, <2>1, <2>3, <2>4
  <2> QED BY <2>5
<1> QED BY <1>3, <1>4

LEMMA QueueInvMoves ==
  ASSUME IInv, QueueInv, NEW t \in Tasks, NEW r, Continue(t, r), Served(t)
  PROVE  QueueInv'
<1>0. PICK d, n : QueueMove(t, r, d, n)
  BY QueueMoves
<1>1. /\ d \in {0, 1} /\ n \in Nat
      /\ Len(queue) = n + d
      /\ DOMAIN queue' = IF r.pc \in IdbSteps THEN 1..(n + 1) ELSE 1..n
      /\ \A i \in 1..n : queue'[i] = queue[i + d] /\ queue'[i] # t
      /\ r.pc \in IdbSteps => queue'[n + 1] = t
      /\ (d = 1) <=> (task[t].pc \in IdbSteps)
      /\ (d = 1) => (queue[1] = t)
  BY <1>0 DEF QueueMove
<1>2. /\ task'[t] = IF r.pc = "idle" THEN IdleTask ELSE r
      /\ \A u \in Tasks : u # t => task'[u] = task[u]
  BY Continues
<1>3. task'[t].pc = r.pc
  BY <1>2 DEF IdleTask
<1>4. DOMAIN queue = 1..Len(queue) /\ queue \in Seq(Tasks) /\ Len(queue) \in Nat
  BY QueueIsSeq
<1>5. ASSUME NEW i \in DOMAIN queue' PROVE task'[queue'[i]].pc \in IdbSteps
  <2>1. CASE i \in 1..n
    <3>0. i + d \in 1..(n + d)
      BY <1>1, <2>1
    <3>1. i + d \in DOMAIN queue
      BY <1>1, <1>4, <3>0
    <3>2. queue'[i] = queue[i + d] /\ queue'[i] # t /\ queue[i + d] \in Tasks
      BY <1>1, <1>4, <2>1, <3>1
    <3> QED BY <1>2, <3>1, <3>2 DEF QueueInv
  <2>2. CASE i = n + 1 /\ r.pc \in IdbSteps
    BY <1>1, <1>3, <2>2
  <2>3. i \in 1..n \/ (i = n + 1 /\ r.pc \in IdbSteps)
    BY <1>1
  <2> QED BY <2>1, <2>2, <2>3
<1>6. ASSUME NEW i \in DOMAIN queue', NEW j \in DOMAIN queue', queue'[i] = queue'[j] PROVE i = j
  <2>1. CASE i \in 1..n /\ j \in 1..n
    <3>1. i + d \in 1..(n + d) /\ j + d \in 1..(n + d)
      BY <1>1, <2>1
    <3>2. queue[i + d] = queue[j + d]
      BY <1>1, <1>6, <2>1
    <3>3. i + d = j + d
      BY <1>1, <1>4, <3>1, <3>2 DEF QueueInv
    <3> QED BY <1>1, <2>1, <3>3
  <2>2. CASE i \notin 1..n \/ j \notin 1..n
    BY <1>1, <1>6, <2>2
  <2> QED BY <2>1, <2>2
<1>7. ASSUME NEW u \in Tasks, task'[u].pc \in IdbSteps
      PROVE  \E i \in DOMAIN queue' : queue'[i] = u
  <2>1. CASE u = t
    BY <1>1, <1>3, <1>7, <2>1
  <2>2. CASE u # t
    <3>1. PICK j \in DOMAIN queue : queue[j] = u
      BY <1>2, <1>7, <2>2 DEF QueueInv
    <3>2. j \in 1..(n + d) /\ (d = 1 => j # 1)
      BY <1>1, <1>4, <2>2, <3>1
    <3>3. PICK i \in 1..n : i + d = j
      <4>1. j - d \in 1..n /\ (j - d) + d = j
        BY <1>1, <3>2
      <4> QED BY <4>1
    <3> QED BY <1>1, <3>1, <3>3
  <2> QED BY <2>1, <2>2
<1> QED BY <1>5, <1>6, <1>7 DEF QueueInv

(* A task joins the queue behind all the others, and leaves from its head. *)
LEMMA BehindMoves ==
  ASSUME IInv, QueueInv, NEW t \in Tasks, NEW r, Continue(t, r), Served(t)
  PROVE  /\ \A x, y : Behind(x, y)' => x # t /\ (Behind(x, y) \/ y = t)
         /\ task[t].pc \in IdbSteps =>
              \A y \in Tasks \ {t} : task[y].pc \in IdbSteps => Behind(t, y)
<1>0. PICK d, n : QueueMove(t, r, d, n)
  BY QueueMoves
<1>1. /\ d \in {0, 1} /\ n \in Nat
      /\ Len(queue) = n + d
      /\ DOMAIN queue' = IF r.pc \in IdbSteps THEN 1..(n + 1) ELSE 1..n
      /\ \A i \in 1..n : queue'[i] = queue[i + d] /\ queue'[i] # t
      /\ r.pc \in IdbSteps => queue'[n + 1] = t
      /\ (d = 1) <=> (task[t].pc \in IdbSteps)
      /\ (d = 1) => (queue[1] = t)
  BY <1>0 DEF QueueMove
<1>4. DOMAIN queue = 1..Len(queue) /\ queue \in Seq(Tasks) /\ Len(queue) \in Nat
  BY QueueIsSeq
<1>5. ASSUME NEW x, NEW y, Behind(x, y)' PROVE x # t /\ (Behind(x, y) \/ y = t)
  <2>1. PICK i, j \in DOMAIN queue' : i < j /\ queue'[i] = x /\ queue'[j] = y
    BY <1>5 DEF Behind
  <2>2. i \in 1..n
    BY <1>1, <2>1
  <2>3. j \in 1..n \/ y = t
    BY <1>1, <2>1
  <2>4. ASSUME j \in 1..n PROVE Behind(x, y)
    <3>1. i + d \in 1..(n + d) /\ j + d \in 1..(n + d) /\ i + d < j + d
      BY <1>1, <2>1, <2>2, <2>4
    <3>2. queue[i + d] = x /\ queue[j + d] = y
      BY <1>1, <2>1, <2>2, <2>4
    <3> QED BY <1>1, <1>4, <3>1, <3>2 DEF Behind
  <2> QED BY <1>1, <2>1, <2>2, <2>3, <2>4
<1>6. ASSUME task[t].pc \in IdbSteps, NEW y \in Tasks \ {t}, task[y].pc \in IdbSteps
      PROVE  Behind(t, y)
  <2>1. PICK j \in DOMAIN queue : queue[j] = y
    BY <1>6 DEF QueueInv
  <2>2. queue[1] = t /\ j # 1 /\ 1 \in DOMAIN queue /\ 1 < j
    BY <1>1, <1>4, <1>6, <2>1
  <2> QED BY <2>1, <2>2 DEF Behind
<1> QED BY <1>5, <1>6

LEMMA QueueInvStep ==
  ASSUME IInv, CallInv, QueueInv, [Next]_vars
  PROVE  QueueInv'
<1>0. Handlers \subseteq Tasks /\ Savers \subseteq Tasks
  BY DEF Tasks
<1>1. CASE UNCHANGED vars \/ Edit \/ RemoveAll
  <2>1. UNCHANGED <<task, queue>>
    BY <1>1 DEF vars, Edit, RemoveAll
  <2> QED BY <2>1 DEF QueueInv
<1>2. ASSUME NEW t \in Handlers, Unload(t) PROVE QueueInv'
  <2>1. /\ queue' = <<t>> /\ t \in Tasks
        /\ \A u \in Tasks : task'[u] = IF u = t THEN Call("boot", "bootRead") ELSE IdleTask
    BY <1>0, <1>2 DEF Unload, Booting
  <2>2. Call("boot", "bootRead").pc = "bootRead" /\ IdleTask.pc = "idle" /\ "bootRead" \in IdbSteps
    BY DEF Call, IdleTask, IdbSteps, Reads
  <2>3. DOMAIN queue' = {1} /\ queue'[1] = t
    BY <2>1
  <2> QED BY <2>1, <2>2, <2>3, IdleNotQueued DEF QueueInv
<1>3. ASSUME NEW t \in Tasks, Progress(t) PROVE QueueInv'
  BY <1>3, ProgressGoesOn, ProgressServed, QueueInvMoves DEF GoesOn
<1>4. ASSUME NEW t \in Tasks, NEW r, StartsAs(t, r) PROVE QueueInv'
  <2>1. task[t].pc = "idle"
    BY <1>4 DEF StartsAs, CallInv, Shape
  <2> QED BY <1>4, <2>1, IdleNotQueued, QueueInvMoves DEF StartsAs, Served
<1> QED BY <1>0, <1>1, <1>2, <1>3, <1>4, UserStarts, EventStarts DEF Next

LEMMA QueueInvInit == Init => QueueInv
<1> SUFFICES ASSUME Init PROVE QueueInv
  OBVIOUS
<1>1. PICK h \in Handlers : task = Booting(h) /\ queue = <<h>>
  BY DEF Init
<1>2. \A u \in Tasks : task[u] = IF u = h THEN Call("boot", "bootRead") ELSE IdleTask
  BY <1>1 DEF Booting
<1>3. Call("boot", "bootRead").pc = "bootRead" /\ IdleTask.pc = "idle" /\ "bootRead" \in IdbSteps
  BY DEF Call, IdleTask, IdbSteps, Reads
<1>4. DOMAIN queue = {1} /\ queue[1] = h /\ h \in Tasks
  BY <1>1 DEF Tasks
<1> QED BY <1>2, <1>3, <1>4, IdleNotQueued DEF QueueInv

-----------------------------------------------------------------------------
(* Revisions, and the flush of a session that is left: FlushInv. *)

(* The revision of a workspace, if there is one, against n.                *)
NotAfter(c, n)  == c # None => c.rev <= n
NotBefore(c, n) == c # None => c.rev >= n

(* `rev' is the newest revision there is.                                  *)
RevInv ==
  /\ NotAfter(live, rev)
  /\ \A s \in SessionIds : NotAfter(snapshot[s], rev)
  /\ \A t \in Tasks : NotAfter(task[t].file, rev)

(* While a switch is at the flush of the session it leaves and up to its   *)
(* read of the moved pointer, whatever is written there is no older than   *)
(* the workspace at the click: saves are written in the order in which     *)
(* they were asked for.                                                    *)
Flush(t) ==
  /\ task[t].op = "switch" /\ task[t].pc \in Persisting \cup Switching
  /\ task[t].file # None /\ active # None
  => /\ NotBefore(live, task[t].file.rev)
     /\ task[t].pc = "putSnapshot" =>
          /\ task[t].sid = active
          /\ \A u \in Tasks : Behind(t, u) /\ task[u].pc = "putSnapshot"
                                => NotBefore(task[u].file, task[t].file.rev)
     /\ task[t].pc # "putSnapshot" =>
          /\ NotBefore(snapshot[active], task[t].file.rev)
          /\ \A u \in Tasks \ {t} : task[u].pc = "putSnapshot"
                                => NotBefore(task[u].file, task[t].file.rev)

FlushInv == \A t \in Handlers : Flush(t)

Updates == {"putSnapshot", "clearSnapshot"}

(* What a step of persistSnapshot does: it writes the snapshot it holds,   *)
(* or none, unless the write is rejected, and goes on to its next request  *)
(* or to its caller.                                                       *)
PersistEffect(t, r) ==
  /\ Continue(t, r)
  /\ r.op = task[t].op /\ r.id = task[t].id
  /\ r.sid \in {task[t].sid, active} /\ r.idx \in {task[t].idx, index, EmptyIndex}
  /\ r.file \in {task[t].file, None}
  /\ task[t].pc \in Persisting
  /\ r.pc \in (Persisting \ Updates) \cup {"idle", "setActiveRead", "drop"}
  /\ index' \in {index, task[t].idx}
  /\ UNCHANGED <<active, live, wasNonEmpty, timer, applying, booted, hist>>
  /\ \/ /\ task[t].pc = "putSnapshot"
        /\ snapshot' = [snapshot EXCEPT ![task[t].sid] = task[t].file]
     \/ /\ task[t].pc = "clearSnapshot"
        /\ snapshot' = [snapshot EXCEPT ![task[t].sid] = None]
     \/ /\ task[t].pc # "clearSnapshot"
        /\ task[t].pc = "putSnapshot" => r.file = None /\ "fail" \in Ops
        /\ snapshot' = snapshot

LEMMA PersistEffects ==
  ASSUME IInv, NEW t \in Tasks, PersistStep(t)
  PROVE  \E r : PersistEffect(t, r)
<1>r. task[t] \in TaskRec
  BY DEF IInv, Running
<1>a. task[t].after \in {"idle", "setActiveRead", "drop"}
  BY <1>r DEF TaskRec
<1>1. ASSUME NEW pc \in (Persisting \ Updates) \cup {task[t].after}, Goto(t, pc),
             task[t].pc \in Persisting, index' \in {index, task[t].idx},
             UNCHANGED <<active, live, wasNonEmpty, timer, applying, booted, hist>>,
             \/ /\ task[t].pc = "putSnapshot"
                /\ snapshot' = [snapshot EXCEPT ![task[t].sid] = task[t].file]
             \/ /\ task[t].pc = "clearSnapshot"
                /\ snapshot' = [snapshot EXCEPT ![task[t].sid] = None]
             \/ task[t].pc \notin Updates /\ snapshot' = snapshot
      PROVE  \E r : PersistEffect(t, r)
  <2> DEFINE r == [task[t] EXCEPT !.pc = pc]
  <2>1. /\ r.op = task[t].op /\ r.file = task[t].file /\ r.pc = pc
        /\ r.id = task[t].id /\ r.sid = task[t].sid /\ r.idx = task[t].idx
    BY <1>r DEF TaskRec
  <2>2. Continue(t, r)
    BY <1>1 DEF Goto
  <2> HIDE DEF r
  <2>3. PersistEffect(t, r)
    BY <1>1, <1>a, <2>1, <2>2 DEF PersistEffect, Updates
  <2> QED BY <2>3
<1>2. CASE PutSnapshot(t)
  BY <1>1, <1>2 DEF PutSnapshot, At, Persisting, Updates, tab
<1>3. CASE SaveReadIndex(t)
  <2> DEFINE r == [task[t] EXCEPT !.pc = "saveWriteIndex", !.idx = index]
  <2>1. /\ r.op = task[t].op /\ r.file = task[t].file /\ r.pc = "saveWriteIndex"
        /\ r.id = task[t].id /\ r.sid = task[t].sid /\ r.idx = index
    BY <1>r DEF TaskRec
  <2>2. /\ Continue(t, r) /\ task[t].pc = "saveReadIndex"
        /\ UNCHANGED <<tab, hist, snapshot, index>>
    BY <1>3 DEF SaveReadIndex, At, idb
  <2> HIDE DEF r
  <2>3. PersistEffect(t, r)
    BY <2>1, <2>2 DEF PersistEffect, Persisting, Updates, tab
  <2> QED BY <2>3
<1>4. CASE SaveWriteIndex(t)
  <2> DEFINE r == [task[t] EXCEPT !.pc = "putResults", !.sid = active,
                                  !.idx = EmptyIndex, !.rows = live]
  <2>1. /\ r.op = task[t].op /\ r.file = task[t].file /\ r.pc = "putResults"
        /\ r.id = task[t].id /\ r.sid = active /\ r.idx = EmptyIndex
    BY <1>r DEF TaskRec
  <2>2. /\ Continue(t, r) \/ Goto(t, task[t].after)
        /\ task[t].pc = "saveWriteIndex" /\ index' = task[t].idx
        /\ UNCHANGED <<active, live, wasNonEmpty, timer, applying, booted, hist, snapshot>>
    BY <1>4 DEF SaveWriteIndex, At
  <2> HIDE DEF r
  <2>3. Continue(t, r) => PersistEffect(t, r)
    BY <2>1, <2>2 DEF PersistEffect, Persisting, Updates
  <2> QED BY <1>1, <2>2, <2>3 DEF Persisting, Updates
<1>5. CASE PutResults(t) \/ ClearResults(t)
  BY <1>1, <1>5 DEF PutResults, ClearResults, At, Persisting, Updates, tab
<1>6. CASE ClearSnapshot(t)
  <2> DEFINE r == [task[t] EXCEPT !.pc = "clearResults", !.sid = active]
  <2>1. /\ r.op = task[t].op /\ r.file = task[t].file /\ r.pc = "clearResults"
        /\ r.id = task[t].id /\ r.sid = active /\ r.idx = task[t].idx
    BY <1>r DEF TaskRec
  <2>2. /\ Continue(t, r) \/ Goto(t, task[t].after)
        /\ task[t].pc = "clearSnapshot" /\ index' = index
        /\ UNCHANGED <<active, live, wasNonEmpty, timer, applying, booted, hist>>
        /\ snapshot' = [snapshot EXCEPT ![task[t].sid] = None]
    BY <1>6 DEF ClearSnapshot, At, tab
  <2> HIDE DEF r
  <2>3. Continue(t, r) => PersistEffect(t, r)
    BY <2>1, <2>2 DEF PersistEffect, Persisting, Updates
  <2> QED BY <1>1, <2>2, <2>3 DEF Persisting
<1>7. CASE PersistFails(t)
  <2> DEFINE r == [task[t] EXCEPT !.pc = task[t].after, !.file = None]
  <2>1. /\ r.op = task[t].op /\ r.file = None /\ r.pc = task[t].after
        /\ r.id = task[t].id /\ r.sid = task[t].sid /\ r.idx = task[t].idx
    BY <1>r DEF TaskRec
  <2>2. /\ Continue(t, r) /\ "fail" \in Ops
        /\ UNCHANGED <<active, live, wasNonEmpty, timer, applying, booted, hist, snapshot, index>>
    BY <1>7 DEF PersistFails, idb
  <2>3. task[t].pc \in Persisting /\ task[t].pc # "clearSnapshot"
    BY <1>7 DEF PersistFails, At, Persisting
  <2> HIDE DEF r
  <2>4. PersistEffect(t, r)
    BY <1>a, <2>1, <2>2, <2>3 DEF PersistEffect
  <2> QED BY <2>4
<1> QED BY <1>2, <1>3, <1>4, <1>5, <1>6, <1>7 DEF PersistStep

(* The rest of a step, as far as revisions go.                             *)
LEMMA RevMoves ==
  ASSUME IInv, RevInv, NEW t \in Tasks, NEW r, Continue(t, r), rev' = rev,
         r.pc # "idle" => NotAfter(r.file, rev),
         NotAfter(live', rev), \A s \in SessionIds : NotAfter(snapshot'[s], rev)
  PROVE  RevInv'
<1>1. /\ task'[t] = IF r.pc = "idle" THEN IdleTask ELSE r
      /\ \A u \in Tasks : u # t => task'[u] = task[u]
  BY Continues
<1> QED BY <1>1 DEF RevInv, NotAfter, IdleTask

LEMMA RevGoto ==
  ASSUME IInv, RevInv, NEW t \in Tasks, NEW pc, Goto(t, pc), rev' = rev,
         NotAfter(live', rev), \A s \in SessionIds : NotAfter(snapshot'[s], rev)
  PROVE  RevInv'
<1>1. [task[t] EXCEPT !.pc = pc].file = task[t].file
  BY DEF IInv, Running, TaskRec
<1> QED BY <1>1, RevMoves DEF Goto, RevInv

LEMMA RevReturn ==
  ASSUME IInv, RevInv, NEW t \in Tasks, Return(t), rev' = rev,
         NotAfter(live', rev), \A s \in SessionIds : NotAfter(snapshot'[s], rev)
  PROVE  RevInv'
BY RevMoves DEF Return, IdleTask

LEMMA RevHandler ==
  ASSUME IInv, RevInv, NEW t \in Tasks, HandlerStep(t)
  PROVE  RevInv'
<1>r. task[t] \in TaskRec /\ NotAfter(task[t].file, rev) /\ NotAfter(live, rev)
  BY DEF IInv, Running, RevInv
<1>s. \A s \in SessionIds : NotAfter(snapshot[s], rev)
  BY DEF RevInv
<1>n. NotAfter(None, rev)
  BY DEF NotAfter
<1>1. ASSUME NEW r, Continue(t, r), r.file = task[t].file, UNCHANGED <<rev, live, snapshot>>
      PROVE  RevInv'
  BY <1>1, <1>r, <1>s, RevMoves
<1>2. CASE NewDropped(t)
  <2>1. NotAfter(live', rev)
    <3>1. live \in Record /\ live' = WithoutStores(live)
      BY <1>2 DEF NewDropped, IInv, OnTab
    <3>2. CASE live = None
      BY <1>n, <3>1, <3>2 DEF WithoutStores
    <3>3. CASE live # None
      <4>1. live' = [live EXCEPT !.stores = FALSE] /\ live \in Content
        BY <3>1, <3>3 DEF WithoutStores, Record
      <4>2. live'.rev = live.rev
        BY <4>1 DEF Content
      <4> QED BY <1>r, <3>3, <4>2 DEF NotAfter
    <3> QED BY <3>2, <3>3
  <2> QED BY <1>2, <1>s, <2>1, RevGoto DEF NewDropped, idb, hist
<1>3. CASE CreateRead(t)
  <2>1. PICK id : Continue(t, [task[t] EXCEPT !.pc = "createWrite", !.id = id, !.idx = index])
    BY <1>3 DEF CreateRead
  <2>2. [task[t] EXCEPT !.pc = "createWrite", !.id = id, !.idx = index].file = task[t].file
    BY <1>r DEF TaskRec
  <2> QED BY <1>1, <1>3, <2>1, <2>2 DEF CreateRead, tab, idb
<1>4. CASE CreateWrite(t)
  BY <1>4, <1>n, <1>s, RevReturn DEF CreateWrite, hist
<1>5. CASE SetActiveRead(t)
  <2>1. [task[t] EXCEPT !.pc = "setActiveWrite", !.idx = index].file = task[t].file
    BY <1>r DEF TaskRec
  <2> QED BY <1>1, <1>5, <1>r, <1>s, <2>1, RevReturn DEF SetActiveRead, tab, idb, hist
<1>6. CASE SetActiveWrite(t) \/ SwitchRead(t)
  BY <1>6, <1>r, <1>s, RevGoto DEF SetActiveWrite, SwitchRead, tab, idb, hist
<1>7. ASSUME Restore(t), rev' = rev, live' = None, snapshot' = snapshot
      PROVE  RevInv'
  <2> DEFINE r == Call(task[t].op, "loadSettings")
  <2>1. r.file = None
    BY DEF Call, IdleTask
  <2>2. Continue(t, r)
    BY <1>7 DEF Restore
  <2> HIDE DEF r
  <2> QED BY <1>7, <1>n, <1>s, <2>1, <2>2, RevMoves
<1>8. CASE SwitchDropped(t) \/ DeleteDropped(t)
  BY <1>7, <1>8 DEF SwitchDropped, DeleteDropped, idb, hist
<1>9. CASE RenameRead(t)
  <2>1. [task[t] EXCEPT !.pc = "renameWrite", !.idx = index].file = task[t].file
    BY <1>r DEF TaskRec
  <2> QED BY <1>1, <1>9, <2>1 DEF RenameRead, tab, idb, hist
<1>10. CASE RenameWrite(t)
  BY <1>10, <1>r, <1>s, RevReturn DEF RenameWrite, tab, hist
<1>11. CASE DeleteCheck(t)
  <2>1. [task[t] EXCEPT !.pc = "deleteRead", !.was = (active = task[t].id)].file = task[t].file
    BY <1>r DEF TaskRec
  <2> QED BY <1>1, <1>11, <1>r, <1>s, <2>1, RevReturn DEF DeleteCheck, tab, idb, hist
<1>12. CASE DeleteRead(t)
  <2>1. [task[t] EXCEPT !.pc = "deleteArtifacts", !.idx = index].file = task[t].file
    BY <1>r DEF TaskRec
  <2> QED BY <1>1, <1>12, <1>r, <1>s, <2>1, RevReturn DEF DeleteRead, tab, idb, hist
<1>13. ASSUME NEW id, NEW next, ClearSessionArtifacts(t, id, next), rev' = rev, live' = live
       PROVE  RevInv'
  <2>1. \A s \in SessionIds : NotAfter(snapshot'[s], rev)
    BY <1>13, <1>s DEF ClearSessionArtifacts, NotAfter, IInv, Stored
  <2> QED BY <1>13, <1>r, <2>1, RevGoto, RevReturn DEF ClearSessionArtifacts
<1>14. CASE DeleteArtifacts(t) \/ FreshArtifacts(t)
  BY <1>13, <1>14 DEF DeleteArtifacts, FreshArtifacts, tab, hist
<1>15. CASE DeleteWrite(t)
  BY <1>15, <1>r, <1>s, RevGoto, RevReturn DEF DeleteWrite, tab
<1>16. CASE DeleteNext(t)
  <2>1. [task[t] EXCEPT !.pc = "drop", !.sid = index.active].file = task[t].file
    BY <1>r DEF TaskRec
  <2> QED BY <1>1, <1>16, <1>r, <1>s, <2>1, RevReturn DEF DeleteNext, tab, idb, hist
<1>17. CASE FreshRead(t)
  BY <1>17, <1>r, <1>s, RevGoto DEF FreshRead, tab, idb, hist
<1> QED BY <1>2, <1>3, <1>4, <1>5, <1>6, <1>8, <1>9, <1>10, <1>11, <1>12, <1>14, <1>15, <1>16, <1>17
        DEF HandlerStep

LEMMA RevPersist ==
  ASSUME IInv, RevInv, NEW t \in Tasks, PersistStep(t)
  PROVE  RevInv'
<1>1. PICK r : PersistEffect(t, r)
  BY PersistEffects
<1>2. NotAfter(r.file, rev) /\ NotAfter(live', rev) /\ rev' = rev
  BY <1>1 DEF PersistEffect, RevInv, NotAfter, hist
<1>3. \A s \in SessionIds : NotAfter(snapshot'[s], rev)
  BY <1>1 DEF PersistEffect, RevInv, NotAfter, IInv, Stored
<1> QED BY <1>1, <1>2, <1>3, RevMoves DEF PersistEffect

(* What comes back beside what is on screen is no newer than the newest.   *)
LEMMA RevJoined ==
  ASSUME live \in Record, NEW c \in Content, NEW n, NotAfter(live, n), NotAfter(c, n),
         NEW b \in BroughtBack(c), NEW j \in Joined(b)
  PROVE  NotAfter(j, n)
<1>1. b = None \/ (b \in Content /\ NotAfter(b, n))
  BY ContentAssumption DEF BroughtBack, Part, Content, NotAfter
<1>2. CASE live = None
  BY <1>1, <1>2 DEF Joined, NotAfter
<1>3. CASE live # None /\ b = None
  BY <1>3 DEF Joined, NotAfter
<1>4. CASE live # None /\ b # None
  <2> DEFINE both == [b EXCEPT !.owners = @ \cup live.owners, !.rev = live.rev]
  <2>1. both.rev = live.rev
    BY <1>1, <1>4 DEF Content
  <2>2. j = b \/ j = both
    BY <1>4 DEF Joined
  <2> HIDE DEF both
  <2> QED BY <1>1, <1>4, <2>1, <2>2 DEF NotAfter
<1> QED BY <1>2, <1>3, <1>4

LEMMA RevRestore ==
  ASSUME IInv, RevInv, NEW t \in Tasks, RestoreStep(t)
  PROVE  RevInv'
<1>r. task[t] \in TaskRec /\ NotAfter(task[t].file, rev) /\ NotAfter(live, rev)
  BY DEF IInv, Running, RevInv
<1>s. \A s \in SessionIds : NotAfter(snapshot[s], rev)
  BY DEF RevInv
<1>n. NotAfter(None, rev)
  BY DEF NotAfter
<1>1. CASE ReadSnapshot(t)
  <2> DEFINE r == [task[t] EXCEPT !.pc = "applyWait", !.file = snapshot[task[t].sid]]
  <2>1. r.file = snapshot[task[t].sid]
    BY <1>r DEF TaskRec
  <2>2. Continue(t, r) \/ Return(t)
    BY <1>1 DEF ReadSnapshot
  <2>3. task[t].sid \in SessionIds
    BY <1>1 DEF ReadSnapshot, At, IInv, Running, Sound
  <2>4. UNCHANGED <<live, snapshot, rev>>
    BY <1>1 DEF ReadSnapshot, idb, hist
  <2> HIDE DEF r
  <2> QED BY <1>r, <1>s, <2>1, <2>2, <2>3, <2>4, RevMoves, RevReturn
<1>2. CASE ApplyStart(t) \/ ApplyDropped(t)
  BY <1>2, <1>n, <1>r, <1>s, RevGoto DEF ApplyStart, ApplyDropped, idb, hist
<1>3. CASE ApplyRestored(t)
  <2> DEFINE r == [Call(task[t].op, "readResults") EXCEPT !.sid = active]
  <2>1. r.file = None
    BY DEF Call, IdleTask
  <2>2. Continue(t, r) \/ Return(t)
    BY <1>3 DEF ApplyRestored
  <2>3. /\ UNCHANGED <<snapshot, rev>> /\ task[t].file \in Content
        /\ \E c \in BroughtBack(task[t].file) : live' \in Joined(c)
    BY <1>3 DEF ApplyRestored, At, idb, hist, IInv, Running, Sound, Loading
  <2>4. NotAfter(live', rev)
    BY <1>r, <2>3, RevJoined DEF IInv, OnTab
  <2> HIDE DEF r
  <2> QED BY <1>n, <1>s, <2>1, <2>2, <2>3, <2>4, RevMoves, RevReturn
<1>4. CASE ApplyOpened(t)
  <2> DEFINE f == [task[t].file EXCEPT !.owners = Here]
             opened == live'
             r == [Call("open", "putSnapshot") EXCEPT !.sid = active, !.file = opened]
  <2>1. r.file = opened
    BY DEF Call, IdleTask
  <2>2. Continue(t, r) \/ Return(t)
    BY <1>4 DEF ApplyOpened
  <2>3. /\ UNCHANGED <<snapshot, rev>> /\ task[t].file \in Content /\ live \in Record
        /\ \E c \in BroughtBack(f) : opened \in Joined(c)
    BY <1>4 DEF ApplyOpened, At, idb, hist, IInv, OnTab, Running, Sound, Loading
  <2>4. task[t].file # None /\ Here \subseteq SessionIds
    BY <2>3, ContentAssumption DEF Here, IInv, OnTab
  <2>5. f \in Content /\ f.rev = task[t].file.rev
    BY <2>3, <2>4 DEF Content
  <2>6. NotAfter(f, rev)
    BY <1>r, <2>4, <2>5 DEF NotAfter
  <2> HIDE DEF f
  <2>7. NotAfter(live', rev)
    BY <1>r, <2>3, <2>5, <2>6, RevJoined
  <2> HIDE DEF r, opened
  <2> QED BY <1>s, <2>1, <2>2, <2>3, <2>7, RevMoves, RevReturn DEF opened
<1>f. CASE LoadFails(t)
  BY <1>f, <1>r, <1>s, RevReturn DEF LoadFails, idb, hist
<1>l. CASE LoadSettings(t)
  <2> DEFINE r == [Call(task[t].op, "readSnapshot") EXCEPT !.sid = active]
  <2>1. r.file = None
    BY DEF Call, IdleTask
  <2>2. (Continue(t, r) \/ Return(t)) /\ UNCHANGED <<live, snapshot, rev>>
    BY <1>l DEF LoadSettings, idb, hist
  <2> HIDE DEF r
  <2> QED BY <1>n, <1>r, <1>s, <2>1, <2>2, RevMoves, RevReturn
<1>5. CASE ReadResults(t)
  BY <1>5, <1>r, <1>s, RevReturn DEF ReadResults, idb, hist
<1> QED BY <1>f, <1>l, <1>1, <1>2, <1>3, <1>4, <1>5 DEF RestoreStep

LEMMA RevBoot ==
  ASSUME IInv, RevInv, NEW t \in Tasks, BootStep(t)
  PROVE  RevInv'
<1>r. task[t] \in TaskRec /\ NotAfter(task[t].file, rev) /\ NotAfter(live, rev)
  BY DEF IInv, Running, RevInv
<1>s. \A s \in SessionIds : NotAfter(snapshot[s], rev)
  BY DEF RevInv
<1>1. ASSUME Restore(t), UNCHANGED <<rev, live, snapshot>> PROVE RevInv'
  <2> DEFINE r == Call(task[t].op, "loadSettings")
  <2>1. r.file = None /\ NotAfter(None, rev)
    BY DEF Call, IdleTask, NotAfter
  <2>2. Continue(t, r)
    BY <1>1 DEF Restore
  <2> HIDE DEF r
  <2> QED BY <1>1, <1>r, <1>s, <2>1, <2>2, RevMoves
<1>2. ASSUME NEW r, Continue(t, r), r.file = task[t].file, UNCHANGED <<rev, live, snapshot>>
      PROVE  RevInv'
  BY <1>2, <1>r, <1>s, RevMoves
<1>3. CASE BootRead(t)
  <2>1. ASSUME NEW first,
               Continue(t, [task[t] EXCEPT !.pc = "bootWrite", !.id = first,
                                           !.idx = [index EXCEPT !.active = first]])
        PROVE  RevInv'
    <3>1. [task[t] EXCEPT !.pc = "bootWrite", !.id = first,
                          !.idx = [index EXCEPT !.active = first]].file = task[t].file
      BY <1>r DEF TaskRec
    <3> QED BY <1>2, <1>3, <2>1, <3>1 DEF BootRead, idb
  <2>2. CASE Goto(t, "bootLegacy")
    BY <1>3, <1>r, <1>s, <2>2, RevGoto DEF BootRead, idb
  <2>3. CASE Restore(t)
    BY <1>1, <1>3, <2>3 DEF BootRead, idb
  <2> QED BY <1>3, <2>1, <2>2, <2>3 DEF BootRead
<1>4. CASE BootLegacy(t)
  <2>1. PICK id : Continue(t, [task[t] EXCEPT
                         !.pc = IF legacy THEN "bootPut" ELSE "bootWrite",
                         !.id = id,
                         !.idx = [active |-> id, sessions |-> {id}]])
    BY <1>4 DEF BootLegacy
  <2>2. [task[t] EXCEPT !.pc = IF legacy THEN "bootPut" ELSE "bootWrite", !.id = id,
                        !.idx = [active |-> id, sessions |-> {id}]].file = task[t].file
    BY <1>r DEF TaskRec
  <2> QED BY <1>2, <1>4, <2>1, <2>2 DEF BootLegacy, idb, tab
<1>5. CASE BootPut(t)
  <2>1. \A s \in SessionIds : NotAfter(snapshot'[s], rev)
    BY <1>5, <1>s DEF BootPut, Work, NotAfter, IInv, Stored, Flags
  <2> QED BY <1>5, <1>r, <2>1, RevGoto DEF BootPut, tab, hist
<1>6. CASE BootForget(t)
  BY <1>6, <1>r, <1>s, RevGoto DEF BootForget, tab, hist
<1>7. CASE BootWrite(t)
  BY <1>1, <1>7 DEF BootWrite, hist
<1> QED BY <1>3, <1>4, <1>5, <1>6, <1>7 DEF BootStep

(* How persistSnapshot starts, when r is where it goes first: the content  *)
(* it writes is the one on screen when it is called.                       *)
PersistCall(t, caller, r) ==
  /\ Continue(t, r)
  /\ r.op = caller.op /\ r.id = caller.id /\ r.idx = caller.idx
  /\ wasNonEmpty' = (live # None)
  /\ \/ /\ r.pc = "putSnapshot" /\ r.sid = active /\ r.file = live
        /\ active # None /\ live # None
     \/ /\ r.pc = "clearSnapshot" /\ r.sid = active /\ r.file = caller.file
        /\ active # None /\ live = None
     \/ /\ r.pc = caller.after /\ r.sid = caller.sid /\ r.file = caller.file
        /\ active = None \/ (live = None /\ ~wasNonEmpty)

LEMMA PersistCalls ==
  ASSUME IInv, NEW t \in Tasks, NEW caller \in TaskRec, PersistSnapshot(t, caller)
  PROVE  \E r : PersistCall(t, caller, r)
<1> DEFINE back  == [caller EXCEPT !.pc = caller.after]
           clear == [caller EXCEPT !.pc = "clearSnapshot", !.sid = active]
           put   == [caller EXCEPT !.pc = "putSnapshot", !.sid = active,
                                   !.file = live]
<1>1. /\ \/ Continue(t, put) /\ active # None /\ live # None
         \/ Continue(t, clear) /\ active # None /\ live = None
         \/ Continue(t, back) /\ (active = None \/ (live = None /\ ~wasNonEmpty))
      /\ wasNonEmpty' = (live # None)
  BY DEF PersistSnapshot
<1>2. /\ back.op = caller.op /\ back.file = caller.file /\ back.pc = caller.after
      /\ back.id = caller.id /\ back.idx = caller.idx /\ back.sid = caller.sid
      /\ clear.op = caller.op /\ clear.file = caller.file /\ clear.pc = "clearSnapshot"
      /\ clear.id = caller.id /\ clear.idx = caller.idx /\ clear.sid = active
      /\ put.op = caller.op /\ put.file = live /\ put.pc = "putSnapshot"
      /\ put.id = caller.id /\ put.idx = caller.idx /\ put.sid = active
  BY DEF TaskRec
<1> HIDE DEF back, clear, put
<1>3. PersistCall(t, caller, put) \/ PersistCall(t, caller, clear) \/ PersistCall(t, caller, back)
  BY <1>1, <1>2 DEF PersistCall
<1> QED BY <1>3

LEMMA RevUser ==
  ASSUME IInv, RevInv, NEW t \in Tasks, UserStep(t)
  PROVE  RevInv'
<1>r. NotAfter(live, rev) /\ NotAfter(None, rev) /\ rev \in Nat
  BY DEF RevInv, NotAfter, IInv, Stored
<1>s. \A s \in SessionIds : NotAfter(snapshot[s], rev)
  BY DEF RevInv
<1>1. ASSUME NEW caller \in TaskRec, PersistSnapshot(t, caller), caller.file \in {None, live},
             UNCHANGED <<live, snapshot, rev>>
      PROVE  RevInv'
  <2>1. PICK r : Continue(t, r) /\ r.file \in {None, live}
    BY <1>1, PersistCalls DEF PersistCall
  <2> QED BY <1>1, <1>r, <1>s, <2>1, RevMoves
<1>2. ASSUME NEW r, Continue(t, r), r.file = None, UNCHANGED <<live, snapshot, rev>>
      PROVE  RevInv'
  BY <1>2, <1>r, <1>s, RevMoves
<1>3. CASE NewSession(t)
  <2>1. /\ [Call("new", "idle") EXCEPT !.after = "drop"] \in TaskRec
        /\ [Call("new", "idle") EXCEPT !.after = "drop"].file = None
    <3> DEFINE q == Call("new", "idle")
    <3>1. q \in TaskRec
      BY CallType DEF TaskOps, Steps
    <3>2. q.file = None
      BY DEF Call, IdleTask
    <3> HIDE DEF q
    <3>3. [q EXCEPT !.after = "drop"] \in TaskRec /\ [q EXCEPT !.after = "drop"].file = None
      BY <3>1, <3>2 DEF TaskRec
    <3> QED BY <3>3 DEF q
  <2> QED BY <1>1, <1>3, <2>1 DEF NewSession, idb, hist
<1>4. CASE SwitchSession(t)
  <2>1. PICK id \in issued \ {active} :
          PersistSnapshot(t, [Call("switch", "idle")
                               EXCEPT !.after = "setActiveRead", !.id = id, !.file = live])
    BY <1>4 DEF SwitchSession
  <2> DEFINE q == Call("switch", "idle")
             c == [q EXCEPT !.after = "setActiveRead", !.id = id, !.file = live]
  <2>2. id \in SessionIds /\ live \in Record
    BY DEF IInv, Stored, OnTab
  <2>3. q \in TaskRec
    BY CallType DEF TaskOps, Steps
  <2>4. PersistSnapshot(t, c)
    BY <2>1
  <2> HIDE DEF q
  <2>5. c \in TaskRec /\ c.file = live
    BY <2>2, <2>3 DEF TaskRec
  <2> HIDE DEF c
  <2> QED BY <1>1, <1>4, <2>4, <2>5 DEF SwitchSession, idb, hist
<1>5. CASE RenameSession(t)
  <2>1. Call("rename", "renameRead").file = None
    BY DEF Call, IdleTask
  <2> QED BY <1>2, <1>5, <2>1 DEF RenameSession, tab, idb, hist
<1>6. CASE DeleteSession(t)
  <2>1. PICK id : Continue(t, [Call("delete", "deleteCheck") EXCEPT !.id = id])
    BY <1>6 DEF DeleteSession
  <2>2. [Call("delete", "deleteCheck") EXCEPT !.id = id].file = None
    BY DEF Call, IdleTask
  <2> QED BY <1>2, <1>6, <2>1, <2>2 DEF DeleteSession, tab, idb, hist
<1>7. CASE StartFresh(t)
  <2>1. [Call("fresh", "freshRead") EXCEPT !.id = active].file = None
    BY DEF Call, IdleTask
  <2> QED BY <1>2, <1>7, <2>1 DEF StartFresh, tab, idb, hist
<1>8. CASE OpenFile(t)
  <2> DEFINE f == Work({}, rev + 1)
             r == [Call("open", "applyWait") EXCEPT !.file = f]
  <2>1. r.file = f /\ f.rev = rev + 1
    BY DEF Call, IdleTask, Work
  <2>2. Continue(t, r) /\ UNCHANGED <<live, snapshot>> /\ rev' = rev + 1
    BY <1>8 DEF OpenFile, tab, idb
  <2> HIDE DEF r, f
  <2>3. /\ task'[t] = IF r.pc = "idle" THEN IdleTask ELSE r
        /\ \A u \in Tasks : u # t => task'[u] = task[u]
    BY <2>2, Continues
  <2>4. ASSUME NEW c \in Record, NotAfter(c, rev) PROVE NotAfter(c, rev')
    BY <1>r, <2>2, <2>4 DEF NotAfter, Record, Content
  <2>5. ASSUME NEW u \in Tasks PROVE NotAfter(task'[u].file, rev')
    <3>1. CASE u = t
      BY <1>r, <2>1, <2>2, <2>3, <3>1 DEF NotAfter, IdleTask
    <3>2. CASE u # t
      BY <2>3, <2>4, <3>2 DEF RevInv, IInv, Running, TaskRec
    <3> QED BY <3>1, <3>2
  <2>6. NotAfter(live', rev') /\ \A s \in SessionIds : NotAfter(snapshot'[s], rev')
    BY <1>r, <1>s, <2>2, <2>4 DEF IInv, OnTab, Stored
  <2> QED BY <2>5, <2>6 DEF RevInv, NotAfter
<1> QED BY <1>3, <1>4, <1>5, <1>6, <1>7, <1>8 DEF UserStep

LEMMA SaveCall ==
  /\ Call("save", "idle") \in TaskRec
  /\ Call("save", "idle").op = "save" /\ Call("save", "idle").after = "idle"
  /\ Call("save", "idle").file = None
<1>1. "save" \in TaskOps /\ "idle" \in Steps
  BY DEF TaskOps, Steps
<1>2. Call("save", "idle").file = None
  BY DEF Call, IdleTask
<1> QED BY <1>1, <1>2, CallType

(* An edit makes the workspace the newest.                                 *)
LEMMA EditRev == ASSUME IInv, Edit PROVE live'.rev = rev + 1
<1>1. CASE live = None
  BY <1>1 DEF Edit, Work
<1>2. CASE live # None
  <2>1. live \in Content
    BY <1>2 DEF IInv, OnTab, Record
  <2> QED BY <1>2, <2>1 DEF Edit, Content
<1> QED BY <1>1, <1>2

LEMMA RevStep ==
  ASSUME IInv, RevInv, [Next]_vars PROVE RevInv'
<1>r. NotAfter(live, rev) /\ NotAfter(None, rev) /\ rev \in Nat
  BY DEF RevInv, NotAfter, IInv, Stored
<1>1. CASE UNCHANGED vars
  BY <1>1 DEF vars, idb, tab, hist, RevInv, NotAfter
<1>2. CASE Edit \/ RemoveAll
  <2>1. UNCHANGED <<snapshot, task>> /\ rev' = rev + 1
    BY <1>2 DEF Edit, RemoveAll, idb
  <2>2. ASSUME NEW c \in Record, NotAfter(c, rev) PROVE NotAfter(c, rev')
    BY <1>r, <2>1, <2>2 DEF NotAfter, Record, Content
  <2>3. NotAfter(live', rev')
    BY <1>2, <1>r, <2>1, EditRev DEF RemoveAll, NotAfter
  <2>4. \A s \in SessionIds : NotAfter(snapshot'[s], rev')
    BY <2>1, <2>2 DEF RevInv, IInv, Stored
  <2>5. \A u \in Tasks : NotAfter(task'[u].file, rev')
    BY <2>1, <2>2 DEF RevInv, IInv, Running, TaskRec
  <2> QED BY <2>3, <2>4, <2>5 DEF RevInv, NotAfter
<1>3. ASSUME NEW t \in Handlers, Unload(t) PROVE RevInv'
  <2>1. \A u \in Tasks : task'[u].file = None
    BY <1>3 DEF Unload, Booting, Call, IdleTask
  <2>2. live' = None /\ UNCHANGED <<snapshot, rev>>
    BY <1>3 DEF Unload, idb
  <2> QED BY <2>1, <2>2 DEF RevInv, NotAfter
<1>4. ASSUME NEW t \in Savers, TimerFires(t) \/ PageHide(t) PROVE RevInv'
  <2>0. t \in Tasks
    BY DEF Tasks
  <2>1. PersistSnapshot(t, Call("save", "idle")) /\ UNCHANGED <<snapshot, live, rev>>
    BY <1>4 DEF TimerFires, PageHide, idb, hist
  <2>2. PICK r : Continue(t, r) /\ r.file \in {None, live}
    BY <2>0, <2>1, PersistCalls, SaveCall DEF PersistCall
  <2> QED BY <1>r, <2>0, <2>1, <2>2, RevMoves DEF RevInv
<1>5. Handlers \subseteq Tasks /\ Savers \subseteq Tasks
  BY DEF Tasks
<1> QED BY <1>1, <1>2, <1>3, <1>4, <1>5, RevPersist, RevHandler, RevRestore, RevBoot, RevUser
        DEF Next, Progress

LEMMA RevInit == Init => RevInv
<1> SUFFICES ASSUME Init PROVE RevInv
  OBVIOUS
<1>1. \A t \in Tasks : task[t].file = None
  BY DEF Init, Booting, Call, IdleTask
<1> QED BY <1>1 DEF Init, Work, RevInv, NotAfter

-----------------------------------------------------------------------------

LEMMA FlushPersist ==
  ASSUME IInv, QueueInv, FlushInv, NEW u \in Tasks, PersistStep(u), NEW t \in Handlers
  PROVE  Flush(t)'
<1>0. t \in Tasks
  BY DEF Tasks
<1>1. PICK r : PersistEffect(u, r)
  BY PersistEffects
<1>2. /\ task'[u] = IF r.pc = "idle" THEN IdleTask ELSE r
      /\ \A x \in Tasks : x # u => task'[x] = task[x]
  BY <1>1, Continues DEF PersistEffect
<1>3. /\ \A x, y : Behind(x, y)' => x # u /\ (Behind(x, y) \/ y = u)
      /\ task[u].pc \in IdbSteps =>
           \A y \in Tasks \ {u} : task[y].pc \in IdbSteps => Behind(u, y)
  BY <1>1, BehindMoves, ProgressServed DEF PersistEffect, Progress
<1>4. task'[u].pc # "putSnapshot" /\ r.pc # "putSnapshot"
  BY <1>1, <1>2 DEF PersistEffect, IdleTask, Updates
<1>5. UNCHANGED <<active, live>> /\ "putSnapshot" \in IdbSteps
  BY <1>1 DEF PersistEffect, IdbSteps, Writes
<1> SUFFICES ASSUME task'[t].op = "switch", task'[t].pc \in Persisting \cup Switching,
                    task'[t].file # None, active # None
             PROVE  /\ NotBefore(live, task'[t].file.rev)
                    /\ task'[t].pc = "putSnapshot" =>
                         /\ task'[t].sid = active
                         /\ \A y \in Tasks : Behind(t, y)' /\ task'[y].pc = "putSnapshot"
                                => NotBefore(task'[y].file, task'[t].file.rev)
                    /\ task'[t].pc # "putSnapshot" =>
                         /\ NotBefore(snapshot'[active], task'[t].file.rev)
                         /\ \A y \in Tasks \ {t} : task'[y].pc = "putSnapshot"
                                => NotBefore(task'[y].file, task'[t].file.rev)
  BY <1>5 DEF Flush, NotBefore
<1>6. CASE u = t
  <2>1. task'[t] = r /\ r.file = task[t].file /\ task[t].op = "switch" /\ task[t].pc \in Persisting
    BY <1>1, <1>2, <1>6 DEF PersistEffect, IdleTask
  <2>2. Flush(t)
    BY DEF FlushInv
  <2>3. NotBefore(live, task[t].file.rev)
    BY <2>1, <2>2 DEF Flush
  <2>4. ASSUME NEW y \in Tasks \ {t}, task'[y].pc = "putSnapshot"
        PROVE  NotBefore(task'[y].file, task[t].file.rev)
    <3>1. task'[y] = task[y]
      BY <1>2, <1>6, <2>4
    <3>2. task[t].pc = "putSnapshot" => Behind(t, y)
      BY <1>3, <1>5, <1>6, <2>4, <3>1
    <3> QED BY <2>1, <2>2, <2>4, <3>1, <3>2 DEF Flush
  <2>5. NotBefore(snapshot'[active], task[t].file.rev)
    <3>1. CASE task[t].pc = "putSnapshot"
      <4>1. task[t].sid = active /\ active \in SessionIds
        BY <2>1, <2>2, <3>1 DEF Flush, IInv, OnTab
      <4>2. snapshot' = [snapshot EXCEPT ![task[t].sid] = task[t].file]
        BY <1>1, <1>6, <2>1, <3>1 DEF PersistEffect
      <4>3. snapshot'[active] = task[t].file
        BY <4>1, <4>2 DEF IInv, Stored
      <4>4. task[t].file \in Content
        BY <1>0, <2>1 DEF IInv, Running, TaskRec, Record
      <4> QED BY <4>3, <4>4 DEF NotBefore, Content
    <3>2. CASE task[t].pc # "putSnapshot"
      <4>1. NotBefore(snapshot[active], task[t].file.rev)
        BY <2>1, <2>2, <3>2 DEF Flush
      <4>2. snapshot'[active] \in {None, snapshot[active]}
        BY <1>1, <1>6, <3>2 DEF PersistEffect, IInv, Stored, OnTab
      <4> QED BY <4>1, <4>2 DEF NotBefore
    <3> QED BY <3>1, <3>2
  <2> QED BY <1>4, <1>6, <2>1, <2>3, <2>4, <2>5
<1>7. CASE u # t
  <2>1. task'[t] = task[t]
    BY <1>0, <1>2, <1>7
  <2>2. Flush(t)
    BY DEF FlushInv
  <2>3. ASSUME NEW y \in Tasks, task'[y].pc = "putSnapshot" PROVE y # u /\ task'[y] = task[y]
    BY <1>2, <1>4, <2>3
  <2>4. CASE task[t].pc = "putSnapshot"
    BY <1>3, <2>1, <2>2, <2>3, <2>4 DEF Flush
  <2>5. CASE task[t].pc # "putSnapshot"
    <3>1. snapshot'[active] \in {None, snapshot[active]}
          \/ (task[u].pc = "putSnapshot" /\ snapshot'[active] = task[u].file)
      BY <1>1 DEF PersistEffect, IInv, Stored, OnTab
    <3>2. NotBefore(snapshot'[active], task[t].file.rev)
      BY <1>7, <2>1, <2>2, <2>5, <3>1 DEF Flush, NotBefore
    <3> QED BY <2>1, <2>2, <2>3, <2>5, <3>2 DEF Flush
  <2> QED BY <2>4, <2>5
<1> QED BY <1>6, <1>7

(* A switch after its flush.                                               *)
LEMMA SwitchMoves ==
  ASSUME IInv, CallInv, NEW t \in Tasks, Progress(t), task[t].op = "switch", ~PersistStep(t)
  PROVE  \E r : /\ Continue(t, r)
                /\ \/ r.pc \notin Persisting \cup Switching
                   \/ /\ r.pc \in Switching /\ r.file = task[t].file
                      /\ task[t].pc \in Switching
                      /\ UNCHANGED <<active, live, snapshot>>
<1>r. task[t] \in TaskRec /\ Shape(task[t])
  BY DEF IInv, Running, CallInv
<1>p. task[t].pc \in Persisting \cup Switching \cup {"drop"} \cup Restoring
  BY <1>r DEF Shape
<1>1. ASSUME NEW pc, pc \notin Persisting \cup Switching, Goto(t, pc)
      PROVE  \E r : Continue(t, r) /\ r.pc \notin Persisting \cup Switching
  <2>1. [task[t] EXCEPT !.pc = pc].pc = pc
    BY <1>r DEF TaskRec
  <2> QED BY <1>1, <2>1 DEF Goto
<1>2. ASSUME Return(t) PROVE \E r : Continue(t, r) /\ r.pc \notin Persisting \cup Switching
  BY <1>2 DEF Return, IdleTask, Persisting, Switching
<1>3. CASE HandlerStep(t)
  <2>1. SetActiveRead(t) \/ SetActiveWrite(t) \/ SwitchRead(t) \/ SwitchDropped(t)
    BY <1>3, <1>p DEF HandlerStep, NewDropped, CreateRead, CreateWrite, RenameRead, RenameWrite,
       DeleteCheck, DeleteRead, DeleteArtifacts, DeleteWrite, DeleteNext, DeleteDropped, FreshRead,
       FreshArtifacts, At, Persisting, Switching, Restoring, Loading
  <2>2. CASE SetActiveRead(t)
    <3> DEFINE r == [task[t] EXCEPT !.pc = "setActiveWrite", !.idx = index]
    <3>1. r.pc = "setActiveWrite" /\ r.file = task[t].file
      BY <1>r DEF TaskRec
    <3>2. /\ Continue(t, r) \/ Return(t)
          /\ task[t].pc = "setActiveRead" /\ UNCHANGED <<active, live, snapshot>>
      BY <2>2 DEF SetActiveRead, At, tab, idb
    <3> HIDE DEF r
    <3> QED BY <1>2, <3>1, <3>2 DEF Switching
  <2>3. CASE SetActiveWrite(t)
    <3> DEFINE r == [task[t] EXCEPT !.pc = "switchRead"]
    <3>1. r.pc = "switchRead" /\ r.file = task[t].file
      BY <1>r DEF TaskRec
    <3>2. Continue(t, r) /\ task[t].pc = "setActiveWrite" /\ UNCHANGED <<active, live, snapshot>>
      BY <2>3 DEF SetActiveWrite, Goto, At, tab
    <3> HIDE DEF r
    <3> QED BY <3>1, <3>2 DEF Switching
  <2>4. CASE SwitchRead(t)
    BY <1>1, <2>4 DEF SwitchRead, Persisting, Switching
  <2>5. CASE SwitchDropped(t)
    <3> DEFINE r == Call(task[t].op, "loadSettings")
    <3>1. r.pc = "loadSettings"
      BY DEF Call, IdleTask
    <3>2. Continue(t, r)
      BY <2>5 DEF SwitchDropped, Restore
    <3> HIDE DEF r
    <3> QED BY <3>1, <3>2 DEF Persisting, Switching
  <2> QED BY <2>1, <2>2, <2>3, <2>4, <2>5
<1>4. CASE RestoreStep(t)
  <2>1. CASE ReadSnapshot(t)
    <3> DEFINE r == [task[t] EXCEPT !.pc = "applyWait", !.file = snapshot[task[t].sid]]
    <3>1. r.pc = "applyWait"
      BY <1>r DEF TaskRec
    <3>2. Continue(t, r) \/ Return(t)
      BY <2>1 DEF ReadSnapshot
    <3> HIDE DEF r
    <3> QED BY <1>2, <3>1, <3>2 DEF Persisting, Switching
  <2>2. CASE ApplyStart(t) \/ ApplyDropped(t)
    BY <1>1, <2>2 DEF ApplyStart, ApplyDropped, Persisting, Switching
  <2>3. CASE ApplyRestored(t)
    <3> DEFINE r == [Call(task[t].op, "readResults") EXCEPT !.sid = active]
    <3>1. r.pc = "readResults"
      BY DEF Call, IdleTask
    <3>2. Continue(t, r) \/ Return(t)
      BY <2>3 DEF ApplyRestored
    <3> HIDE DEF r
    <3> QED BY <1>2, <3>1, <3>2 DEF Persisting, Switching
  <2>4. CASE ApplyOpened(t)
    BY <2>4 DEF ApplyOpened
  <2>5. CASE ReadResults(t)
    BY <1>2, <2>5 DEF ReadResults
  <2>6. CASE LoadFails(t)
    BY <1>2, <2>6 DEF LoadFails
  <2>7. CASE LoadSettings(t)
    <3> DEFINE r == [Call(task[t].op, "readSnapshot") EXCEPT !.sid = active]
    <3>1. r.pc = "readSnapshot"
      BY DEF Call, IdleTask
    <3>2. Continue(t, r) \/ Return(t)
      BY <2>7 DEF LoadSettings
    <3> HIDE DEF r
    <3> QED BY <1>2, <3>1, <3>2 DEF Persisting, Switching
  <2> QED BY <1>4, <2>1, <2>2, <2>3, <2>4, <2>5, <2>6, <2>7 DEF RestoreStep
<1>5. ~BootStep(t)
  BY <1>p DEF BootStep, BootRead, BootLegacy, BootPut, BootForget, BootWrite, At, Persisting,
     Switching, Restoring, Loading
<1> QED BY <1>3, <1>4, <1>5 DEF Progress

LEMMA FlushProgress ==
  ASSUME OneHandler, IInv, CallInv, QueueInv, FlushInv, NEW u \in Tasks, Progress(u),
         NEW t \in Handlers
  PROVE  Flush(t)'
<1>0. t \in Tasks
  BY DEF Tasks
<1>1. CASE PersistStep(u)
  BY <1>1, FlushPersist
<1>2. CASE ~PersistStep(u) /\ u # t
  <2>1. u \notin Handlers
    BY <1>2 DEF OneHandler
  <2>2. task[u].op \in {"none", "save"} /\ task[u].pc \in Persisting \cup {"idle"}
    BY <2>1 DEF CallInv, Called, Shape
  <2> QED BY <1>2, <2>2 DEF Progress, HandlerStep, NewDropped, CreateRead, CreateWrite, RenameRead,
      RenameWrite, SetActiveRead, SetActiveWrite, SwitchRead, SwitchDropped,
      DeleteCheck, DeleteRead, DeleteArtifacts, DeleteWrite, DeleteNext, DeleteDropped, FreshRead,
      FreshArtifacts, RestoreStep, LoadSettings, ReadSnapshot, ApplyStart, ApplyDropped,
      ApplyRestored, ApplyOpened, LoadFails, Loading, ReadResults, BootStep, BootRead, BootLegacy, BootPut, BootForget, BootWrite,
      At, Persisting
<1>3. CASE ~PersistStep(u) /\ u = t /\ task[t].op = "switch"
  <2>1. PICK r : /\ Continue(t, r)
                 /\ \/ r.pc \notin Persisting \cup Switching
                    \/ /\ r.pc \in Switching /\ r.file = task[t].file
                       /\ task[t].pc \in Switching
                       /\ UNCHANGED <<active, live, snapshot>>
    BY <1>0, <1>3, SwitchMoves
  <2>2. /\ task'[t] = IF r.pc = "idle" THEN IdleTask ELSE r
        /\ \A x \in Tasks : x # t => task'[x] = task[x]
    BY <1>0, <2>1, Continues
  <2>3. CASE r.pc \notin Persisting \cup Switching
    <3>1. task'[t].pc \notin Persisting \cup Switching
      BY <2>2, <2>3 DEF IdleTask
    <3> QED BY <3>1 DEF Flush
  <2>4. CASE r.pc \in Switching
    <3>1. /\ task'[t] = r /\ r.file = task[t].file /\ task[t].pc \in Switching
          /\ UNCHANGED <<active, live, snapshot>>
      BY <2>1, <2>2, <2>4 DEF Persisting, Switching
    <3>2. task[t].pc # "putSnapshot" /\ r.pc # "putSnapshot"
      BY <2>4, <3>1 DEF Switching
    <3>3. Flush(t)
      BY DEF FlushInv
    <3>4. ASSUME task[t].file # None, active # None
          PROVE  /\ NotBefore(live, task[t].file.rev)
                 /\ NotBefore(snapshot[active], task[t].file.rev)
                 /\ \A y \in Tasks \ {t} : task[y].pc = "putSnapshot"
                       => NotBefore(task[y].file, task[t].file.rev)
      BY <1>3, <3>1, <3>2, <3>3, <3>4 DEF Flush
    <3>5. \A y \in Tasks \ {t} : task'[y] = task[y]
      BY <2>2
    <3>6. task'[t].pc # "putSnapshot" /\ task'[t].file = task[t].file
      BY <3>1, <3>2
    <3> SUFFICES ASSUME task'[t].file # None, active # None
                 PROVE  /\ NotBefore(live, task'[t].file.rev)
                        /\ NotBefore(snapshot[active], task'[t].file.rev)
                        /\ \A y \in Tasks \ {t} : task'[y].pc = "putSnapshot"
                               => NotBefore(task'[y].file, task'[t].file.rev)
      BY <3>1, <3>6 DEF Flush, NotBefore
    <3> QED BY <3>4, <3>5, <3>6
  <2> QED BY <2>1, <2>3, <2>4
<1>4. CASE u = t /\ task[t].op # "switch"
  <2>1. PICK r : GoesOn(t, r)
    BY <1>0, <1>4, ProgressGoesOn
  <2>2. task'[t] = IF r.pc = "idle" THEN IdleTask ELSE r
    BY <1>0, <2>1, Continues DEF GoesOn
  <2>3. task'[t].op # "switch"
    BY <1>4, <2>1, <2>2 DEF GoesOn, IdleTask
  <2> QED BY <2>3 DEF Flush
<1> QED BY <1>1, <1>2, <1>3, <1>4

(* A save that starts writes what is on screen, behind the requests that   *)
(* are pending.                                                            *)
LEMMA FlushSaves ==
  ASSUME IInv, CallInv, QueueInv, FlushInv, NEW u \in Savers, TimerFires(u) \/ PageHide(u),
         NEW t \in Handlers
  PROVE  Flush(t)'
<1>0. t \in Tasks /\ u \in Tasks
  BY DEF Tasks
<1>1. /\ PersistSnapshot(u, Call("save", "idle")) /\ UNCHANGED <<snapshot, live, active>>
      /\ task[u].pc = "idle"
  BY DEF TimerFires, PageHide, idb
<1>2. PICK r : /\ Continue(u, r) /\ r.op = "save"
               /\ \/ r.pc = "putSnapshot" /\ r.file = live
                  \/ r.pc \in {"clearSnapshot", "idle"}
  BY <1>0, <1>1, PersistCalls, SaveCall DEF PersistCall
<1>3. /\ task'[u] = IF r.pc = "idle" THEN IdleTask ELSE r
      /\ \A x \in Tasks : x # u => task'[x] = task[x]
  BY <1>0, <1>2, Continues
<1>4. \A x, y : Behind(x, y)' => Behind(x, y) \/ y = u
  BY <1>0, <1>1, <1>2, BehindMoves, IdleNotQueued DEF Served
<1>5. CASE u = t
  <2>1. task'[t].op # "switch"
    BY <1>2, <1>3, <1>5 DEF IdleTask
  <2> QED BY <2>1 DEF Flush
<1>6. CASE u # t
  <2>1. task'[t] = task[t] /\ Flush(t)
    BY <1>0, <1>3, <1>6 DEF FlushInv
  <2>2. ASSUME NEW y \in Tasks, task'[y].pc = "putSnapshot"
        PROVE  \/ y = u /\ task'[y].file = live
               \/ y # u /\ task'[y] = task[y]
    <3>1. "putSnapshot" \notin {"clearSnapshot", "idle"}
      OBVIOUS
    <3> QED BY <1>2, <1>3, <2>2, <3>1 DEF IdleTask
  <2> SUFFICES ASSUME task[t].op = "switch", task[t].pc \in Persisting \cup Switching,
                      task[t].file # None, active # None
               PROVE  /\ NotBefore(live, task[t].file.rev)
                      /\ task[t].pc = "putSnapshot" =>
                           /\ task[t].sid = active
                           /\ \A y \in Tasks : Behind(t, y)' /\ task'[y].pc = "putSnapshot"
                                  => NotBefore(task'[y].file, task[t].file.rev)
                      /\ task[t].pc # "putSnapshot" =>
                           /\ NotBefore(snapshot[active], task[t].file.rev)
                           /\ \A y \in Tasks \ {t} : task'[y].pc = "putSnapshot"
                                  => NotBefore(task'[y].file, task[t].file.rev)
    BY <1>1, <2>1 DEF Flush, NotBefore
  <2>3. NotBefore(live, task[t].file.rev)
    BY <2>1 DEF Flush
  <2>4. ASSUME NEW y \in Tasks, Behind(t, y)', task'[y].pc = "putSnapshot", task[t].pc = "putSnapshot"
        PROVE  NotBefore(task'[y].file, task[t].file.rev)
    BY <1>4, <2>1, <2>2, <2>3, <2>4 DEF Flush
  <2>5. ASSUME NEW y \in Tasks \ {t}, task'[y].pc = "putSnapshot", task[t].pc # "putSnapshot"
        PROVE  NotBefore(task'[y].file, task[t].file.rev)
    BY <2>1, <2>2, <2>3, <2>5 DEF Flush
  <2>6. /\ task[t].pc = "putSnapshot" => task[t].sid = active
        /\ task[t].pc # "putSnapshot" => NotBefore(snapshot[active], task[t].file.rev)
    BY <2>1 DEF Flush
  <2> QED BY <2>3, <2>4, <2>5, <2>6
<1> QED BY <1>5, <1>6

LEMMA FlushUser ==
  ASSUME OneHandler, IInv, CallInv, QueueInv, FlushInv, NEW h \in Handlers, UserStep(h),
         NEW t \in Handlers
  PROVE  Flush(t)'
<1>0. h = t /\ t \in Tasks
  BY DEF OneHandler, Tasks
<1>g. ASSUME NEW r, Continue(t, r), r.op # "switch" PROVE Flush(t)'
  <2>1. task'[t].op # "switch"
    BY <1>0, <1>g, Continues DEF IdleTask
  <2> QED BY <2>1 DEF Flush
<1>1. CASE NewSession(t)
  <2> DEFINE q == Call("new", "idle")
             c == [q EXCEPT !.after = "drop"]
  <2>1. q \in TaskRec /\ q.op = "new"
    BY CallType DEF TaskOps, Steps
  <2>2. PersistSnapshot(t, c)
    BY <1>1 DEF NewSession
  <2> HIDE DEF q
  <2>3. c \in TaskRec /\ c.op = "new"
    BY <2>1 DEF TaskRec
  <2> HIDE DEF c
  <2>4. PICK r : Continue(t, r) /\ r.op = "new"
    BY <1>0, <2>2, <2>3, PersistCalls DEF PersistCall
  <2> QED BY <1>g, <2>4
<1>2. CASE RenameSession(t) \/ DeleteSession(t) \/ StartFresh(t) \/ OpenFile(t)
  <2>1. Call("rename", "renameRead").op = "rename"
    BY DEF Call, IdleTask
  <2>2. ASSUME NEW id PROVE [Call("delete", "deleteCheck") EXCEPT !.id = id].op = "delete"
    BY DEF Call, IdleTask
  <2>3. [Call("fresh", "freshRead") EXCEPT !.id = active].op = "fresh"
    BY DEF Call, IdleTask
  <2>4. ASSUME NEW f PROVE [Call("open", "applyWait") EXCEPT !.file = f].op = "open"
    BY DEF Call, IdleTask
  <2>5. CASE RenameSession(t)
    BY <1>g, <2>1, <2>5 DEF RenameSession
  <2>6. CASE DeleteSession(t)
    BY <1>g, <2>2, <2>6 DEF DeleteSession
  <2>7. CASE StartFresh(t)
    BY <1>g, <2>3, <2>7 DEF StartFresh
  <2>8. CASE OpenFile(t)
    BY <1>g, <2>4, <2>8 DEF OpenFile
  <2> QED BY <1>2, <2>5, <2>6, <2>7, <2>8
<1>3. CASE SwitchSession(t)
  <2>1. PICK id \in issued \ {active} :
          PersistSnapshot(t, [Call("switch", "idle")
                               EXCEPT !.after = "setActiveRead", !.id = id, !.file = live])
    BY <1>3 DEF SwitchSession
  <2> DEFINE q == Call("switch", "idle")
             c == [q EXCEPT !.after = "setActiveRead", !.id = id, !.file = live]
  <2>2. id \in SessionIds /\ live \in Record
    BY DEF IInv, Stored, OnTab
  <2>3. q \in TaskRec
    BY CallType DEF TaskOps, Steps
  <2>4. PersistSnapshot(t, c)
    BY <2>1
  <2> HIDE DEF q
  <2>5. c \in TaskRec /\ c.file = live
    BY <2>2, <2>3 DEF TaskRec
  <2> HIDE DEF c
  <2>6. PICK r : /\ Continue(t, r) /\ r.file = live
                 /\ r.pc = "putSnapshot" => r.sid = active
                 /\ live # None /\ active # None => r.pc = "putSnapshot"
    <3>1. PICK r : PersistCall(t, c, r)
      BY <1>0, <2>4, <2>5, PersistCalls
    <3>2. c.after = "setActiveRead"
      BY <2>3 DEF TaskRec, c
    <3> QED BY <2>5, <3>1, <3>2 DEF PersistCall
  <2>7. task'[t] = IF r.pc = "idle" THEN IdleTask ELSE r
    BY <1>0, <2>6, Continues
  <2>8. UNCHANGED <<active, live>> /\ task[t].pc = "idle"
    BY <1>3 DEF SwitchSession, Clicks
  <2>9. \A x, y : Behind(x, y)' => x # t
    BY <1>0, <2>6, <2>8, BehindMoves, IdleNotQueued DEF Served
  <2>10. ASSUME task'[t].file # None, active # None
         PROVE  task'[t].pc = "putSnapshot" /\ task'[t].file = live /\ task'[t].sid = active
    BY <2>6, <2>7, <2>10 DEF IdleTask
  <2>11. ASSUME live # None PROVE NotBefore(live, live.rev)
    BY <2>2, <2>11 DEF NotBefore, Record, Content
  <2> QED BY <2>2, <2>8, <2>9, <2>10, <2>11 DEF Flush, NotBefore
<1> QED BY <1>0, <1>1, <1>2, <1>3 DEF UserStep

LEMMA FlushStep ==
  ASSUME OneHandler
  PROVE  IInv /\ CallInv /\ QueueInv /\ RevInv /\ FlushInv /\ [Next]_vars => FlushInv'
<1> SUFFICES ASSUME IInv, CallInv, QueueInv, RevInv, FlushInv, [Next]_vars, NEW t \in Handlers
             PROVE  Flush(t)'
  BY DEF FlushInv
<1>0. t \in Tasks /\ Flush(t)
  BY DEF Tasks, FlushInv
<1>1. CASE UNCHANGED vars
  BY <1>0, <1>1 DEF vars, idb, tab, Flush, Behind, NotBefore
<1>2. CASE Edit \/ RemoveAll
  <2>1. UNCHANGED <<task, queue, snapshot, active>>
    BY <1>2 DEF Edit, RemoveAll, idb
  <2>2. NotBefore(live', task[t].file.rev) \/ task[t].file = None
    <3>1. CASE RemoveAll
      BY <3>1 DEF RemoveAll, NotBefore
    <3>2. CASE Edit
      <4>1. live'.rev = rev + 1
        BY <3>2, EditRev
      <4>2. task[t].file # None => task[t].file.rev <= rev /\ task[t].file \in Content
        BY <1>0 DEF RevInv, NotAfter, IInv, Running, TaskRec, Record
      <4>3. rev \in Nat
        BY DEF IInv, Stored
      <4> QED BY <4>1, <4>2, <4>3 DEF NotBefore, Content
    <3> QED BY <1>2, <3>1, <3>2
  <2> QED BY <1>0, <2>1, <2>2 DEF Flush, Behind, NotBefore
<1>3. ASSUME NEW h \in Handlers, Unload(h) PROVE Flush(t)'
  <2>1. task'[t].op # "switch"
    BY <1>0, <1>3 DEF Unload, Booting, Call, IdleTask
  <2> QED BY <2>1 DEF Flush
<1> QED BY <1>1, <1>2, <1>3, FlushProgress, FlushSaves, FlushUser DEF Next

LEMMA FlushInit == Init => FlushInv
<1> SUFFICES ASSUME Init, NEW t \in Handlers PROVE Flush(t)
  BY DEF FlushInv
<1>1. task[t].op # "switch"
  BY DEF Init, Booting, Call, IdleTask, Tasks
<1> QED BY <1>1 DEF Flush

LEMMA FlushImplies == FlushInv => OutgoingFlushed
<1> SUFFICES ASSUME FlushInv, NEW t \in Handlers, task[t].op = "switch",
                    task[t].pc \in {"setActiveRead", "setActiveWrite", "switchRead"},
                    task[t].file # None, active # None, snapshot[active] # None
             PROVE  snapshot[active].rev >= task[t].file.rev
  BY DEF OutgoingFlushed
<1> QED BY DEF FlushInv, Flush, Switching, NotBefore

(* What a session switch leaves behind is safe: for any number of saves in *)
(* flight and whatever their writes do, from the moment the flush of a     *)
(* switch is over until the tab has read the moved pointer, the snapshot   *)
(* of the session it leaves is no older than the workspace at the click    *)
(* (main.ts, the awaited persistSnapshot before setActiveSession).  It     *)
(* takes that no other click handler runs meanwhile.                       *)
THEOREM SwitchFlushesOutgoing ==
  ASSUME OneHandler
  PROVE  Spec => []OutgoingFlushed
<1>1. IInv /\ CallInv /\ QueueInv /\ RevInv /\ FlushInv /\ [Next]_vars => FlushInv'
  BY FlushStep
<1>2. IInv /\ CallInv /\ QueueInv /\ [Next]_vars => QueueInv'
  BY QueueInvStep
<1>3. IInv /\ RevInv /\ [Next]_vars => RevInv'
  BY RevStep
<1> QED BY <1>1, <1>2, <1>3, FlushInit, QueueInvInit, RevInit, FlushImplies, SpecCalls, PTL DEF Spec

-----------------------------------------------------------------------------
(* What the store will hold: DInv. *)

(* No write or import is rejected, no click restores another session while *)
(* the auto-save runs, and the user waits for the boot to end.             *)
Undisturbed == {"fail", "switch", "delete", "early"} \cap Ops = {}

(* Task t has asked for the snapshot of the session on screen to become    *)
(* Update(task[t]).                                                        *)
Updating(t) == task[t].pc \in Updates /\ task[t].sid = active
Update(r)   == IF r.pc = "putSnapshot" THEN r.file ELSE None

(* What that snapshot will be when the requests that are pending have been *)
(* served: the last of them decides.                                       *)
WillBe(c) ==
  \/ \E t \in Tasks : /\ Updating(t) /\ Update(task[t]) = c
                      /\ \A u \in Tasks : Updating(u) => ~Behind(t, u)
  \/ (\A t \in Tasks : ~Updating(t)) /\ snapshot[active] = c

LEMMA UpdatesQueued == Updates \subseteq IdbSteps /\ "idle" \notin Updates
BY DEF Updates, IdbSteps, Writes, Reads

(* A step that neither makes nor serves an update.                         *)
LEMMA WillKeep ==
  ASSUME IInv, QueueInv, NEW t \in Tasks, NEW r, Continue(t, r), Served(t),
         task[t].pc \notin Updates, r.pc \notin Updates, UNCHANGED <<active, snapshot>>,
         NEW c, WillBe(c)
  PROVE  WillBe(c)'
<1>1. /\ task'[t] = IF r.pc = "idle" THEN IdleTask ELSE r
      /\ \A u \in Tasks : u # t => task'[u] = task[u]
  BY Continues
<1>2. \A x, y : Behind(x, y)' => x # t /\ (Behind(x, y) \/ y = t)
  BY BehindMoves
<1>3. ~Updating(t) /\ ~Updating(t)'
  BY <1>1, UpdatesQueued DEF Updating, IdleTask
<1>4. ASSUME NEW u \in Tasks PROVE Updating(u)' <=> Updating(u)
  BY <1>1, <1>3, <1>4 DEF Updating
<1>5. CASE \A u \in Tasks : ~Updating(u)
  BY <1>4, <1>5 DEF WillBe
<1>6. ASSUME NEW x \in Tasks, Updating(x), Update(task[x]) = c,
             \A u \in Tasks : Updating(u) => ~Behind(x, u)
      PROVE  WillBe(c)'
  <2>1. x # t /\ task'[x] = task[x]
    BY <1>1, <1>3, <1>6
  <2>2. Updating(x)' /\ Update(task'[x]) = c
    BY <1>4, <1>6, <2>1
  <2>3. ASSUME NEW u \in Tasks, Updating(u)' PROVE ~Behind(x, u)'
    BY <1>2, <1>3, <1>4, <1>6, <2>3
  <2> QED BY <2>2, <2>3 DEF WillBe, Update
<1> QED BY <1>5, <1>6 DEF WillBe

(* A step of persistSnapshot: the oldest request is served.                *)
LEMMA WillServed ==
  ASSUME IInv, QueueInv, "fail" \notin Ops, NEW t \in Tasks, NEW r, PersistEffect(t, r), Served(t),
         active # None, NEW c, WillBe(c)
  PROVE  WillBe(c)'
<1>1. /\ task'[t] = IF r.pc = "idle" THEN IdleTask ELSE r
      /\ \A u \in Tasks : u # t => task'[u] = task[u]
  BY Continues DEF PersistEffect
<1>2. /\ \A x, y : Behind(x, y)' => x # t /\ (Behind(x, y) \/ y = t)
      /\ task[t].pc \in IdbSteps =>
           \A y \in Tasks \ {t} : task[y].pc \in IdbSteps => Behind(t, y)
  BY BehindMoves DEF PersistEffect
<1>3. r.pc \notin Updates /\ ~Updating(t)'
  BY <1>1 DEF PersistEffect, Updates, Updating, IdleTask
<1>4. ASSUME NEW u \in Tasks, u # t PROVE (Updating(u)' <=> Updating(u)) /\ task'[u] = task[u]
  BY <1>1, <1>4 DEF Updating, PersistEffect
<1>5. active' = active /\ snapshot \in [SessionIds -> Record]
  BY DEF PersistEffect, IInv, Stored
<1>6. CASE task[t].pc \notin Updates
  <2>1. snapshot' = snapshot
    BY <1>6 DEF PersistEffect, Updates
  <2> QED BY <1>3, <1>5, <1>6, <2>1, WillKeep DEF PersistEffect
<1>7. CASE task[t].pc \in Updates
  <2>1. snapshot' = [snapshot EXCEPT ![task[t].sid] = Update(task[t])]
    BY <1>7 DEF PersistEffect, Updates, Update
  <2>2. ASSUME NEW x \in Tasks, x # t, Updating(x), Update(task[x]) = c,
               \A u \in Tasks : Updating(u) => ~Behind(x, u)
        PROVE  WillBe(c)'
    <3>1. Updating(x)' /\ Update(task'[x]) = c
      BY <1>4, <2>2
    <3>2. ASSUME NEW u \in Tasks, Updating(u)' PROVE ~Behind(x, u)'
      BY <1>2, <1>3, <1>4, <2>2, <3>2
    <3> QED BY <3>1, <3>2 DEF WillBe, Update
  <2>3. ASSUME Updating(t), Update(task[t]) = c, \A u \in Tasks : Updating(u) => ~Behind(t, u)
        PROVE  WillBe(c)'
    <3>1. \A u \in Tasks : ~Updating(u)'
      BY <1>2, <1>3, <1>4, <1>7, <2>3, UpdatesQueued DEF Updating
    <3>2. active = task[t].sid /\ active \in SessionIds
      BY <2>3 DEF Updating, IInv, OnTab
    <3> QED BY <1>5, <2>1, <2>3, <3>1, <3>2 DEF WillBe
  <2>4. ASSUME \A u \in Tasks : ~Updating(u), snapshot[active] = c PROVE WillBe(c)'
    <3>1. task[t].sid # active
      BY <1>7, <2>4 DEF Updating
    <3>2. snapshot'[active] = snapshot[active]
      BY <1>5, <2>1, <3>1
    <3>3. \A u \in Tasks : ~Updating(u)'
      BY <1>3, <1>4, <2>4
    <3> QED BY <1>5, <2>4, <3>2, <3>3 DEF WillBe
  <2> QED BY <2>2, <2>3, <2>4 DEF WillBe
<1> QED BY <1>6, <1>7

(* A task that asks for an update decides.                                 *)
LEMMA WillStart ==
  ASSUME IInv, QueueInv, NEW t \in Tasks, NEW r, Continue(t, r), Served(t),
         r.pc \in Updates, r.sid = active, active' = active
  PROVE  WillBe(Update(r))'
<1> DEFINE c == Update(r)
<1>1. task'[t] = r
  BY Continues, UpdatesQueued
<1>2. \A x, y : Behind(x, y)' => x # t
  BY BehindMoves
<1>3. Updating(t)' /\ Update(task'[t]) = c
  BY <1>1 DEF Updating
<1> HIDE DEF c
<1>4. \E x \in Tasks : /\ Updating(x)' /\ Update(task'[x]) = c
                       /\ \A u \in Tasks : Updating(u)' => ~Behind(x, u)'
  BY <1>2, <1>3
<1> QED BY <1>4 DEF WillBe, c, Update

(* Emptying snapshots keeps an emptied one empty.                          *)
LEMMA WillCleared ==
  ASSUME IInv, QueueInv, NEW t \in Tasks, NEW r, Continue(t, r), Served(t),
         task[t].pc \notin Updates, r.pc \notin Updates, active' = active,
         snapshot'[active] \in {snapshot[active], None}, WillBe(None)
  PROVE  WillBe(None)'
<1>1. /\ task'[t] = IF r.pc = "idle" THEN IdleTask ELSE r
      /\ \A u \in Tasks : u # t => task'[u] = task[u]
  BY Continues
<1>2. \A x, y : Behind(x, y)' => x # t /\ (Behind(x, y) \/ y = t)
  BY BehindMoves
<1>3. ~Updating(t) /\ ~Updating(t)'
  BY <1>1, UpdatesQueued DEF Updating, IdleTask
<1>4. ASSUME NEW u \in Tasks PROVE Updating(u)' <=> Updating(u)
  BY <1>1, <1>3, <1>4 DEF Updating
<1>5. CASE \A u \in Tasks : ~Updating(u)
  <2>1. snapshot[active] = None
    BY <1>5 DEF WillBe
  <2> QED BY <1>4, <1>5, <2>1 DEF WillBe
<1>6. ASSUME NEW x \in Tasks, Updating(x), Update(task[x]) = None,
             \A u \in Tasks : Updating(u) => ~Behind(x, u)
      PROVE  WillBe(None)'
  <2>1. x # t /\ task'[x] = task[x]
    BY <1>1, <1>3, <1>6
  <2>2. Updating(x)' /\ Update(task'[x]) = None
    BY <1>4, <1>6, <2>1
  <2>3. ASSUME NEW u \in Tasks, Updating(u)' PROVE ~Behind(x, u)'
    BY <1>2, <1>3, <1>4, <1>6, <2>3
  <2> QED BY <2>2, <2>3 DEF WillBe, Update
<1> QED BY <1>5, <1>6 DEF WillBe

(* No snapshot, tab or save knows session s.                               *)
Unknown(s) == snapshot[s] = None /\ active # s /\ \A u \in Tasks : task[u].sid # s

(* An id that has not been handed out is nowhere; the one a New session    *)
(* has been given is nowhere but in the index it writes.                   *)
IdsInv ==
  /\ \A s \in SessionIds \ issued :
       /\ Unknown(s) /\ s \notin index.sessions
       /\ \A u \in Tasks : task[u].id # s /\ s \notin task[u].idx.sessions
  /\ \A t \in Tasks : task[t].pc = "createWrite" =>
       /\ Unknown(task[t].id)
       /\ \A u \in Tasks \ {t} : task[u].pc = "createWrite" => task[u].id # task[t].id

LEMMA IdsMoves ==
  ASSUME IInv, IdsInv, NEW t \in Tasks, NEW r, Continue(t, r), issued \subseteq issued',
         \A s \in SessionIds \ issued' :
           /\ r.sid # s /\ r.id # s /\ s \notin r.idx.sessions
           /\ active' # s /\ snapshot'[s] = None /\ s \notin index'.sessions,
         \A u \in Tasks \ {t} : task[u].pc = "createWrite" =>
           /\ r.sid # task[u].id /\ active' # task[u].id /\ snapshot'[task[u].id] = None
           /\ r.pc = "createWrite" => r.id # task[u].id,
         r.pc = "createWrite" => /\ r.id \in SessionIds
                                 /\ snapshot'[r.id] = None /\ active' # r.id /\ r.sid # r.id
                                 /\ \A u \in Tasks \ {t} : task[u].sid # r.id
  PROVE  IdsInv'
<1>1. /\ task'[t] = IF r.pc = "idle" THEN IdleTask ELSE r
      /\ \A u \in Tasks : u # t => task'[u] = task[u]
  BY Continues
<1>2. /\ IdleTask.pc # "createWrite" /\ IdleTask.sid = None /\ IdleTask.id = None
      /\ IdleTask.idx.sessions = {}
  BY DEF IdleTask, EmptyIndex
<1>3. /\ task'[t].pc = "createWrite" => task'[t] = r /\ r.pc = "createWrite"
      /\ task'[t].sid \in {r.sid, None} /\ task'[t].id \in {r.id, None}
      /\ task'[t].idx.sessions \in {r.idx.sessions, {}}
  BY <1>1, <1>2
<1>4. ASSUME NEW s \in SessionIds \ issued'
      PROVE  /\ snapshot'[s] = None /\ active' # s /\ s \notin index'.sessions
             /\ \A u \in Tasks : /\ task'[u].sid # s /\ task'[u].id # s
                                 /\ s \notin task'[u].idx.sessions
  <2>1. s # None /\ s \in SessionIds \ issued
    BY <1>4, NoneAssumption
  <2>2. ASSUME NEW u \in Tasks
        PROVE  task'[u].sid # s /\ task'[u].id # s /\ s \notin task'[u].idx.sessions
    <3>1. CASE u = t
      BY <1>3, <2>1, <3>1
    <3>2. CASE u # t
      BY <1>1, <2>1, <3>2 DEF IdsInv, Unknown
    <3> QED BY <3>1, <3>2
  <2> QED BY <2>2
<1>5. ASSUME NEW x \in Tasks, task'[x].pc = "createWrite"
      PROVE  /\ snapshot'[task'[x].id] = None /\ active' # task'[x].id
             /\ \A u \in Tasks : task'[u].sid # task'[x].id
             /\ \A u \in Tasks \ {x} : task'[u].pc = "createWrite" => task'[u].id # task'[x].id
  <2>1. CASE x = t
    BY <1>1, <1>3, <1>5, <2>1
  <2>2. CASE x # t
    <3>1. task'[x] = task[x] /\ task[x].pc = "createWrite"
      BY <1>1, <1>5, <2>2
    <3>2. task[x].id \in SessionIds /\ task[x].id # None
      BY <3>1, NoneAssumption DEF IInv, Running, Sound, Naming
    <3>3. Unknown(task[x].id)
      BY <3>1 DEF IdsInv
    <3>4. ASSUME NEW u \in Tasks
          PROVE  /\ task'[u].sid # task[x].id
                 /\ u # x /\ task'[u].pc = "createWrite" => task'[u].id # task[x].id
      <4>1. CASE u = t
        BY <1>3, <2>2, <3>1, <3>2, <4>1
      <4>2. CASE u # t
        BY <1>1, <3>1, <3>3, <4>2 DEF IdsInv, Unknown
      <4> QED BY <4>1, <4>2
    <3> QED BY <2>2, <3>1, <3>4
  <2> QED BY <2>1, <2>2
<1> QED BY <1>4, <1>5 DEF IdsInv, Unknown

(* Most steps move no id.                                                  *)
LEMMA IdsKeep ==
  ASSUME IInv, IdsInv, NEW t \in Tasks, NEW r, Continue(t, r), UNCHANGED <<active, issued>>,
         r.pc # "createWrite", r.sid \in {task[t].sid, active, None},
         r.id \in {task[t].id, active, None},
         r.idx.sessions \subseteq task[t].idx.sessions \cup index.sessions,
         index'.sessions \subseteq task[t].idx.sessions \cup index.sessions,
         \A s \in SessionIds : s # task[t].sid => snapshot'[s] \in {snapshot[s], None}
  PROVE  IdsInv'
<1>1. \A s \in SessionIds \ issued' :
           /\ r.sid # s /\ r.id # s /\ s \notin r.idx.sessions
           /\ active' # s /\ snapshot'[s] = None /\ s \notin index'.sessions
  BY NoneAssumption DEF IdsInv, Unknown
<1>2. ASSUME NEW u \in Tasks \ {t}, task[u].pc = "createWrite"
      PROVE  r.sid # task[u].id /\ active' # task[u].id /\ snapshot'[task[u].id] = None
  <2>1. task[u].id \in SessionIds /\ task[u].id # None
    BY <1>2, NoneAssumption DEF IInv, Running, Sound, Naming
  <2>2. Unknown(task[u].id)
    BY <1>2 DEF IdsInv
  <2> QED BY <2>1, <2>2 DEF Unknown
<1> QED BY <1>1, <1>2, IdsMoves

(* Program points at which what is on screen is about to be replaced, or   *)
(* the page to be reloaded.                                                *)
Moving == {"createRead", "createWrite", "applyDrop", "applyMount", "reload"}

(* The store will hold what is on screen; or the screen is empty because   *)
(* nothing of what the store holds could be brought back.                  *)
Blank == unrestored /\ ~wasNonEmpty
Kept  == (live = None /\ Blank) \/ \E c : WillBe(c) /\ Stores(c)

(* A save is due, or the workspace is being replaced, or the requests that *)
(* are pending will leave it in the store; and a workspace that counts as  *)
(* empty is stored as empty, unless the store has more than was brought    *)
(* back.                                                                   *)
StoreInv ==
  booted => /\ active # None
            /\ timer \/ (\E t \in Tasks : task[t].pc \in Moving) \/ Kept
            /\ wasNonEmpty \/ unrestored \/ WillBe(None)

ApplyInv ==
  applying # None => applying \in Tasks /\ task[applying].pc \in {"applyDrop", "applyMount"}

(* An empty screen is stored as empty, or more is stored than was brought  *)
(* back.                                                                   *)
Known == wasNonEmpty \/ unrestored \/ snapshot[active] = None

(* A boot restores the snapshot of the session it makes active.            *)
Boots(r) ==
  r.op = "boot" =>
    /\ r.pc \in {"bootPut", "bootForget", "bootWrite"} => r.id \in SessionIds
    /\ r.pc \in {"readSnapshot"} \cup Loading => r.sid \in SessionIds
BootInv ==
  \A t \in Tasks :
    /\ Boots(task[t])
    /\ task[t].op = "boot" =>
         /\ task[t].pc \in {"readSnapshot"} \cup Loading => task[t].sid = active
         /\ task[t].pc \in Loading => task[t].file = snapshot[active]
         /\ task[t].pc = "loadSettings" => active # None
         /\ task[t].pc = "readResults" =>
              active # None /\ Stores(snapshot[active]) /\ Known

DInv == StoreInv /\ ApplyInv /\ BootInv /\ IdsInv

(* While a handler or a save runs there is no boot.                        *)
LEMMA NoBoot ==
  ASSUME Undisturbed, CallInv, NEW t \in Tasks, task[t].op \notin {"none", "boot"} \/ booted
  PROVE  \A u \in Tasks : task[u].op # "boot"
BY DEF CallInv, Called, Undisturbed

LEMMA BootInvMoves ==
  ASSUME IInv, NEW t \in Tasks, NEW r, Continue(t, r), r.op # "boot",
         \A u \in Tasks : task[u].op # "boot"
  PROVE  BootInv'
<1>1. \A u \in Tasks : task'[u].op # "boot"
  BY Continues DEF IdleTask
<1> QED BY <1>1 DEF BootInv, Boots

LEMMA ApplyInvMoves ==
  ASSUME IInv, ApplyInv, NEW t \in Tasks, NEW r, Continue(t, r),
         \/ applying' = None
         \/ r.pc \in {"applyDrop", "applyMount"} /\ applying' \in {applying, t}
         \/ task[t].pc \notin {"applyDrop", "applyMount"} /\ applying' = applying
  PROVE  ApplyInv'
BY Continues DEF ApplyInv, IdleTask

LEMMA StoreMoves ==
  ASSUME IInv, NEW t \in Tasks, NEW r, Continue(t, r),
         booted' => /\ active' # None
                    /\ \/ timer' \/ r.pc \in Moving \/ Kept'
                       \/ \E u \in Tasks \ {t} : task[u].pc \in Moving
                    /\ wasNonEmpty' \/ unrestored' \/ WillBe(None)'
  PROVE  StoreInv'
<1>1. "idle" \notin Moving
  BY DEF Moving
<1>2. /\ task'[t].pc = r.pc
      /\ \A u \in Tasks \ {t} : task'[u].pc = task[u].pc
  BY Continues DEF IdleTask
<1> QED BY <1>1, <1>2 DEF StoreInv

(* What is kept stays so while it is on screen.                            *)
LEMMA KeptSame ==
  ASSUME UNCHANGED <<live, wasNonEmpty, unrestored>>, \A c : WillBe(c) => WillBe(c)', Kept
  PROVE  Kept'
BY DEF Kept, Blank, Stores

LEMMA StoreKeep ==
  ASSUME IInv, QueueInv, StoreInv, NEW t \in Tasks, NEW r, Continue(t, r), Served(t),
         task[t].pc \notin Updates, r.pc \notin Updates,
         task[t].pc \in Moving => r.pc \in Moving, timer => timer',
         UNCHANGED <<active, snapshot, live, wasNonEmpty, booted, unrestored>>
  PROVE  StoreInv'
<1>1. \A c : WillBe(c) => WillBe(c)'
  BY WillKeep
<1>2. Kept => Kept'
  BY <1>1, KeptSame
<1> QED BY <1>1, <1>2, StoreMoves DEF StoreInv

LEMMA PersistD ==
  ASSUME Undisturbed, IInv, CallInv, QueueInv, DInv, NEW t \in Tasks, PersistStep(t)
  PROVE  DInv'
<1>1. PICK r : PersistEffect(t, r)
  BY PersistEffects
<1>2. Served(t) /\ Continue(t, r) /\ "fail" \notin Ops
  BY <1>1, ProgressServed DEF PersistEffect, Progress, Undisturbed
<1>3. task[t].op \notin {"none", "boot"} /\ r.op = task[t].op
  BY <1>1 DEF PersistEffect, CallInv, Shape, Persisting, BootSteps, Restoring, Loading
<1>4. BootInv'
  BY <1>2, <1>3, NoBoot, BootInvMoves
<1>5. ApplyInv'
  BY <1>1, <1>2, ApplyInvMoves DEF PersistEffect, DInv, Persisting
<1>6. IdsInv'
  <2>1. /\ UNCHANGED <<active, issued>> /\ r.pc # "createWrite"
        /\ r.sid \in {task[t].sid, active, None} /\ r.id \in {task[t].id, active, None}
        /\ r.idx \in {task[t].idx, index, EmptyIndex} /\ index' \in {index, task[t].idx}
    BY <1>1 DEF PersistEffect, hist, Persisting
  <2>2. \A s \in SessionIds : s # task[t].sid => snapshot'[s] = snapshot[s]
    BY <1>1 DEF PersistEffect, IInv, Stored
  <2>3. EmptyIndex.sessions = {}
    BY DEF EmptyIndex
  <2> QED BY <1>2, <2>1, <2>2, <2>3, IdsKeep DEF DInv
<1>7. StoreInv'
  <2>1. UNCHANGED <<booted, active, timer, wasNonEmpty, live, unrestored>>
        /\ task[t].pc \notin Moving
    BY <1>1 DEF PersistEffect, Persisting, Moving, hist
  <2>2. active # None => \A c : WillBe(c) => WillBe(c)'
    BY <1>1, <1>2, WillServed
  <2>3. active # None /\ Kept => Kept'
    BY <2>1, <2>2, KeptSame
  <2> QED BY <1>2, <2>1, <2>2, <2>3, StoreMoves DEF DInv, StoreInv
<1> QED BY <1>4, <1>5, <1>6, <1>7 DEF DInv

(* A step that leaves the workspace, its session and its snapshot alone.   *)
LEMMA PlainD ==
  ASSUME IInv, QueueInv, DInv, NEW t \in Tasks, NEW r, Continue(t, r), Served(t),
         \A u \in Tasks : task[u].op # "boot", r.op # "boot",
         task[t].pc \notin Updates \cup Moving, r.pc \notin Updates \cup {"createWrite"},
         UNCHANGED <<active, snapshot, live, wasNonEmpty, booted, timer, applying, issued,
                     unrestored>>,
         r.sid \in {task[t].sid, None}, r.id \in {task[t].id, active, None},
         r.idx \in {task[t].idx, index, EmptyIndex}, index' \in {index, task[t].idx}
  PROVE  DInv'
<1>1. BootInv'
  BY BootInvMoves
<1>2. ApplyInv'
  BY ApplyInvMoves DEF DInv, Moving
<1>3. EmptyIndex.sessions = {}
  BY DEF EmptyIndex
<1>4. IdsInv'
  BY <1>3, IdsKeep DEF DInv
<1>5. StoreInv'
  BY StoreKeep DEF DInv
<1> QED BY <1>1, <1>2, <1>4, <1>5 DEF DInv

LEMMA NewDroppedD ==
  ASSUME Undisturbed, IInv, CallInv, QueueInv, DInv, NEW t \in Tasks, NewDropped(t)
  PROVE  DInv'
<1>r. task[t] \in TaskRec
  BY DEF IInv, Running
<1> DEFINE r == [task[t] EXCEPT !.pc = "createRead"]
<1>1. /\ r.op = "new" /\ r.pc = "createRead" /\ r.sid = task[t].sid /\ r.id = task[t].id
      /\ r.idx = task[t].idx
  BY <1>r DEF TaskRec, NewDropped
<1>2. /\ Continue(t, r) /\ task[t].pc = "drop" /\ task[t].op = "new"
      /\ UNCHANGED <<idb, active, wasNonEmpty, timer, applying, booted, issued, unrestored>>
  BY DEF NewDropped, At, Goto, hist
<1>3. Served(t) /\ \A u \in Tasks : task[u].op # "boot"
  BY <1>2, ProgressServed, NoBoot DEF Progress, HandlerStep
<1>4. "drop" \notin Updates /\ "createRead" \notin Updates /\ "createRead" \in Moving
  BY DEF Updates, Moving
<1> HIDE DEF r
<1>5. BootInv'
  BY <1>1, <1>2, <1>3, BootInvMoves
<1>6. ApplyInv'
  BY <1>2, ApplyInvMoves DEF DInv
<1>7. IdsInv'
  BY <1>1, <1>2, IdsKeep DEF DInv, idb
<1>8. WillBe(None) => WillBe(None)'
  BY <1>1, <1>2, <1>3, <1>4, WillKeep DEF idb
<1>9. StoreInv'
  BY <1>1, <1>2, <1>4, <1>8, StoreMoves DEF DInv, StoreInv
<1> QED BY <1>5, <1>6, <1>7, <1>9 DEF DInv

LEMMA CreateReadD ==
  ASSUME Undisturbed, IInv, CallInv, QueueInv, DInv, NEW t \in Tasks, task[t].op = "new", CreateRead(t)
  PROVE  DInv'
<1>r. task[t] \in TaskRec
  BY DEF IInv, Running
<1>0. PICK id \in SessionIds \ issued :
        /\ issued' = issued \cup {id}
        /\ Continue(t, [task[t] EXCEPT !.pc = "createWrite", !.id = id, !.idx = index])
  BY DEF CreateRead
<1> DEFINE r == [task[t] EXCEPT !.pc = "createWrite", !.id = id, !.idx = index]
<1>1. /\ r.op = "new" /\ r.pc = "createWrite" /\ r.sid = task[t].sid /\ r.id = id
      /\ r.idx = index
  BY <1>r DEF TaskRec
<1>2. /\ Continue(t, r) /\ task[t].pc = "createRead" /\ UNCHANGED <<idb, tab, unrestored>>
  BY <1>0 DEF CreateRead, At
<1>3. Served(t) /\ \A u \in Tasks : task[u].op # "boot"
  BY ProgressServed, NoBoot DEF Progress, HandlerStep
<1>4. "createRead" \notin Updates /\ "createWrite" \notin Updates /\ "createWrite" \in Moving
  BY DEF Updates, Moving
<1> HIDE DEF r
<1>5. BootInv'
  BY <1>1, <1>2, <1>3, BootInvMoves
<1>6. ApplyInv'
  BY <1>2, ApplyInvMoves DEF DInv, tab
<1>7. IdsInv'
  <2>0. UNCHANGED <<index, active, snapshot>> /\ IdsInv
    BY <1>2 DEF idb, tab, DInv
  <2>1. \A s \in SessionIds \ issued' :
           /\ r.sid # s /\ r.id # s /\ s \notin r.idx.sessions
           /\ active' # s /\ snapshot'[s] = None /\ s \notin index'.sessions
    BY <1>0, <1>1, <2>0 DEF IdsInv, Unknown
  <2>2. Unknown(id) /\ \A u \in Tasks : task[u].id # id
    BY <1>0, <2>0 DEF IdsInv
  <2>3. \A u \in Tasks \ {t} : task[u].pc = "createWrite" =>
           /\ r.sid # task[u].id /\ active' # task[u].id /\ snapshot'[task[u].id] = None
           /\ r.id # task[u].id
    BY <1>1, <2>0, <2>2 DEF IdsInv, Unknown
  <2>4. /\ snapshot'[r.id] = None /\ active' # r.id /\ r.sid # r.id
        /\ \A u \in Tasks \ {t} : task[u].sid # r.id
    BY <1>1, <2>0, <2>2 DEF Unknown
  <2> QED BY <1>0, <1>1, <1>2, <2>0, <2>1, <2>3, <2>4, IdsMoves
<1>8. WillBe(None) => WillBe(None)'
  BY <1>1, <1>2, <1>3, <1>4, WillKeep DEF idb, tab
<1>9. StoreInv'
  BY <1>1, <1>2, <1>4, <1>8, StoreMoves DEF DInv, StoreInv, tab
<1> QED BY <1>5, <1>6, <1>7, <1>9 DEF DInv

LEMMA CreateWriteD ==
  ASSUME Undisturbed, IInv, CallInv, QueueInv, DInv, NEW t \in Tasks, task[t].op = "new", CreateWrite(t)
  PROVE  DInv'
<1> DEFINE id == task[t].id
<1>1. /\ Continue(t, IdleTask) /\ task[t].pc = "createWrite" /\ active' = id
      /\ index' = [active |-> id, sessions |-> task[t].idx.sessions \cup {id}]
      /\ ScheduleSave
      /\ UNCHANGED <<snapshot, applying, booted, wasNonEmpty, issued, unrestored>>
  BY DEF CreateWrite, At, Return, hist
<1>2. /\ IdleTask.pc = "idle" /\ IdleTask.op = "none" /\ IdleTask.sid = None /\ IdleTask.id = None
      /\ IdleTask.idx.sessions = {}
  BY DEF IdleTask, EmptyIndex
<1>3. id \in SessionIds /\ id # None
  BY <1>1, NoneAssumption DEF IInv, Running, Sound, Naming
<1>4. /\ Unknown(id)
      /\ \A u \in Tasks \ {t} : task[u].pc = "createWrite" => task[u].id # id
      /\ IdsInv
  BY <1>1 DEF DInv, IdsInv
<1>5. \A u \in Tasks : task[u].op # "boot"
  BY NoBoot
<1>6. BootInv'
  BY <1>1, <1>2, <1>5, BootInvMoves
<1>7. ApplyInv'
  BY <1>1, ApplyInvMoves DEF DInv
<1>8. IdsInv'
  <2>1. ASSUME NEW s \in SessionIds \ issued'
        PROVE  /\ IdleTask.sid # s /\ IdleTask.id # s /\ s \notin IdleTask.idx.sessions
               /\ active' # s /\ snapshot'[s] = None /\ s \notin index'.sessions
    <3>1. Unknown(s) /\ id # s /\ s \notin task[t].idx.sessions /\ s # None
      BY <1>1, <1>4, NoneAssumption DEF IdsInv
    <3> QED BY <1>1, <1>2, <3>1 DEF Unknown
  <2>2. ASSUME NEW u \in Tasks \ {t}, task[u].pc = "createWrite"
        PROVE  IdleTask.sid # task[u].id /\ active' # task[u].id /\ snapshot'[task[u].id] = None
    <3>1. task[u].id # None /\ Unknown(task[u].id)
      BY <1>4, <2>2, NoneAssumption DEF IInv, Running, Sound, Naming, IdsInv
    <3> QED BY <1>1, <1>2, <1>4, <2>2, <3>1 DEF Unknown
  <2> QED BY <1>1, <1>2, <1>4, <2>1, <2>2, IdsMoves
<1>9. WillBe(None)'
  <2>1. \A u \in Tasks : task'[u].sid # id
    BY <1>1, <1>2, <1>3, <1>4, Continues DEF Unknown
  <2>2. \A u \in Tasks : ~Updating(u)'
    BY <1>1, <2>1 DEF Updating
  <2>3. snapshot'[active'] = None
    BY <1>1, <1>4 DEF Unknown
  <2> QED BY <2>2, <2>3 DEF WillBe
<1>10. booted => timer' \/ \E u \in Tasks \ {t} : task[u].pc \in Moving
  BY <1>1 DEF ScheduleSave, DInv, ApplyInv, Moving
<1>11. StoreInv'
  BY <1>1, <1>3, <1>9, <1>10, StoreMoves
<1> QED BY <1>6, <1>7, <1>8, <1>11 DEF DInv

LEMMA FreshArtifactsD ==
  ASSUME Undisturbed, IInv, CallInv, QueueInv, DInv, NEW t \in Tasks, task[t].op = "fresh",
         FreshArtifacts(t)
  PROVE  DInv'
<1>r. task[t] \in TaskRec
  BY DEF IInv, Running
<1> DEFINE r == [task[t] EXCEPT !.pc = "reload"]
<1>1. /\ r.op = "fresh" /\ r.pc = "reload" /\ r.sid = task[t].sid /\ r.id = task[t].id
      /\ r.idx = task[t].idx
  BY <1>r DEF TaskRec
<1>2. /\ Continue(t, r) /\ task[t].pc = "freshArtifacts"
      /\ UNCHANGED <<index, tab, issued, unrestored>>
      /\ snapshot' = [snapshot EXCEPT ![task[t].id] = None]
  BY DEF Undisturbed, FreshArtifacts, ClearSessionArtifacts, At, Goto, hist
<1>3. Served(t) /\ \A u \in Tasks : task[u].op # "boot"
  BY ProgressServed, NoBoot DEF Progress, HandlerStep
<1>4. "freshArtifacts" \notin Updates /\ "reload" \notin Updates /\ "reload" \in Moving
  BY DEF Updates, Moving
<1>5. \A s \in SessionIds : snapshot'[s] \in {snapshot[s], None}
  BY <1>2 DEF IInv, Stored
<1> HIDE DEF r
<1>6. BootInv'
  BY <1>1, <1>2, <1>3, BootInvMoves
<1>7. ApplyInv'
  BY <1>2, ApplyInvMoves DEF DInv, tab
<1>8. IdsInv'
  BY <1>1, <1>2, <1>5, IdsKeep DEF DInv, tab
<1>9. active # None /\ WillBe(None) => WillBe(None)'
  <2>1. active # None => active \in SessionIds
    BY DEF IInv, OnTab
  <2> QED BY <1>1, <1>2, <1>3, <1>4, <1>5, <2>1, WillCleared DEF tab
<1>10. StoreInv'
  BY <1>1, <1>2, <1>4, <1>9, StoreMoves DEF DInv, StoreInv, tab
<1> QED BY <1>6, <1>7, <1>8, <1>10 DEF DInv

(* Without switches and deletions a handler is a New session, a rename or  *)
(* a Start fresh.                                                          *)
LEMMA HandlerD ==
  ASSUME Undisturbed, IInv, CallInv, QueueInv, DInv, NEW t \in Tasks, HandlerStep(t)
  PROVE  DInv'
<1>r. task[t] \in TaskRec /\ Shape(task[t]) /\ Called(t) /\ Served(t)
  BY ProgressServed DEF IInv, Running, CallInv, Progress
<1>0. task[t].op \notin {"switch", "delete"}
  BY <1>r DEF Called, Undisturbed
<1>1. /\ task[t].pc \in {"createRead", "createWrite"} => task[t].op = "new"
      /\ task[t].pc \in {"freshRead", "freshArtifacts"} => task[t].op = "fresh"
      /\ task[t].pc \in {"renameRead", "renameWrite"} => task[t].op = "rename"
      /\ task[t].pc \notin Switching \cup Deleting
  BY <1>r, <1>0 DEF Shape, TaskRec, TaskOps, Persisting, BootSteps, Restoring, Loading, Deleting,
     Switching
<1>2. ~(SetActiveRead(t) \/ SetActiveWrite(t) \/ SwitchRead(t) \/ SwitchDropped(t)
        \/ DeleteCheck(t) \/ DeleteRead(t) \/ DeleteArtifacts(t) \/ DeleteWrite(t)
        \/ DeleteNext(t) \/ DeleteDropped(t))
  BY <1>0, <1>1 DEF SetActiveRead, SetActiveWrite, SwitchRead, SwitchDropped, DeleteCheck, DeleteRead,
     DeleteArtifacts, DeleteWrite, DeleteNext, DeleteDropped, At, Switching, Deleting
<1>3. CASE RenameRead(t)
  <2> DEFINE r == [task[t] EXCEPT !.pc = "renameWrite", !.idx = index]
  <2>1. /\ r.op = "rename" /\ r.pc = "renameWrite" /\ r.sid = task[t].sid /\ r.id = task[t].id
        /\ r.idx = index
    BY <1>r, <1>1, <1>3 DEF TaskRec, RenameRead, At
  <2>2. Continue(t, r) /\ task[t].pc = "renameRead" /\ UNCHANGED <<idb, tab, issued, unrestored>>
    BY <1>3 DEF RenameRead, At, hist
  <2>3. \A u \in Tasks : task[u].op # "boot"
    BY <1>1, <2>2, NoBoot
  <2> HIDE DEF r
  <2> QED BY <1>r, <2>1, <2>2, <2>3, PlainD DEF idb, tab, Updates, Moving
<1>4. CASE RenameWrite(t)
  <2>1. Continue(t, IdleTask) /\ task[t].pc = "renameWrite" /\ index' = task[t].idx
        /\ UNCHANGED <<snapshot, tab, issued, unrestored>>
    BY <1>4 DEF RenameWrite, At, Return, hist
  <2>2. \A u \in Tasks : task[u].op # "boot"
    BY <1>1, <2>1, NoBoot
  <2>3. /\ IdleTask.pc = "idle" /\ IdleTask.op = "none" /\ IdleTask.sid = None /\ IdleTask.id = None
        /\ IdleTask.idx = EmptyIndex
    BY DEF IdleTask
  <2> QED BY <1>r, <2>1, <2>2, <2>3, PlainD DEF tab, Updates, Moving
<1>5. CASE FreshRead(t)
  <2> DEFINE r == [task[t] EXCEPT !.pc = "freshArtifacts"]
  <2>1. /\ r.op = "fresh" /\ r.pc = "freshArtifacts" /\ r.sid = task[t].sid /\ r.id = task[t].id
        /\ r.idx = task[t].idx
    BY <1>r, <1>1, <1>5 DEF TaskRec, FreshRead, At
  <2>2. Continue(t, r) /\ task[t].pc = "freshRead" /\ UNCHANGED <<idb, tab, issued, unrestored>>
    BY <1>5 DEF FreshRead, At, Goto, hist
  <2>3. \A u \in Tasks : task[u].op # "boot"
    BY <1>1, <2>2, NoBoot
  <2> HIDE DEF r
  <2> QED BY <1>r, <2>1, <2>2, <2>3, PlainD DEF idb, tab, Updates, Moving
<1>6. CASE CreateRead(t) \/ CreateWrite(t)
  BY <1>1, <1>6, CreateReadD, CreateWriteD DEF CreateRead, CreateWrite, At
<1>7. CASE FreshArtifacts(t)
  BY <1>1, <1>7, FreshArtifactsD DEF FreshArtifacts, At
<1> QED BY <1>2, <1>3, <1>4, <1>5, <1>6, <1>7, NewDroppedD DEF HandlerStep

(* A boot runs alone. *)
LEMMA Alone ==
  ASSUME Undisturbed, CallInv, NEW t \in Tasks, task[t].op = "boot"
  PROVE  ~booted /\ \A u \in Tasks \ {t} : task[u].op = "none" /\ task[u].pc = "idle"
BY DEF CallInv, Called, Shape, Undisturbed

(* A step of the boot; the last one leaves on screen what is stored.       *)
LEMMA BootMovesD ==
  ASSUME Undisturbed, IInv, CallInv, DInv, NEW t \in Tasks, task[t].op = "boot", NEW r, Continue(t, r),
         r.pc # "idle" =>
           /\ Boots(r) /\ r.pc # "createWrite"
           /\ r.pc \in {"readSnapshot"} \cup Loading => r.sid = active'
           /\ r.pc \in Loading => r.file = snapshot'[active']
           /\ r.pc = "loadSettings" => active' # None
           /\ r.pc = "readResults" => active' # None /\ Stores(snapshot[active])' /\ Known',
         \/ applying' = None
         \/ r.pc \in {"applyDrop", "applyMount"} /\ applying' \in {applying, t}
         \/ task[t].pc \notin {"applyDrop", "applyMount"} /\ applying' = applying,
         issued \subseteq issued',
         \A s \in SessionIds \ issued' :
           /\ r.sid # s /\ r.id # s /\ s \notin r.idx.sessions
           /\ active' # s /\ snapshot'[s] = None /\ s \notin index'.sessions,
         booted' => r.pc = "idle" /\ active' # None /\ Stores(snapshot[active])' /\ Known'
  PROVE  DInv'
<1>1. ~booted /\ \A u \in Tasks \ {t} : task[u].op = "none" /\ task[u].pc = "idle"
  BY Alone
<1>2. /\ task'[t] = IF r.pc = "idle" THEN IdleTask ELSE r
      /\ \A u \in Tasks : u # t => task'[u] = task[u]
  BY Continues
<1>3. ApplyInv'
  BY ApplyInvMoves DEF DInv
<1>4. IdsInv'
  BY <1>1, IdsMoves DEF DInv
<1>5. BootInv'
  <2>1. IdleTask.op = "none"
    BY DEF IdleTask
  <2>2. ASSUME NEW u \in Tasks, u # t PROVE task'[u].op # "boot"
    BY <1>1, <1>2, <2>2
  <2>3. CASE r.pc = "idle"
    BY <1>2, <2>1, <2>2, <2>3 DEF BootInv, Boots
  <2>4. CASE r.pc # "idle"
    <3>1. task'[t] = r
      BY <1>2, <2>4
    <3> QED BY <2>2, <2>4, <3>1 DEF BootInv, Boots, Known, Stores
  <2> QED BY <2>3, <2>4
<1>6. StoreInv'
  <2> SUFFICES ASSUME booted'
               PROVE  /\ active' # None /\ Kept'
                      /\ wasNonEmpty' \/ unrestored' \/ WillBe(None)'
    BY StoreMoves
  <2>1. \A u \in Tasks : task'[u].pc = "idle"
    BY <1>1, <1>2 DEF IdleTask
  <2>2. \A u \in Tasks : ~Updating(u)'
    BY <2>1, UpdatesQueued DEF Updating
  <2>3. PICK c : c = snapshot'[active']
    OBVIOUS
  <2>4. WillBe(c)'
    BY <2>2, <2>3 DEF WillBe
  <2>5. Stores(c)'
    BY <2>3 DEF Stores
  <2>6. Kept'
    BY <2>4, <2>5 DEF Kept
  <2> QED BY <2>3, <2>4, <2>6 DEF Known
<1> QED BY <1>3, <1>4, <1>5, <1>6 DEF DInv

(* What the boot knows of ids that have not been handed out.               *)
LEMMA BootIds ==
  ASSUME IInv, DInv, NEW t \in Tasks, NEW s \in SessionIds \ issued
  PROVE  /\ task[t].sid # s /\ task[t].id # s /\ s \notin task[t].idx.sessions
         /\ active # s /\ snapshot[s] = None /\ s \notin index.sessions /\ s # None
BY NoneAssumption DEF DInv, IdsInv, Unknown

LEMMA BootGoto ==
  ASSUME Undisturbed, IInv, CallInv, DInv, NEW t \in Tasks, task[t].op = "boot", NEW pc, Goto(t, pc),
         booted' = booted, task[t].pc \notin {"applyDrop", "applyMount"},
         pc \in {"bootLegacy", "bootForget", "bootWrite"},
         pc # "bootLegacy" => task[t].id \in SessionIds,
         applying' = applying, issued' = issued, active' = active, index' = index,
         \A s \in SessionIds \ issued : snapshot'[s] = None
  PROVE  DInv'
<1>r. task[t] \in TaskRec
  BY DEF IInv, Running
<1> DEFINE r == [task[t] EXCEPT !.pc = pc]
<1>1. r.op = "boot" /\ r.pc = pc /\ r.sid = task[t].sid /\ r.id = task[t].id /\ r.idx = task[t].idx
  BY <1>r DEF TaskRec
<1>2. Continue(t, r) /\ ~booted
  BY Alone DEF Goto
<1> HIDE DEF r
<1>3. Boots(r) /\ r.pc # "createWrite" /\ r.pc \notin {"loadSettings", "readSnapshot", "readResults"} \cup Loading
  BY <1>1 DEF Boots, Loading
<1>4. ASSUME NEW s \in SessionIds \ issued'
      PROVE  /\ r.sid # s /\ r.id # s /\ s \notin r.idx.sessions
             /\ active' # s /\ snapshot'[s] = None /\ s \notin index'.sessions
  BY <1>1, BootIds
<1> QED BY <1>2, <1>3, <1>4, BootMovesD

LEMMA BootRestoreD ==
  ASSUME Undisturbed, IInv, CallInv, DInv, NEW t \in Tasks, task[t].op = "boot", NEW id \in issued, Restore(t),
         booted' = booted, task[t].pc \notin {"applyDrop", "applyMount"},
         applying' = applying, issued' = issued, active' = id, snapshot' = snapshot,
         index' \in {index, task[t].idx}
  PROVE  DInv'
<1> DEFINE r == Call(task[t].op, "loadSettings")
<1>0. id \in SessionIds /\ id # None
  BY NoneAssumption DEF IInv, Stored
<1>1. /\ r.op = "boot" /\ r.pc = "loadSettings" /\ r.sid = None /\ r.id = None
      /\ r.idx.sessions = {}
  BY DEF Call, IdleTask, EmptyIndex
<1>2. Continue(t, r) /\ ~booted
  BY Alone DEF Restore
<1> HIDE DEF r
<1>3. Boots(r) /\ r.pc # "createWrite" /\ r.pc \notin {"readSnapshot", "readResults"} \cup Loading
  BY <1>0, <1>1 DEF Boots, Loading
<1>4. ASSUME NEW s \in SessionIds \ issued'
      PROVE  /\ r.sid # s /\ r.id # s /\ s \notin r.idx.sessions
             /\ active' # s /\ snapshot'[s] = None /\ s \notin index'.sessions
  BY <1>1, BootIds
<1> QED BY <1>0, <1>1, <1>2, <1>3, <1>4, BootMovesD

LEMMA BootD ==
  ASSUME Undisturbed, IInv, CallInv, DInv, NEW t \in Tasks, BootStep(t)
  PROVE  DInv'
<1>r. task[t] \in TaskRec /\ Shape(task[t])
  BY DEF IInv, Running, CallInv
<1>1. task[t].op = "boot" /\ task[t].pc \in BootSteps
  BY <1>r DEF BootStep, BootRead, BootLegacy, BootPut, BootForget, BootWrite, At, Shape, TaskRec,
     TaskOps, Persisting, BootSteps, Restoring, Loading, Deleting, Switching
<1>2. task[t].pc \notin {"applyDrop", "applyMount"} /\ ~booted
  BY <1>1, Alone DEF BootSteps
<1>3. index.sessions \subseteq issued /\ index.sessions \subseteq SessionIds
  BY DEF DInv, IdsInv, IInv, Stored, Index
<1>4. Boots(task[t])
  BY DEF DInv, BootInv
<1>5. CASE BootRead(t)
  <2>0. UNCHANGED <<idb, applying, booted, issued>>
    BY <1>5 DEF BootRead
  <2>1. CASE Goto(t, "bootLegacy") /\ active' = active
    BY <1>1, <1>2, <2>0, <2>1, BootGoto, BootIds DEF idb
  <2>2. CASE Restore(t) /\ active' = index.active /\ index.active \in index.sessions
    BY <1>1, <1>2, <1>3, <2>0, <2>2, BootRestoreD DEF idb
  <2>3. ASSUME active' = active, NEW first \in index.sessions,
               Continue(t, [task[t] EXCEPT !.pc = "bootWrite", !.id = first,
                                           !.idx = [index EXCEPT !.active = first]])
        PROVE  DInv'
    <3> DEFINE r == [task[t] EXCEPT !.pc = "bootWrite", !.id = first,
                                    !.idx = [index EXCEPT !.active = first]]
    <3>1. /\ r.op = "boot" /\ r.pc = "bootWrite" /\ r.sid = task[t].sid /\ r.id = first
          /\ r.idx.sessions = index.sessions
      BY <1>r, <1>1 DEF TaskRec, IInv, Stored, Index
    <3>2. Continue(t, r)
      BY <2>3
    <3> HIDE DEF r
    <3>3. Boots(r) /\ r.pc # "createWrite" /\ r.pc \notin Restoring
      BY <1>3, <3>1 DEF Boots, Restoring, Loading
    <3>4. ASSUME NEW s \in SessionIds \ issued'
          PROVE  /\ r.sid # s /\ r.id # s /\ s \notin r.idx.sessions
                 /\ active' # s /\ snapshot'[s] = None /\ s \notin index'.sessions
      BY <2>0, <2>3, <3>1, BootIds DEF idb
    <3> QED BY <1>1, <1>2, <2>0, <3>1, <3>2, <3>3, <3>4, BootMovesD DEF Restoring
  <2> QED BY <1>5, <2>1, <2>2, <2>3 DEF BootRead
<1>6. CASE BootLegacy(t)
  <2>1. PICK id \in SessionIds \ issued :
          /\ issued' = issued \cup {id}
          /\ Continue(t, [task[t] EXCEPT !.pc = IF legacy THEN "bootPut" ELSE "bootWrite",
                                         !.id = id,
                                         !.idx = [active |-> id, sessions |-> {id}]])
    BY <1>6 DEF BootLegacy
  <2> DEFINE r == [task[t] EXCEPT !.pc = IF legacy THEN "bootPut" ELSE "bootWrite",
                                  !.id = id,
                                  !.idx = [active |-> id, sessions |-> {id}]]
  <2>2. /\ r.op = "boot" /\ r.pc \in {"bootPut", "bootWrite"} /\ r.sid = task[t].sid /\ r.id = id
        /\ r.idx.sessions = {id}
    BY <1>r, <1>1 DEF TaskRec
  <2>3. Continue(t, r) /\ UNCHANGED <<idb, tab>>
    BY <1>6, <2>1 DEF BootLegacy
  <2> HIDE DEF r
  <2>4. Boots(r) /\ r.pc # "createWrite" /\ r.pc \notin Restoring
    BY <2>2 DEF Boots, Restoring, Loading
  <2>5. ASSUME NEW s \in SessionIds \ issued'
        PROVE  /\ r.sid # s /\ r.id # s /\ s \notin r.idx.sessions
               /\ active' # s /\ snapshot'[s] = None /\ s \notin index'.sessions
    BY <2>1, <2>2, <2>3, BootIds DEF idb, tab
  <2> QED BY <1>1, <1>2, <2>1, <2>2, <2>3, <2>4, <2>5, BootMovesD DEF tab, Restoring
<1>7. CASE BootPut(t)
  <2>1. task[t].id \in SessionIds
    BY <1>1, <1>4, <1>7 DEF Boots, BootPut, At
  <2>2. \A s \in SessionIds \ issued : snapshot'[s] = None
    BY <1>7, <2>1, BootIds DEF BootPut, IInv, Stored
  <2>3. Goto(t, "bootForget") /\ UNCHANGED <<index, tab, issued>>
    BY <1>7 DEF BootPut, hist
  <2> QED BY <1>1, <1>2, <2>1, <2>2, <2>3, BootGoto DEF tab
<1>8. CASE BootForget(t)
  <2>1. task[t].id \in SessionIds
    BY <1>1, <1>4, <1>8 DEF Boots, BootForget, At
  <2>2. Goto(t, "bootWrite") /\ UNCHANGED <<index, snapshot, tab, issued>>
    BY <1>8 DEF BootForget, hist
  <2> QED BY <1>1, <1>2, <2>1, <2>2, BootGoto, BootIds DEF tab
<1>9. CASE BootWrite(t)
  <2>1. task[t].id \in issued
    <3>1. task[t].id \in SessionIds
      BY <1>1, <1>4, <1>9 DEF Boots, BootWrite, At
    <3> QED BY <3>1 DEF DInv, IdsInv
  <2>2. /\ Restore(t) /\ active' = task[t].id /\ index' = task[t].idx
        /\ UNCHANGED <<snapshot, applying, booted, issued>>
    BY <1>9 DEF BootWrite, hist
  <2> QED BY <1>1, <1>2, <2>1, <2>2, BootRestoreD
<1> QED BY <1>5, <1>6, <1>7, <1>8, <1>9 DEF BootStep

(* The restore of the boot: what it puts on screen is stored.              *)
LEMMA BootRestores ==
  ASSUME Undisturbed, IInv, CallInv, DInv, NEW t \in Tasks, task[t].op = "boot", RestoreStep(t)
  PROVE  DInv'
<1>r. task[t] \in TaskRec
  BY DEF IInv, Running
<1>1. /\ ~booted /\ (task[t].pc # "readResults" => live = None)
      /\ Boots(task[t])
      /\ task[t].pc \in {"readSnapshot"} \cup Loading => task[t].sid = active
      /\ task[t].pc \in Loading => task[t].file = snapshot[active]
      /\ task[t].pc = "loadSettings" => active # None
      /\ task[t].pc = "readResults" => active # None /\ Stores(snapshot[active]) /\ Known
      /\ "fail" \notin Ops
  BY DEF CallInv, Called, DInv, BootInv, Undisturbed
<1>2. task[t].pc \in {"readSnapshot"} \cup Loading => active \in SessionIds /\ active # None
  BY <1>1, NoneAssumption DEF Boots
<1>3. /\ IdleTask.pc = "idle" /\ IdleTask.sid = None /\ IdleTask.id = None
      /\ IdleTask.idx.sessions = {}
  BY DEF IdleTask, EmptyIndex
<1>4. ASSUME NEW r, r.sid \in {task[t].sid, active, None}, r.id \in {task[t].id, None},
             r.idx.sessions \in {task[t].idx.sessions, {}},
             UNCHANGED <<active, snapshot, index, issued>>, NEW s \in SessionIds \ issued'
      PROVE  /\ r.sid # s /\ r.id # s /\ s \notin r.idx.sessions
             /\ active' # s /\ snapshot'[s] = None /\ s \notin index'.sessions
  BY <1>4, BootIds
<1>5. CASE ReadSnapshot(t)
  <2>0. /\ task[t].pc = "readSnapshot"
        /\ UNCHANGED <<index, snapshot, active, live, wasNonEmpty, applying, issued, unrestored>>
    BY <1>5 DEF ReadSnapshot, At, idb, hist
  <2>1. CASE snapshot[active] = None
    <3>1. Continue(t, IdleTask)
      BY <1>1, <1>5, <2>0, <2>1 DEF ReadSnapshot, Return
    <3>2. Stores(snapshot[active])' /\ Known'
      BY <1>1, <2>0, <2>1 DEF Stores, Known
    <3> QED BY <1>1, <1>2, <1>3, <1>4, <2>0, <3>1, <3>2, BootMovesD
  <2>2. CASE snapshot[active] # None
    <3> DEFINE r == [task[t] EXCEPT !.pc = "applyWait", !.file = snapshot[task[t].sid]]
    <3>1. /\ r.op = "boot" /\ r.pc = "applyWait" /\ r.sid = task[t].sid /\ r.id = task[t].id
          /\ r.idx = task[t].idx /\ r.file = snapshot[active]
      BY <1>r, <1>1, <2>0 DEF TaskRec
    <3>2. Continue(t, r) /\ booted' = booted
      BY <1>1, <1>5, <2>0, <2>2 DEF ReadSnapshot
    <3> HIDE DEF r
    <3>3. Boots(r)
      BY <1>1, <1>2, <2>0, <3>1 DEF Boots
    <3> QED BY <1>1, <1>4, <2>0, <3>1, <3>2, <3>3, BootMovesD
  <2> QED BY <2>1, <2>2
<1>6. CASE ApplyStart(t) \/ ApplyDropped(t)
  <2>1. PICK pc \in {"applyDrop", "applyMount"} : Goto(t, pc)
    BY <1>6 DEF ApplyStart, ApplyDropped
  <2>2. /\ task[t].pc \in Loading /\ applying' \in {applying, t}
        /\ UNCHANGED <<index, snapshot, active, booted, issued>>
    BY <1>6 DEF ApplyStart, ApplyDropped, At, Loading, idb, hist
  <2> DEFINE r == [task[t] EXCEPT !.pc = pc]
  <2>3. /\ r.op = "boot" /\ r.pc = pc /\ r.sid = task[t].sid /\ r.id = task[t].id
        /\ r.idx = task[t].idx /\ r.file = task[t].file
    BY <1>r DEF TaskRec
  <2>4. Continue(t, r)
    BY <2>1 DEF Goto
  <2> HIDE DEF r
  <2>5. Boots(r)
    BY <1>1, <2>1, <2>2, <2>3 DEF Boots
  <2> QED BY <1>1, <1>4, <2>1, <2>2, <2>3, <2>4, <2>5, BootMovesD
<1>7. CASE ApplyRestored(t)
  <2>0. /\ task[t].pc = "applyMount" /\ task[t].pc \in Loading /\ applying' = None
        /\ unrestored' = (live' = None) /\ UNCHANGED <<index, snapshot, active, issued>>
    BY <1>7 DEF ApplyRestored, At, Loading, idb
  <2>f. task[t].file = snapshot[active] /\ task[t].file # None
    BY <1>1, <2>0, ContentAssumption DEF IInv, Running, Sound, Holding
  <2>s. Stores(snapshot[active])' /\ Known'
    <3>1. PICK c \in {task[t].file, Part(task[t].file), None} :
            live' \in Joined(c) /\ wasNonEmpty' = (c # None)
      BY <1>7 DEF ApplyRestored, BroughtBack
    <3>2. live' = c
      BY <1>1, <2>0, <3>1 DEF Joined
    <3>3. CASE c = None
      BY <2>0, <3>1, <3>2, <3>3 DEF Stores, Known
    <3>4. CASE c # None
      BY <2>0, <2>f, <3>1, <3>2, <3>4 DEF Stores, Known
    <3> QED BY <3>3, <3>4
  <2> DEFINE r == [Call(task[t].op, "readResults") EXCEPT !.sid = active]
  <2>1. /\ r.op = "boot" /\ r.pc = "readResults" /\ r.sid = active /\ r.id = None
        /\ r.idx.sessions = {}
    BY DEF Call, IdleTask, EmptyIndex
  <2>2. Continue(t, r) /\ booted' = booted
    BY <1>2, <1>7, <2>0 DEF ApplyRestored
  <2> HIDE DEF r
  <2>3. Boots(r) /\ r.pc \notin {"readSnapshot"} \cup Loading
    BY <2>1 DEF Boots, Loading
  <2> QED BY <1>1, <1>2, <1>4, <2>0, <2>s, <2>1, <2>2, <2>3, BootMovesD
<1>8. CASE ApplyOpened(t)
  BY <1>8 DEF ApplyOpened
<1>9. CASE ReadResults(t)
  <2>1. /\ task[t].pc = "readResults" /\ Continue(t, IdleTask)
        /\ UNCHANGED <<index, snapshot, active, live, wasNonEmpty, applying, issued, unrestored>>
    BY <1>9 DEF ReadResults, At, Return, idb, hist
  <2>2. Stores(snapshot[active])' /\ Known'
    BY <1>1, <2>1 DEF Stores, Known
  <2> QED BY <1>1, <1>3, <1>4, <2>1, <2>2, BootMovesD
<1>10. CASE LoadSettings(t)
  <2>0. /\ task[t].pc = "loadSettings" /\ UNCHANGED <<index, snapshot, active, applying, issued>>
    BY <1>10 DEF LoadSettings, At, idb, hist
  <2> DEFINE r == [Call(task[t].op, "readSnapshot") EXCEPT !.sid = active]
  <2>1. /\ r.op = "boot" /\ r.pc = "readSnapshot" /\ r.sid = active /\ r.id = None
        /\ r.idx.sessions = {}
    BY DEF Call, IdleTask, EmptyIndex
  <2>2. Continue(t, r) /\ booted' = booted
    BY <1>1, <1>10, <2>0 DEF LoadSettings
  <2> HIDE DEF r
  <2>3. active \in SessionIds /\ Boots(r) /\ r.pc \notin Loading
    BY <1>1, <2>0, <2>1 DEF Boots, Loading, IInv, OnTab
  <2> QED BY <1>1, <1>4, <2>0, <2>1, <2>2, <2>3, BootMovesD
<1>11. ~LoadFails(t)
  BY <1>1 DEF LoadFails
<1> QED BY <1>5, <1>6, <1>7, <1>8, <1>9, <1>10, <1>11 DEF RestoreStep

(* The opening of a file: auto-save is suspended while the workspace is    *)
(* replaced, and what replaces it is saved.                                *)
LEMMA OpenD ==
  ASSUME Undisturbed, IInv, CallInv, QueueInv, DInv, NEW t \in Tasks, task[t].op = "open", RestoreStep(t)
  PROVE  DInv'
<1>r. task[t] \in TaskRec /\ Shape(task[t])
  BY DEF IInv, Running, CallInv
<1>1. Served(t) /\ \A u \in Tasks : task[u].op # "boot"
  BY ProgressServed, NoBoot DEF Progress
<1>2. CASE ApplyStart(t) \/ ApplyDropped(t)
  <2>1. PICK pc \in {"applyDrop", "applyMount"} : Goto(t, pc)
    BY <1>2 DEF ApplyStart, ApplyDropped
  <2>2. /\ task[t].pc \in Loading /\ applying' \in {applying, t}
        /\ UNCHANGED <<index, snapshot, active, booted, issued, wasNonEmpty, unrestored>>
    BY <1>2 DEF ApplyStart, ApplyDropped, At, Loading, idb, hist
  <2> DEFINE r == [task[t] EXCEPT !.pc = pc]
  <2>3. /\ r.op = "open" /\ r.pc = pc /\ r.sid = task[t].sid /\ r.id = task[t].id
        /\ r.idx = task[t].idx
    BY <1>r DEF TaskRec
  <2>4. Continue(t, r)
    BY <2>1 DEF Goto
  <2>5. task[t].pc \notin Updates /\ pc \notin Updates /\ pc \in Moving
    BY <2>1, <2>2 DEF Updates, Moving, Loading
  <2> HIDE DEF r
  <2>6. BootInv'
    BY <1>1, <2>3, <2>4, BootInvMoves
  <2>7. ApplyInv'
    BY <2>1, <2>2, <2>3, <2>4, ApplyInvMoves DEF DInv
  <2>8. IdsInv'
    BY <2>1, <2>2, <2>3, <2>4, IdsKeep DEF DInv
  <2>9. WillBe(None) => WillBe(None)'
    BY <1>1, <2>2, <2>3, <2>4, <2>5, WillKeep
  <2>10. StoreInv'
    BY <2>2, <2>3, <2>4, <2>5, <2>9, StoreMoves DEF DInv, StoreInv
  <2> QED BY <2>6, <2>7, <2>8, <2>10 DEF DInv
<1>3. CASE ApplyOpened(t)
  <2>o. PICK opened : opened = live'
    OBVIOUS
  <2> DEFINE r == IF opened # None /\ active # None
                  THEN [Call("open", "putSnapshot") EXCEPT !.sid = active, !.file = opened]
                  ELSE IdleTask
  <2>0. /\ task[t].pc = "applyMount" /\ applying' = None
        /\ wasNonEmpty' = (live' # None) /\ unrestored' = (live' = None)
        /\ UNCHANGED <<index, snapshot, active, booted, issued>>
        /\ Continue(t, r)
    BY <1>3, <2>o DEF ApplyOpened, At, Return, idb
  <2>1. /\ r.op \in {"open", "none"} /\ r.pc \in {"putSnapshot", "idle"} /\ r.sid \in {active, None}
        /\ r.id = None /\ r.idx.sessions = {}
        /\ opened # None /\ active # None =>
             r.pc = "putSnapshot" /\ r.sid = active /\ r.file = opened
    BY DEF Call, IdleTask, EmptyIndex
  <2> HIDE DEF r
  <2>6. BootInv'
    BY <1>1, <2>0, <2>1, BootInvMoves
  <2>7. ApplyInv'
    BY <2>0, ApplyInvMoves DEF DInv
  <2>8. IdsInv'
    BY <2>0, <2>1, IdsKeep DEF DInv
  <2>9. ASSUME active # None PROVE Kept'
    <3>1. CASE opened = None
      BY <2>o, <2>0, <3>1 DEF Kept, Blank
    <3>2. CASE opened # None
      <4>1. r.pc \in Updates /\ r.sid = active /\ Update(r) = opened
        BY <2>1, <2>9, <3>2 DEF Updates, Update
      <4>2. PICK c : c = Update(r)
        OBVIOUS
      <4>3. WillBe(c)'
        BY <1>1, <2>0, <4>1, <4>2, WillStart
      <4>4. Stores(c)'
        BY <2>o, <2>0, <3>2, <4>1, <4>2 DEF Stores
      <4> QED BY <4>3, <4>4 DEF Kept
    <3> QED BY <3>1, <3>2
  <2>10. StoreInv'
    BY <2>0, <2>9, StoreMoves DEF DInv, StoreInv
  <2> QED BY <2>6, <2>7, <2>8, <2>10 DEF DInv
<1>4. ~(LoadSettings(t) \/ ReadSnapshot(t) \/ ApplyRestored(t) \/ LoadFails(t) \/ ReadResults(t))
  <2>1. task[t].pc \notin {"loadSettings", "readSnapshot", "readResults"}
    BY <1>r DEF Shape, Loading, Persisting
  <2> QED BY <2>1 DEF LoadSettings, ReadSnapshot, ApplyRestored, LoadFails, ReadResults, At,
     Undisturbed
<1> QED BY <1>2, <1>3, <1>4 DEF RestoreStep

LEMMA RestoreD ==
  ASSUME Undisturbed, IInv, CallInv, QueueInv, DInv, NEW t \in Tasks, RestoreStep(t)
  PROVE  DInv'
<1>1. task[t] \in TaskRec /\ Shape(task[t]) /\ Called(t)
  BY DEF IInv, Running, CallInv
<1>2. task[t].pc \in Restoring
  BY DEF RestoreStep, LoadSettings, ReadSnapshot, ApplyStart, ApplyDropped, ApplyRestored,
     ApplyOpened, LoadFails, ReadResults, At, Restoring, Loading, Undisturbed
<1>3. task[t].op \in {"boot", "open"}
  BY <1>1, <1>2 DEF Called, Undisturbed, Shape, TaskRec, TaskOps, Persisting, Restoring, Loading,
     Deleting, Switching
<1> QED BY <1>3, BootRestores, OpenD

(* The call of a save: it writes what is on screen, or knows it is empty.  *)
LEMMA PersistCallD ==
  ASSUME IInv, QueueInv, DInv, booted, NEW t \in Tasks, task[t].pc = "idle",
         \A u \in Tasks : task[u].op # "boot",
         NEW caller, NEW r, PersistCall(t, caller, r), caller.op \in {"save", "new"},
         caller.after \in {"idle", "drop"}, caller.sid = None, caller.id = None,
         caller.idx = EmptyIndex, UNCHANGED <<idb, active, live, applying, booted, issued, unrestored>>
  PROVE  DInv'
<1>1. Served(t) /\ task[t].pc \notin Updates \cup Moving
  BY IdleNotQueued DEF Served, Updates, Moving
<1>2. /\ Continue(t, r) /\ r.op # "boot" /\ r.sid \in {active, None} /\ r.id = None
      /\ r.idx.sessions = {} /\ r.pc # "createWrite"
  BY DEF PersistCall, EmptyIndex
<1>3. BootInv'
  BY <1>2, BootInvMoves
<1>4. ApplyInv'
  BY <1>2, ApplyInvMoves DEF DInv
<1>5. IdsInv'
  BY <1>2, IdsKeep DEF DInv, idb
<1>6. /\ active # None
      /\ wasNonEmpty \/ unrestored \/ WillBe(None)
  BY DEF DInv, StoreInv
<1>7. ASSUME r.pc \in Updates, r.sid = active, NEW c, c = Update(r) PROVE WillBe(c)'
  BY <1>1, <1>2, <1>7, WillStart
<1>8. PICK c : c = live
  OBVIOUS
<1>9. Kept' /\ (wasNonEmpty' \/ unrestored' \/ WillBe(None)')
  <2>1. CASE r.pc = "putSnapshot" /\ r.sid = active /\ r.file = live /\ live # None
    <3>1. WillBe(c)'
      BY <1>7, <1>8, <2>1 DEF Updates, Update
    <3>2. Stores(c)' /\ wasNonEmpty'
      BY <1>8, <2>1 DEF Stores, PersistCall
    <3> QED BY <3>1, <3>2 DEF Kept
  <2>2. CASE r.pc = "clearSnapshot" /\ r.sid = active /\ live = None
    <3>1. WillBe(None)'
      BY <1>7, <1>8, <2>2 DEF Updates, Update
    <3>2. Stores(None)'
      BY <2>2 DEF Stores
    <3> QED BY <3>1, <3>2 DEF Kept
  <2>3. CASE r.pc = caller.after /\ live = None /\ ~wasNonEmpty
    <3>1. r.pc \notin Updates
      BY <2>3 DEF Updates
    <3>2. CASE unrestored
      BY <2>3, <3>2 DEF Kept, Blank, PersistCall
    <3>3. CASE ~unrestored
      <4>1. WillBe(None)'
        BY <1>1, <1>2, <1>6, <2>3, <3>1, <3>3, WillKeep DEF idb
      <4>2. Stores(None)'
        BY <2>3 DEF Stores
      <4> QED BY <4>1, <4>2 DEF Kept
    <3> QED BY <3>2, <3>3
  <2> QED BY <1>6, <2>1, <2>2, <2>3 DEF PersistCall
<1>11. StoreInv'
  BY <1>2, <1>6, <1>9, StoreMoves
<1> QED BY <1>3, <1>4, <1>5, <1>11 DEF DInv

LEMMA EventD ==
  ASSUME Undisturbed, IInv, CallInv, QueueInv, DInv, NEW t \in Savers, TimerFires(t) \/ PageHide(t)
  PROVE  DInv'
<1> DEFINE c == Call("save", "idle")
<1>0. c \in TaskRec
  BY CallType DEF TaskOps, Steps
<1>1. c.op = "save" /\ c.after = "idle" /\ c.sid = None /\ c.id = None /\ c.idx = EmptyIndex
  BY DEF Call, IdleTask
<1>2. /\ PersistSnapshot(t, c) /\ booted /\ task[t].pc = "idle" /\ t \in Tasks
      /\ UNCHANGED <<idb, active, live, applying, booted, issued, unrestored>>
  BY DEF TimerFires, PageHide, Tasks, hist
<1> HIDE DEF c
<1>3. PICK r : PersistCall(t, c, r)
  BY <1>0, <1>2, PersistCalls
<1>4. \A u \in Tasks : task[u].op # "boot"
  BY <1>2, NoBoot
<1> QED BY <1>1, <1>2, <1>3, <1>4, PersistCallD

LEMMA UserD ==
  ASSUME Undisturbed, IInv, CallInv, QueueInv, DInv, NEW t \in Handlers, UserStep(t)
  PROVE  DInv'
<1>0. t \in Tasks
  BY DEF Tasks
<1>1. ASSUME NEW op, Clicks(t, op)
      PROVE  /\ op \in Ops /\ booted /\ task[t].pc = "idle"
             /\ Served(t) /\ task[t].pc \notin Updates \cup Moving
             /\ \A u \in Tasks : task[u].op # "boot"
  BY <1>0, <1>1, NoBoot, IdleNotQueued DEF Clicks, HandsOn, Undisturbed, Served, Updates,
     Moving
<1>2. CASE NewSession(t)
  <2> DEFINE c == [Call("new", "idle") EXCEPT !.after = "drop"]
  <2>0. c \in TaskRec
    BY CallType DEF TaskOps, TaskRec, Steps
  <2>1. c.op = "new" /\ c.after = "drop" /\ c.sid = None /\ c.id = None /\ c.idx = EmptyIndex
    BY DEF Call, IdleTask
  <2>2. /\ PersistSnapshot(t, c) /\ Clicks(t, "new")
        /\ UNCHANGED <<idb, active, live, applying, booted, issued, unrestored>>
    BY <1>2 DEF NewSession, hist
  <2> HIDE DEF c
  <2>3. PICK r : PersistCall(t, c, r)
    BY <1>0, <2>0, <2>2, PersistCalls
  <2> QED BY <1>0, <1>1, <2>1, <2>2, <2>3, PersistCallD
<1>3. ~(SwitchSession(t) \/ DeleteSession(t))
  BY <1>1 DEF SwitchSession, DeleteSession, Undisturbed
<1>4. ASSUME NEW op, Clicks(t, op), NEW r, Continue(t, r), r.op # "boot",
             r.pc \in {"renameRead", "freshRead", "applyWait"}, r.sid = None,
             r.id \in {active, None}, r.idx = EmptyIndex, UNCHANGED <<idb, tab, issued, unrestored>>
      PROVE  DInv'
  <2>1. r.pc \notin Updates \cup {"createWrite"}
    BY <1>4 DEF Updates
  <2> QED BY <1>0, <1>1, <1>4, <2>1, PlainD DEF idb, tab
<1>5. CASE RenameSession(t)
  <2> DEFINE r == Call("rename", "renameRead")
  <2>1. /\ r.op = "rename" /\ r.pc = "renameRead" /\ r.sid = None /\ r.id = None
        /\ r.idx = EmptyIndex
    BY DEF Call, IdleTask
  <2>2. Clicks(t, "rename") /\ Continue(t, r) /\ UNCHANGED <<idb, tab, issued, unrestored>>
    BY <1>5 DEF RenameSession, hist
  <2> HIDE DEF r
  <2> QED BY <1>4, <2>1, <2>2
<1>6. CASE StartFresh(t)
  <2> DEFINE r == [Call("fresh", "freshRead") EXCEPT !.id = active]
  <2>1. /\ r.op = "fresh" /\ r.pc = "freshRead" /\ r.sid = None /\ r.id = active
        /\ r.idx = EmptyIndex
    BY DEF Call, IdleTask
  <2>2. Clicks(t, "fresh") /\ Continue(t, r) /\ UNCHANGED <<idb, tab, issued, unrestored>>
    BY <1>6 DEF StartFresh, hist
  <2> HIDE DEF r
  <2> QED BY <1>4, <2>1, <2>2
<1>7. CASE OpenFile(t)
  <2> DEFINE r == [Call("open", "applyWait") EXCEPT
                    !.file = Work({}, rev + 1)]
  <2>1. /\ r.op = "open" /\ r.pc = "applyWait" /\ r.sid = None /\ r.id = None
        /\ r.idx = EmptyIndex
    BY DEF Call, IdleTask
  <2>2. Clicks(t, "open") /\ Continue(t, r) /\ UNCHANGED <<idb, tab, issued, unrestored>>
    BY <1>7 DEF OpenFile, hist
  <2> HIDE DEF r
  <2> QED BY <1>4, <2>1, <2>2
<1> QED BY <1>2, <1>3, <1>5, <1>6, <1>7 DEF UserStep

LEMMA DInvStep ==
  ASSUME Undisturbed, IInv, CallInv, QueueInv, DInv, [Next]_vars
  PROVE  DInv'
<1>1. CASE UNCHANGED vars
  BY <1>1 DEF vars, idb, tab, hist, DInv, StoreInv, ApplyInv, BootInv, Boots, IdsInv, Unknown, Kept,
     Blank, Known, Stores, WillBe, Updating, Update, Behind
<1>2. CASE Edit \/ RemoveAll
  <2>0. /\ booted /\ ScheduleSave
        /\ UNCHANGED <<idb, active, wasNonEmpty, applying, booted, task, queue, issued,
                       unrestored>>
    BY <1>2 DEF Edit, RemoveAll, HandsOn, Undisturbed
  <2>1. \A u \in Tasks : task[u].op # "boot"
    BY <2>0 DEF CallInv, Called
  <2>2. BootInv'
    BY <2>0, <2>1 DEF BootInv, Boots
  <2>3. ApplyInv' /\ IdsInv'
    BY <2>0 DEF DInv, ApplyInv, IdsInv, Unknown, idb
  <2>4. timer' \/ \E u \in Tasks : task'[u].pc \in Moving
    BY <2>0 DEF ScheduleSave, DInv, ApplyInv, Moving
  <2>5. WillBe(None) => WillBe(None)'
    BY <2>0 DEF WillBe, Updating, Update, Behind, idb
  <2>6. StoreInv'
    BY <2>0, <2>4, <2>5 DEF DInv, StoreInv
  <2> QED BY <2>2, <2>3, <2>6 DEF DInv
<1>3. ASSUME NEW t \in Handlers, Unload(t) PROVE DInv'
  <2>0. /\ task' = Booting(t) /\ ~booted' /\ active' = None /\ applying' = None
        /\ UNCHANGED <<idb, issued>>
    BY <1>3 DEF Unload
  <2>1. ASSUME NEW u \in Tasks
        PROVE  /\ task'[u].pc \in {"bootRead", "idle"} /\ task'[u].sid = None /\ task'[u].id = None
               /\ task'[u].idx.sessions = {}
    BY <2>0 DEF Booting, Call, IdleTask, EmptyIndex
  <2>2. BootInv'
    BY <2>1 DEF BootInv, Boots, Loading
  <2>3. IdsInv'
    BY <2>0, <2>1, NoneAssumption DEF DInv, IdsInv, Unknown, idb
  <2> QED BY <2>0, <2>2, <2>3 DEF DInv, StoreInv, ApplyInv
<1>4. ASSUME NEW t \in Tasks, Progress(t) PROVE DInv'
  BY <1>4, PersistD, HandlerD, RestoreD, BootD DEF Progress
<1> QED BY <1>1, <1>2, <1>3, <1>4, EventD, UserD DEF Next

LEMMA DInvInit == Init => DInv
<1> SUFFICES ASSUME Init PROVE DInv
  OBVIOUS
<1>1. PICK t \in Handlers : task = Booting(t)
  BY DEF Init
<1>2. ASSUME NEW u \in Tasks
      PROVE  /\ task[u].pc \in {"bootRead", "idle"} /\ task[u].sid = None /\ task[u].id = None
             /\ task[u].idx.sessions = {}
  BY <1>1 DEF Booting, Call, IdleTask, EmptyIndex
<1>3. BootInv
  BY <1>2 DEF BootInv, Boots, Loading
<1>4. /\ active = None /\ issued = StartSessions /\ index.sessions = StartSessions
      /\ \A s \in SessionIds \ StartSessions : snapshot[s] = None
      /\ ~booted /\ applying = None
  BY DEF Init
<1>5. IdsInv
  BY <1>2, <1>4, NoneAssumption DEF IdsInv, Unknown
<1> QED BY <1>3, <1>4, <1>5 DEF DInv, StoreInv, ApplyInv

LEMMA DInvImplies ==
  ASSUME DInv PROVE DurableWhenQuiet
<1> SUFFICES ASSUME Quiet PROVE Stores(snapshot[active])
  BY DEF DurableWhenQuiet
<1>1. \A t \in Tasks : task[t].pc \notin Moving /\ ~Updating(t)
  BY UpdatesQueued DEF Quiet, Moving, Updating
<1>2. Kept
  BY <1>1 DEF Quiet, DInv, StoreInv
<1>3. CASE live = None /\ Blank
  BY <1>3 DEF Stores, Blank
<1>4. ASSUME NEW c, WillBe(c), Stores(c) PROVE Stores(snapshot[active])
  BY <1>1, <1>4 DEF WillBe
<1> QED BY <1>2, <1>3, <1>4 DEF Kept

(* Auto-save writes everything: when nothing is pending, the snapshot of   *)
(* the active session stores the workspace on screen, an emptied workspace *)
(* and one that a boot restored, in part or as a whole, or a file replaced *)
(* included.  It takes that no write or import is rejected (the clear path *)
(* shows no warning, and an apply that gives up has cancelled the pending  *)
(* save), that no click restores another session or deletes one while      *)
(* saves are under way, and that the user waits for the boot to end: the   *)
(* subscribers of the auto-save are installed last (Sessions_early.cfg).   *)
THEOREM AutoSaveIsDurable ==
  ASSUME Undisturbed
  PROVE  Spec => []DurableWhenQuiet
<1>1. Init => QueueInv /\ DInv
  BY QueueInvInit, DInvInit
<1>2. IInv /\ CallInv /\ QueueInv /\ DInv /\ [Next]_vars => QueueInv' /\ DInv'
  BY QueueInvStep, DInvStep
<1>3. DInv => DurableWhenQuiet
  BY DInvImplies
<1> QED BY <1>1, <1>2, <1>3, SpecCalls, PTL DEF Spec
=============================================================================
